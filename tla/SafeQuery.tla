------------------------------ MODULE SafeQuery ------------------------------
(***************************************************************************)
(* SafeQueryService: one call of execute_fixed at a time.  A statement is  *)
(* inspected, its cost is estimated when an estimator is configured, it is *)
(* executed, and however the call ends one event is recorded first.  A     *)
(* statement is what the guard and the database can tell about it:         *)
(*   text     "query", or what else the parser makes of it                 *)
(*   writes   a query that holds a writing or locking node                 *)
(*   calls    the first function the guard refuses is "forbidden" or        *)
(*            "unknown"; "known" if it refuses none                        *)
(*   shape    "plain", "recursive" or "cartesian"                          *)
(*   reads    the tables it reads                                          *)
(*   foreign  the first table the guard refuses is one of another schema   *)
(*   columns  every column belongs to a table the policy allows            *)
(*   cost, plan  what EXPLAIN says of it                                   *)
(*   result   the columns and rows it returns                              *)
(***************************************************************************)
EXTENDS Integers, Sequences

CONSTANTS
  MaxCost,          \* max_total_cost
  MaxPlanRows       \* max_plan_rows

ASSUME QueryAssumption == MaxCost \in Int /\ MaxPlanRows \in Int

\* The call of execute_fixed.  Its field ran is a history variable, which no guard reads:
\* whether the statement itself has been sent to the database (EXPLAIN does not count).
VARIABLE query

NoStatement == [text |-> "none", writes |-> FALSE, calls |-> "none", shape |-> "none", reads |-> {},
                foreign |-> FALSE, columns |-> FALSE, cost |-> 0, plan |-> 0, result |-> "none"]
NoEvent == [status |-> "none", reason |-> "none", planner |-> FALSE, executor |-> FALSE]
NoQuery == [at |-> "idle", estimator |-> FALSE, sql |-> NoStatement, allowed |-> {}, event |-> NoEvent,
            recorded |-> <<>>, reply |-> "none", ran |-> FALSE]

QueryInit == query = NoQuery

\* The call execute_fixed(sql, policy) begins.
Submit(estimator, sql, allowed) ==
  [NoQuery EXCEPT !.at = "guard", !.estimator = estimator, !.sql = sql, !.allowed = allowed]

\* The checks of SQLGuard.inspect in their order, each with its reason.  Where the code
\* goes from function to function or from table to table, calls and foreign already say
\* what the first one refused is.
Checks(s, allowed) == <<
  <<s.text = "empty",        "EMPTY_QUERY">>,
  <<s.text = "unparsable",   "SQL_PARSE_ERROR">>,
  <<s.text = "several",      "MULTIPLE_STATEMENTS">>,
  <<s.text # "query",        "NON_READ_ONLY_STATEMENT">>,
  <<s.writes,                "FORBIDDEN_SQL_OPERATION">>,
  <<s.calls = "forbidden",   "FORBIDDEN_FUNCTION">>,
  <<s.calls = "unknown",     "FUNCTION_NOT_ALLOWED">>,
  <<s.shape = "recursive",   "RECURSIVE_QUERY_NOT_ALLOWED">>,
  <<s.shape = "cartesian",   "CARTESIAN_JOIN_NOT_ALLOWED">>,
  <<s.foreign,               "CROSS_SCHEMA_REFERENCE">>,
  <<~(s.reads \subseteq allowed), "TABLE_NOT_ALLOWED">>,
  <<~s.columns,              "COLUMN_NOT_ALLOWED">> >>

First(checks) == CHOOSE i \in DOMAIN checks : checks[i][1] /\ \A j \in 1..(i - 1) : ~checks[j][1]

Inspect(s, allowed) ==
  LET checks == Checks(s, allowed)
  IN IF \E i \in DOMAIN checks : checks[i][1] THEN checks[First(checks)][2] ELSE "none"

\* The call ends with reply once its event is recorded.
Ends(status, reason, executor, reply) ==
  query' = [query EXCEPT !.at = "record", !.reply = reply,
              !.event = [status |-> status, reason |-> reason,
                         planner |-> query.estimator /\ status # "REJECTED", executor |-> executor]]

Guard ==
  /\ query.at = "guard"
  /\ LET reason == Inspect(query.sql, query.allowed) IN
     IF reason # "none" THEN Ends("REJECTED", reason, FALSE, reason)
     ELSE query' = [query EXCEPT !.at = IF query.estimator THEN "estimate" ELSE "execute"]

\* _approval_reason
ApprovalReason(s) == CASE s.cost > MaxCost     -> "TOTAL_COST_LIMIT_EXCEEDED"
                       [] s.plan > MaxPlanRows /\ s.cost <= MaxCost -> "PLAN_ROWS_LIMIT_EXCEEDED"
                       [] OTHER                -> "none"

\* What connect, the statements of a transaction and an unexpected exception end in.
DatabaseErrors == {"QUERY_TIMEOUT", "QUERY_PERMISSION_DENIED", "QUERY_EXECUTION_FAILED"}

Estimate ==
  /\ query.at = "estimate"
  /\ LET reason == ApprovalReason(query.sql) IN
     IF reason # "none" THEN Ends("APPROVAL_REQUIRED", reason, FALSE, "QUERY_APPROVAL_REQUIRED")
     ELSE query' = [query EXCEPT !.at = "execute"]

EstimateFails ==
  /\ query.at = "estimate"
  /\ \E error \in DatabaseErrors : Ends("FAILED", error, FALSE, error)

\* The executor has a connection and sends the statement.
Send ==
  /\ query.at = "execute"
  /\ query' = [query EXCEPT !.at = "fetch", !.ran = TRUE]

Execute ==
  /\ query.at = "fetch"
  /\ Ends("SUCCEEDED", "QUERY_EXECUTED", TRUE, "ok")

\* Mutant: the event of a failed execution says that there was none.
MutExecuteFails ==
  \/ /\ query.at \in {"execute", "fetch"}
     /\ \E error \in DatabaseErrors : Ends("FAILED", error, FALSE, error)
  \/ /\ query.at = "fetch"
     /\ Ends("FAILED", "QUERY_RESULT_LIMIT_EXCEEDED", FALSE, "QUERY_RESULT_LIMIT_EXCEEDED")

\* The connection or the statement fails, or the result is refused.
ExecuteFails ==
  \/ /\ query.at \in {"execute", "fetch"}
     /\ \E error \in DatabaseErrors : Ends("FAILED", error, TRUE, error)
  \/ /\ query.at = "fetch"
     /\ Ends("FAILED", "QUERY_RESULT_LIMIT_EXCEEDED", TRUE, "QUERY_RESULT_LIMIT_EXCEEDED")

Record ==
  /\ query.at = "record"
  /\ query' = [query EXCEPT !.at = IF query.reply = "ok" THEN "ok" ELSE "error",
                            !.recorded = Append(@, query.event)]

\* Mutant: a sink that fails is ignored.
MutRecordFails ==
  /\ query.at = "record"
  /\ query' = [query EXCEPT !.at = IF query.reply = "ok" THEN "ok" ELSE "error"]

\* The sink fails: the call ends with an error, whatever it had to report.
RecordFails ==
  /\ query.at = "record"
  /\ query' = [query EXCEPT !.at = "error", !.reply = "QUERY_AUDIT_FAILED"]
=============================================================================
