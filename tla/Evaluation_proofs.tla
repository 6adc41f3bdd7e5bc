-------------------------- MODULE Evaluation_proofs --------------------------
(***************************************************************************)
(* What holds of an evaluation for every number of attempts and repairs,   *)
(* every set of answers a model may give and every data set: a result is   *)
(* used only once it is audited, a candidate reads only what the model     *)
(* selected, and the model calls an answer reports are the requests sent.  *)
(***************************************************************************)
EXTENDS Evaluation, Folds_proofs, SequenceTheorems

\* What a model answers: a configured provider anything in Responses, a replay what was
\* scripted.
Answers == Responses \cup {ScriptedResponses[k] : k \in 1..(2 * Len(Cases))}

\* The statements a call may be for.
SQL == {NoStatement} \cup {r.sql : r \in Answers} \cup {Cases[i].gold : i \in DOMAIN Cases}

Refusals ==
  {"EMPTY_QUERY", "SQL_PARSE_ERROR", "MULTIPLE_STATEMENTS", "NON_READ_ONLY_STATEMENT",
   "FORBIDDEN_SQL_OPERATION", "FORBIDDEN_FUNCTION", "FUNCTION_NOT_ALLOWED",
   "RECURSIVE_QUERY_NOT_ALLOWED", "CARTESIAN_JOIN_NOT_ALLOWED", "CROSS_SCHEMA_REFERENCE",
   "TABLE_NOT_ALLOWED", "COLUMN_NOT_ALLOWED"}

DatabaseOutcomes == DatabaseErrors \cup {"QUERY_RESULT_LIMIT_EXCEEDED"}

EventReasons ==
  Refusals \cup DatabaseOutcomes
  \cup {"none", "TOTAL_COST_LIMIT_EXCEEDED", "PLAN_ROWS_LIMIT_EXCEEDED", "QUERY_EXECUTED"}

QueryReplies ==
  Refusals \cup DatabaseOutcomes \cup {"none", "ok", "QUERY_APPROVAL_REQUIRED", "QUERY_AUDIT_FAILED"}

ModelErrors == ProviderErrors \cup {"none", "ASSERTIONERROR"}

AnswerCodes ==
  ModelErrors \cup QueryReplies
  \cup {"NL2SQL_QUESTION_REJECTED", "NL2SQL_SCHEMA_SELECTION_FAILED", "NL2SQL_REPAIR_EXHAUSTED"}

LLMCall ==
  [at : {"idle", "request", "ok", "error"}, wants : {"none", "selection", "draft"},
   attempt : 0..MaxAttempts, invalid : 0..InvalidRetries, error : ModelErrors, reply : Answers \cup {NoResponse}]

Event ==
  [status : {"none", "REJECTED", "APPROVAL_REQUIRED", "FAILED", "SUCCEEDED"}, reason : EventReasons,
   planner : BOOLEAN, executor : BOOLEAN]

QueryCall ==
  [at : {"idle", "guard", "estimate", "execute", "fetch", "record", "ok", "error"}, estimator : BOOLEAN, sql : SQL,
   allowed : SUBSET Tables, event : Event, recorded : Seq(Event), reply : QueryReplies, ran : BOOLEAN]

Answer ==
  [at : {"idle", "select", "draft", "execute", "ok", "error"}, selected : SUBSET Tables,
   repairs : 0..MaxRepairs, calls : Nat, code : AnswerCodes, last : SQL]

\* A call of generate that is under way asks for the attempt-th time, and an answer it
\* returns is one the model gave.
Asking(c) ==
  /\ c \in LLMCall
  /\ c.at \in {"request", "ok"} => c.attempt >= 1
  /\ c.at = "ok" => c.reply \in Answers

\* Nothing is recorded before the outcome is known, the outcome and the event agree, a
\* call that succeeds has recorded it, and one that fails has recorded a failure or says
\* that it could not.
Audited(q) ==
  /\ q.at \in {"idle", "guard", "estimate", "execute", "fetch", "record"} => q.recorded = <<>>
  /\ q.at \in {"idle", "guard", "estimate", "execute"} => ~q.ran
  /\ q.at = "record" => (q.reply = "ok" <=> q.event.status = "SUCCEEDED")
  /\ q.at = "record" /\ q.event.status = "SUCCEEDED" => q.event.executor
  /\ q.at = "record" /\ q.ran => q.event.executor
  /\ q.at = "ok" => Len(q.recorded) = 1 /\ q.recorded[1].status = "SUCCEEDED" /\ q.recorded[1].executor
  /\ q.at = "error" => \/ q.recorded = <<>> /\ q.reply = "QUERY_AUDIT_FAILED"
                       \/ /\ Len(q.recorded) = 1 /\ q.recorded[1].status # "SUCCEEDED"
                          /\ q.ran => q.recorded[1].executor

\* The database is reached past the guard and past the estimate.
Passed(q) ==
  /\ q.at \in {"estimate", "execute"} \/ q.ran
       => q.sql.reads \subseteq q.allowed
  /\ q.estimator /\ (q.at = "execute" \/ q.ran)
       => q.sql.cost <= MaxCost /\ q.sql.plan <= MaxPlanRows

Querying(q) == q \in QueryCall /\ Audited(q) /\ Passed(q)

----------------------------------------------------------------------------
(* The safe query service *)

\* The guard refuses a statement with the reason of a check, or lets it pass, and then
\* it reads only tables that are allowed.
LEMMA InspectRefuses ==
  ASSUME NEW s, NEW allowed
  PROVE  /\ Inspect(s, allowed) \in Refusals \cup {"none"}
         /\ Inspect(s, allowed) = "none" => s.reads \subseteq allowed
<1> DEFINE checks == Checks(s, allowed)
<1>1. DOMAIN checks = 1..12
  BY DEF Checks
<1>2. \A i \in 1..12 : checks[i][2] \in Refusals
  BY DEF Checks, Refusals
<1>3. checks[11][1] <=> ~(s.reads \subseteq allowed)
  BY DEF Checks
<1>. HIDE DEF checks
<1>4. CASE \E i \in DOMAIN checks : checks[i][1]
  <2> DEFINE T == {i \in 1..12 : checks[i][1]}
  <2>1. PICK i \in T : \A j \in T : ~(j < i)
    <3>1. T \in SUBSET Nat /\ T # {}
      BY <1>1, <1>4
    <3>. QED BY <3>1, Least
  <2>2. i \in DOMAIN checks /\ checks[i][1] /\ \A j \in 1..(i - 1) : ~checks[j][1]
    BY <1>1, <2>1
  <2>3. First(checks) \in DOMAIN checks
    BY <2>2 DEF First
  <2>4. Inspect(s, allowed) = checks[First(checks)][2]
    BY <1>4 DEF Inspect, checks
  <2>5. "none" \notin Refusals
    BY DEF Refusals
  <2>. QED BY <1>1, <1>2, <2>3, <2>4, <2>5
<1>5. CASE ~\E i \in DOMAIN checks : checks[i][1]
  <2>1. Inspect(s, allowed) = "none"
    BY <1>5 DEF Inspect, checks
  <2>. QED BY <1>1, <1>3, <1>5, <2>1
<1>. QED BY <1>4, <1>5

\* The statements have a cost and a number of rows.
LEMMA Measured ==
  ASSUME NEW s \in SQL
  PROVE  s.cost \in Int /\ s.plan \in Int
<1>1. CASE s = NoStatement
  BY <1>1 DEF NoStatement
<1>2. CASE \E i \in DOMAIN Cases : s = Cases[i].gold
  BY <1>2, EvaluationAssumption
<1>3. CASE \E r \in Responses : s = r.sql
  BY <1>3, EvaluationAssumption
<1>4. CASE \E k \in 1..(2 * Len(Cases)) : s = ScriptedResponses[k].sql
  <2>1. PICK k \in 1..(2 * Len(Cases)) : s = ScriptedResponses[k].sql
    BY <1>4
  <2>2. (k + 1) \div 2 \in DOMAIN Cases
    BY EvaluationAssumption
  <2>3. s = IF k % 2 = 1 THEN NoStatement ELSE Cases[(k + 1) \div 2].gold
    BY <2>1 DEF ScriptedResponses
  <2>. QED BY <2>2, <2>3, EvaluationAssumption DEF NoStatement
<1>. QED BY <1>1, <1>2, <1>3, <1>4 DEF SQL, Answers

\* A call that ends has its outcome in its event.
LEMMA EndsKeeps ==
  ASSUME Querying(query), query.at \in {"guard", "estimate", "execute", "fetch"},
         NEW status \in {"REJECTED", "APPROVAL_REQUIRED", "FAILED", "SUCCEEDED"}, NEW reason \in EventReasons,
         NEW executor \in BOOLEAN, NEW reply \in QueryReplies,
         Ends(status, reason, executor, reply),
         reply = "ok" <=> status = "SUCCEEDED", status = "SUCCEEDED" => executor,
         query.at = "fetch" => executor
  PROVE  /\ Querying(query')
         /\ query'.at = "record"
         /\ query'.estimator = query.estimator /\ query'.sql = query.sql /\ query'.allowed = query.allowed
<1> DEFINE e == [status |-> status, reason |-> reason,
                 planner |-> query.estimator /\ status # "REJECTED", executor |-> executor]
           q == [query EXCEPT !.at = "record", !.reply = reply, !.event = e]
<1>0. query \in QueryCall
  BY DEF Querying
<1>1. query' = q
  BY DEF Ends
<1>2. e \in Event /\ e.status = status /\ e.executor = executor
  BY DEF Event
<1>. HIDE DEF e
<1>3. /\ q \in QueryCall
      /\ q.at = "record" /\ q.reply = reply /\ q.event = e /\ q.recorded = query.recorded /\ q.ran = query.ran
      /\ q.estimator = query.estimator /\ q.sql = query.sql /\ q.allowed = query.allowed
  BY <1>0, <1>2 DEF QueryCall
<1>. HIDE DEF q
<1>4. Audited(q)
  BY <1>2, <1>3 DEF Querying, Audited
<1>5. Passed(q)
  BY <1>2, <1>3 DEF Querying, Passed
<1>. QED BY <1>1, <1>3, <1>4, <1>5 DEF Querying

\* A call that goes on stands elsewhere.
LEMMA MovesKeeps ==
  ASSUME Querying(query), query.at \in {"guard", "estimate"}, NEW at \in {"estimate", "execute"},
         query' = [query EXCEPT !.at = at],
         query.sql.reads \subseteq query.allowed,
         at = "execute" /\ query.estimator => query.sql.cost <= MaxCost /\ query.sql.plan <= MaxPlanRows
  PROVE  /\ Querying(query')
         /\ query'.at = at
         /\ query'.estimator = query.estimator /\ query'.sql = query.sql /\ query'.allowed = query.allowed
<1> DEFINE q == [query EXCEPT !.at = at]
<1>0. query \in QueryCall
  BY DEF Querying
<1>1. /\ q \in QueryCall
      /\ q.at = at /\ q.reply = query.reply /\ q.event = query.event /\ q.recorded = query.recorded /\ q.ran = query.ran
      /\ q.estimator = query.estimator /\ q.sql = query.sql /\ q.allowed = query.allowed
  BY <1>0 DEF QueryCall
<1>2. query' = q
  OBVIOUS
<1>. HIDE DEF q
<1>3. Audited(q)
  BY <1>1 DEF Querying, Audited
<1>4. Passed(q)
  BY <1>1 DEF Querying, Passed
<1>. QED BY <1>1, <1>2, <1>3, <1>4 DEF Querying

\* The statement is sent past the guard and past the estimate.
LEMMA SendKeeps ==
  ASSUME Querying(query), Send
  PROVE  /\ Querying(query')
         /\ query'.at = "fetch"
         /\ query'.estimator = query.estimator /\ query'.sql = query.sql /\ query'.allowed = query.allowed
<1> DEFINE q == [query EXCEPT !.at = "fetch", !.ran = TRUE]
<1>0. query \in QueryCall /\ query.at = "execute"
  BY DEF Querying, Send
<1>1. /\ q \in QueryCall
      /\ q.at = "fetch" /\ q.recorded = query.recorded /\ q.ran
      /\ q.estimator = query.estimator /\ q.sql = query.sql /\ q.allowed = query.allowed
  BY <1>0 DEF QueryCall
<1>2. query' = q
  BY DEF Send
<1>. HIDE DEF q
<1>3. Audited(q)
  BY <1>0, <1>1 DEF Querying, Audited
<1>4. Passed(q)
  BY <1>0, <1>1 DEF Querying, Passed
<1>. QED BY <1>1, <1>2, <1>3, <1>4 DEF Querying

\* Recording the event, or failing to, ends the call.
LEMMA RecordKeeps ==
  ASSUME Querying(query), Record \/ RecordFails
  PROVE  /\ Querying(query')
         /\ query'.at \in {"ok", "error"}
         /\ query'.estimator = query.estimator /\ query'.sql = query.sql /\ query'.allowed = query.allowed
<1>0. query \in QueryCall /\ query.at = "record" /\ query.recorded = <<>>
  BY DEF Querying, Audited, Record, RecordFails
<1>e. query.event \in Event
  BY <1>0 DEF QueryCall
<1>1. CASE Record
  <2> DEFINE at == IF query.reply = "ok" THEN "ok" ELSE "error"
             log == Append(query.recorded, query.event)
             q == [query EXCEPT !.at = at, !.recorded = log]
  <2>1. query' = q
    BY <1>1 DEF Record
  <2>2. log \in Seq(Event) /\ Len(log) = 1 /\ log[1] = query.event
    BY <1>0, <1>e
  <2>3. at \in {"ok", "error"} /\ (at = "ok" <=> query.reply = "ok")
    OBVIOUS
  <2>. HIDE DEF at, log
  <2>4. /\ q \in QueryCall
        /\ q.at = at /\ q.reply = query.reply /\ q.event = query.event /\ q.recorded = log /\ q.ran = query.ran
        /\ q.estimator = query.estimator /\ q.sql = query.sql /\ q.allowed = query.allowed
    BY <1>0, <2>2, <2>3 DEF QueryCall
  <2>. HIDE DEF q
  <2>5. Audited(q)
    BY <1>0, <2>2, <2>3, <2>4 DEF Querying, Audited
  <2>6. Passed(q)
    BY <2>3, <2>4 DEF Querying, Passed
  <2>. QED BY <2>1, <2>3, <2>4, <2>5, <2>6 DEF Querying
<1>2. CASE RecordFails
  <2> DEFINE q == [query EXCEPT !.at = "error", !.reply = "QUERY_AUDIT_FAILED"]
  <2>1. query' = q
    BY <1>2 DEF RecordFails
  <2>2. /\ q \in QueryCall
        /\ q.at = "error" /\ q.recorded = query.recorded /\ q.reply = "QUERY_AUDIT_FAILED" /\ q.ran = query.ran
        /\ q.estimator = query.estimator /\ q.sql = query.sql /\ q.allowed = query.allowed
    BY <1>0 DEF QueryCall, QueryReplies
  <2>. HIDE DEF q
  <2>3. Audited(q)
    BY <1>0, <2>2 DEF Audited
  <2>4. Passed(q)
    BY <2>2 DEF Querying, Passed
  <2>. QED BY <2>1, <2>2, <2>3, <2>4 DEF Querying
<1>. QED BY <1>1, <1>2

\* A step of the safe query service keeps its invariant, its statement and its policy,
\* and is one of a call that is under way.
LEMMA QueryKeeps ==
  ASSUME Querying(query),
         Guard \/ Estimate \/ Send \/ Execute \/ Record \/ EstimateFails \/ ExecuteFails \/ RecordFails
  PROVE  /\ Querying(query')
         /\ query.at \in {"guard", "estimate", "execute", "fetch", "record"} /\ query'.at \notin {"idle", "guard"}
         /\ query'.estimator = query.estimator /\ query'.sql = query.sql /\ query'.allowed = query.allowed
<1>0. query \in QueryCall
  BY DEF Querying
<1>1. CASE Guard
  <2> DEFINE reason == Inspect(query.sql, query.allowed)
  <2>1. query.at = "guard"
    BY <1>1 DEF Guard
  <2>2. reason \in Refusals \cup {"none"} /\ (reason = "none" => query.sql.reads \subseteq query.allowed)
    BY InspectRefuses
  <2>3. CASE reason # "none"
    <3>1. Ends("REJECTED", reason, FALSE, reason)
      BY <1>1, <2>3 DEF Guard
    <3>2. reason \in EventReasons /\ reason \in QueryReplies /\ reason # "ok"
      BY <2>2, <2>3 DEF Refusals, EventReasons, QueryReplies
    <3>. HIDE DEF reason
    <3>. QED BY <2>1, <3>1, <3>2, EndsKeeps
  <2>4. CASE reason = "none"
    <3> DEFINE at == IF query.estimator THEN "estimate" ELSE "execute"
    <3>1. query' = [query EXCEPT !.at = at]
      BY <1>1, <2>4 DEF Guard
    <3>2. at \in {"estimate", "execute"} /\ (at = "execute" => ~query.estimator)
      BY <1>0 DEF QueryCall
    <3>. HIDE DEF at
    <3>. QED BY <2>1, <2>2, <2>4, <3>1, <3>2, MovesKeeps
  <2>. QED BY <2>3, <2>4
<1>2. CASE Estimate
  <2> DEFINE reason == ApprovalReason(query.sql)
  <2>1. query.at = "estimate"
    BY <1>2 DEF Estimate
  <2>2. query.sql.cost \in Int /\ query.sql.plan \in Int
    BY <1>0, Measured DEF QueryCall
  <2>3. CASE reason # "none"
    <3>1. Ends("APPROVAL_REQUIRED", reason, FALSE, "QUERY_APPROVAL_REQUIRED")
      BY <1>2, <2>3 DEF Estimate
    <3>2. reason \in EventReasons
      BY <2>2, QueryAssumption DEF ApprovalReason, EventReasons
    <3>3. "QUERY_APPROVAL_REQUIRED" \in QueryReplies
      BY DEF QueryReplies
    <3>. HIDE DEF reason
    <3>. QED BY <2>1, <3>1, <3>2, <3>3, EndsKeeps
  <2>4. CASE reason = "none"
    <3>1. query' = [query EXCEPT !.at = "execute"]
      BY <1>2, <2>4 DEF Estimate
    <3>2. query.sql.cost <= MaxCost /\ query.sql.plan <= MaxPlanRows
      BY <2>2, <2>4, QueryAssumption DEF ApprovalReason
    <3>3. query.sql.reads \subseteq query.allowed
      BY <2>1 DEF Querying, Passed
    <3>. QED BY <2>1, <3>1, <3>2, <3>3, MovesKeeps
  <2>. QED BY <2>3, <2>4
<1>3. CASE Execute
  <2>1. query.at = "fetch" /\ Ends("SUCCEEDED", "QUERY_EXECUTED", TRUE, "ok")
    BY <1>3 DEF Execute
  <2>2. "QUERY_EXECUTED" \in EventReasons /\ "ok" \in QueryReplies
    BY DEF EventReasons, QueryReplies
  <2>. QED BY <2>1, <2>2, EndsKeeps
<1>4. CASE EstimateFails
  <2>1. PICK error \in DatabaseErrors : query.at = "estimate" /\ Ends("FAILED", error, FALSE, error)
    BY <1>4 DEF EstimateFails
  <2>2. error \in EventReasons /\ error \in QueryReplies /\ error # "ok"
    BY DEF DatabaseErrors, DatabaseOutcomes, EventReasons, QueryReplies
  <2>. QED BY <2>1, <2>2, EndsKeeps
<1>5. CASE ExecuteFails
  <2>1. PICK error \in DatabaseErrors \cup {"QUERY_RESULT_LIMIT_EXCEEDED"} :
          query.at \in {"execute", "fetch"} /\ Ends("FAILED", error, TRUE, error)
    BY <1>5 DEF ExecuteFails
  <2>2. error \in EventReasons /\ error \in QueryReplies /\ error # "ok"
    BY DEF DatabaseErrors, DatabaseOutcomes, EventReasons, QueryReplies
  <2>. QED BY <2>1, <2>2, EndsKeeps
<1>6. CASE Record \/ RecordFails
  <2>1. query.at = "record"
    BY <1>6 DEF Record, RecordFails
  <2>. QED BY <1>6, <2>1, RecordKeeps
<1>7. CASE Send
  BY <1>7, SendKeeps DEF Send
<1>. QED BY <1>1, <1>2, <1>3, <1>4, <1>5, <1>6, <1>7

----------------------------------------------------------------------------
(* The structured model client *)

\* Requests a call of generate has sent.
Spent(c) == IF c.at = "request" THEN c.attempt - 1 ELSE c.attempt

\* A call c asks again or ends.
GoesOn(c, d) ==
  \/ c.attempt < MaxAttempts /\ d = [c EXCEPT !.attempt = c.attempt + 1]
  \/ /\ c.attempt < MaxAttempts /\ c.invalid < InvalidRetries
     /\ d = [c EXCEPT !.invalid = c.invalid + 1, !.attempt = c.attempt + 1]
  \/ \E e \in ModelErrors : d = [c EXCEPT !.at = "error", !.error = e]
  \/ \E r \in Answers : d = [c EXCEPT !.at = "ok", !.reply = r]

\* It has then sent one more request.
LEMMA CallKeeps ==
  ASSUME NEW c, NEW d, Asking(c), c.at = "request", GoesOn(c, d)
  PROVE  Asking(d) /\ d.at # "idle" /\ Spent(d) = Spent(c) + 1
<1>0. c \in LLMCall /\ c.attempt >= 1
  BY DEF Asking
<1>a. MaxAttempts \in Nat /\ InvalidRetries \in Nat
  BY LLMAssumption
<1>b. c.attempt \in 0..MaxAttempts /\ c.invalid \in 0..InvalidRetries
  BY <1>0 DEF LLMCall
<1>1. /\ c.attempt \in Nat /\ c.attempt <= MaxAttempts
      /\ c.invalid \in Nat /\ c.invalid <= InvalidRetries
      /\ MaxAttempts \in Nat /\ InvalidRetries \in Nat
  BY <1>a, <1>b
<1>2. CASE c.attempt < MaxAttempts /\ d = [c EXCEPT !.attempt = c.attempt + 1]
  <2>1. c.attempt + 1 \in 0..MaxAttempts
    BY <1>1, <1>2
  <2>2. d \in LLMCall /\ d.at = "request" /\ d.attempt = c.attempt + 1
    BY <1>0, <1>2, <2>1 DEF LLMCall
  <2>. QED BY <1>1, <2>2 DEF Asking, Spent
<1>3. CASE /\ c.attempt < MaxAttempts /\ c.invalid < InvalidRetries
           /\ d = [c EXCEPT !.invalid = c.invalid + 1, !.attempt = c.attempt + 1]
  <2>1. c.attempt + 1 \in 0..MaxAttempts /\ c.invalid + 1 \in 0..InvalidRetries
    BY <1>1, <1>3
  <2>2. d \in LLMCall /\ d.at = "request" /\ d.attempt = c.attempt + 1
    BY <1>0, <1>3, <2>1 DEF LLMCall
  <2>. QED BY <1>1, <2>2 DEF Asking, Spent
<1>4. ASSUME NEW e \in ModelErrors, d = [c EXCEPT !.at = "error", !.error = e]
      PROVE  Asking(d) /\ d.at # "idle" /\ Spent(d) = Spent(c) + 1
  <2>1. d \in LLMCall /\ d.at = "error" /\ d.attempt = c.attempt
    BY <1>0, <1>4 DEF LLMCall
  <2>. QED BY <1>1, <2>1 DEF Asking, Spent
<1>5. ASSUME NEW r \in Answers, d = [c EXCEPT !.at = "ok", !.reply = r]
      PROVE  Asking(d) /\ d.at # "idle" /\ Spent(d) = Spent(c) + 1
  <2>1. d \in LLMCall /\ d.at = "ok" /\ d.attempt = c.attempt /\ d.reply = r
    BY <1>0, <1>5 DEF LLMCall
  <2>. QED BY <1>0, <1>1, <2>1 DEF Asking, Spent
<1>. QED BY <1>2, <1>3, <1>4, <1>5 DEF GoesOn

\* An answer is accepted, refused and asked for again, or refused for good.
LEMMA ValidateKeeps ==
  ASSUME Asking(llm), llm.at = "request", NEW response \in Answers, Validate(response)
  PROVE  Asking(llm') /\ llm'.at # "idle" /\ Spent(llm') = Spent(llm) + 1
<1>1. CASE Fits(response)
  <2>1. llm' = [llm EXCEPT !.at = "ok", !.reply = response]
    BY <1>1 DEF Validate
  <2>2. GoesOn(llm, llm')
    BY <2>1 DEF GoesOn
  <2>. QED BY <2>2, CallKeeps
<1>2. CASE ~Fits(response) /\ llm.invalid < InvalidRetries /\ llm.attempt < MaxAttempts
  <2>1. llm' = [llm EXCEPT !.invalid = @ + 1, !.attempt = @ + 1]
    BY <1>2 DEF Validate
  <2>2. GoesOn(llm, llm')
    BY <1>2, <2>1 DEF GoesOn
  <2>. QED BY <2>2, CallKeeps
<1>3. CASE ~Fits(response) /\ ~(llm.invalid < InvalidRetries /\ llm.attempt < MaxAttempts)
  <2>1. llm' = [llm EXCEPT !.at = "error", !.error = "LLM_INVALID_RESPONSE"]
    BY <1>3 DEF Validate
  <2>2. "LLM_INVALID_RESPONSE" \in ModelErrors
    BY DEF ModelErrors, ProviderErrors, LLMErrors
  <2>3. GoesOn(llm, llm')
    BY <2>1, <2>2 DEF GoesOn
  <2>. QED BY <2>3, CallKeeps
<1>. QED BY <1>1, <1>2, <1>3

\* Every request of the model client is counted once, whoever answers it.
LEMMA GenerateKeeps ==
  ASSUME Asking(llm), script \in Seq(Answers), Generate
  PROVE  /\ Asking(llm') /\ script' \in Seq(Answers)
         /\ llm.at = "request" /\ llm'.at # "idle"
         /\ sent' = sent + 1 /\ Spent(llm') = Spent(llm) + 1
<1>1. CASE Complete
  <2>1. llm.at = "request" /\ sent' = sent + 1 /\ script' = script
    BY <1>1 DEF Complete
  <2>2. ASSUME NEW error \in ProviderErrors, Retry(error)
        PROVE  Asking(llm') /\ llm'.at # "idle" /\ Spent(llm') = Spent(llm) + 1
    <3>1. CASE error \in Retryable /\ llm.attempt < MaxAttempts
      <4>1. llm' = [llm EXCEPT !.attempt = @ + 1]
        BY <2>2, <3>1 DEF Retry
      <4>2. GoesOn(llm, llm')
        BY <3>1, <4>1 DEF GoesOn
      <4>. QED BY <2>1, <4>2, CallKeeps
    <3>2. CASE ~(error \in Retryable /\ llm.attempt < MaxAttempts)
      <4>1. llm' = [llm EXCEPT !.at = "error", !.error = error]
        BY <2>2, <3>2 DEF Retry
      <4>2. error \in ModelErrors
        BY DEF ModelErrors
      <4>3. GoesOn(llm, llm')
        BY <4>1, <4>2 DEF GoesOn
      <4>. QED BY <2>1, <4>3, CallKeeps
    <3>. QED BY <3>1, <3>2
  <2>3. ASSUME NEW response \in Responses, Validate(response)
        PROVE  Asking(llm') /\ llm'.at # "idle" /\ Spent(llm') = Spent(llm) + 1
    <3>1. response \in Answers
      BY DEF Answers
    <3>. QED BY <2>1, <2>3, <3>1, ValidateKeeps
  <2>4. Asking(llm') /\ llm'.at # "idle" /\ Spent(llm') = Spent(llm) + 1
    BY <1>1, <2>2, <2>3 DEF Complete
  <2>. QED BY <2>1, <2>4
<1>2. CASE Replay
  <2>1. llm.at = "request" /\ sent' = sent + 1
    BY <1>2 DEF Replay
  <2>2. CASE script = <<>>
    <3>1. llm' = [llm EXCEPT !.at = "error", !.error = "ASSERTIONERROR"] /\ script' = script
      BY <1>2, <2>2 DEF Replay
    <3>2. "ASSERTIONERROR" \in ModelErrors
      BY DEF ModelErrors
    <3>3. GoesOn(llm, llm')
      BY <3>1, <3>2 DEF GoesOn
    <3>4. Asking(llm') /\ llm'.at # "idle" /\ Spent(llm') = Spent(llm) + 1
      BY <2>1, <3>3, CallKeeps
    <3>. QED BY <2>1, <3>1, <3>4
  <2>3. CASE script # <<>>
    <3>1. Validate(Head(script)) /\ script' = Tail(script)
      BY <1>2, <2>3 DEF Replay
    <3>2. Head(script) \in Answers /\ Tail(script) \in Seq(Answers)
      BY <2>3
    <3>3. Asking(llm') /\ llm'.at # "idle" /\ Spent(llm') = Spent(llm) + 1
      BY <2>1, <3>1, <3>2, ValidateKeeps
    <3>. QED BY <2>1, <3>1, <3>2, <3>3
  <2>. QED BY <2>2, <2>3
<1>. QED BY <1>1, <1>2 DEF Generate

----------------------------------------------------------------------------
(* The evaluation *)

Evaluating ==
  [at : {"next", "gold", "answer", "done"}, case : 1..(Len(Cases) + 1),
   expected : {"none"} \cup {Cases[i].gold.result : i \in DOMAIN Cases}]

\* Which of the services is in use: a gold statement has no model call, a model call no
\* statement, and a candidate may read what the model selected.
Flow ==
  /\ llm.at = "idle" <=> nl.at \notin {"select", "draft"}
  /\ nl.at = "idle" <=> ev.at # "answer"
  /\ ev.at \in {"gold", "answer"} => ev.case <= Len(Cases)
  /\ ev.at \in {"next", "done"} => query.at = "idle"
  /\ ev.at = "gold" => ~query.estimator
  /\ nl.at \in {"select", "draft", "error"} => query.at = "idle"
  /\ nl.at \in {"execute", "ok"} => query.estimator /\ query.allowed \subseteq nl.selected
  /\ nl.at = "ok" => query.at = "ok"

\* The requests sent are those the answer has counted and those of the call under way.
Counted ==
  /\ nl.at = "select" => nl.calls = 0 /\ nl.repairs = 0 /\ sent = Spent(llm)
  /\ nl.at = "draft" => sent = nl.calls + Spent(llm)
  /\ nl.at \in {"execute", "ok"} => sent = nl.calls

\* Every selection, draft and repair has MaxAttempts requests.
Bounded ==
  /\ sent <= MaxAttempts * (MaxRepairs + 2)
  /\ nl.at = "draft" => nl.calls <= MaxAttempts * (nl.repairs + 1)
  /\ nl.at = "execute" => nl.calls <= MaxAttempts * (nl.repairs + 2)

EvalInv ==
  /\ Asking(llm) /\ script \in Seq(Answers) /\ sent \in Nat
  /\ Querying(query)
  /\ nl \in Answer /\ ev \in Evaluating
  /\ Flow /\ Counted /\ Bounded

\* One more call of generate: its requests fit the budget.
LEMMA Budget ==
  ASSUME NEW r \in 0..MaxRepairs, NEW a \in 0..MaxAttempts
  PROVE  /\ MaxAttempts * (r + 1) + a <= MaxAttempts * (r + 2)
         /\ MaxAttempts * (r + 2) <= MaxAttempts * (MaxRepairs + 2)
         /\ MaxAttempts * (r + 1) \in Nat /\ MaxAttempts * (r + 2) \in Nat
         /\ MaxAttempts * (MaxRepairs + 2) \in Nat
         /\ a <= MaxAttempts * 1
<1>0. MaxAttempts \in Nat /\ MaxRepairs \in Nat /\ r \in Nat /\ a \in Nat /\ a <= MaxAttempts /\ r <= MaxRepairs
  BY LLMAssumption, NL2SQLAssumption
<1>1. MaxAttempts * (r + 2) = MaxAttempts * (r + 1) + MaxAttempts
  BY <1>0
<1>2. PICK d \in Nat : MaxRepairs = r + d
  <2>1. MaxRepairs - r \in Nat /\ MaxRepairs = r + (MaxRepairs - r)
    BY <1>0
  <2>. QED BY <2>1
<1>3. MaxAttempts * (MaxRepairs + 2) = MaxAttempts * (r + 2) + MaxAttempts * d
  BY <1>0, <1>2
<1>4. MaxAttempts * d \in Nat /\ MaxAttempts * (r + 1) \in Nat /\ MaxAttempts * (r + 2) \in Nat
  BY <1>0
<1>. QED BY <1>0, <1>1, <1>3, <1>4

\* The statement of an answer is one of the statements.
LEMMA AnswerSQL ==
  ASSUME NEW r \in Answers
  PROVE  r.sql \in SQL
BY DEF SQL

\* The calls that are not under way.
LEMMA IdleCalls ==
  /\ Asking(NoCall) /\ NoCall.at = "idle" /\ Spent(NoCall) = 0
  /\ \A kind \in {"selection", "draft"} :
       Asking(Request(kind)) /\ Request(kind).at = "request" /\ Spent(Request(kind)) = 0
  /\ Querying(NoQuery) /\ NoQuery.at = "idle" /\ NoQuery.estimator = FALSE
  /\ NoAnswer \in Answer /\ NoAnswer.at = "idle" /\ NoAnswer.calls = 0 /\ NoAnswer.repairs = 0
<1>0. MaxAttempts \in Nat /\ 1 <= MaxAttempts /\ InvalidRetries \in Nat /\ MaxRepairs \in Nat
  BY LLMAssumption, NL2SQLAssumption
<1>a. "none" \in ModelErrors /\ "none" \in QueryReplies /\ "none" \in EventReasons /\ "none" \in AnswerCodes
  BY DEF ModelErrors, QueryReplies, EventReasons, AnswerCodes
<1>1. NoCall \in LLMCall /\ NoCall.at = "idle" /\ NoCall.attempt = 0
  BY <1>0, <1>a DEF NoCall, LLMCall
<1>2. ASSUME NEW kind \in {"selection", "draft"}
      PROVE  Request(kind) \in LLMCall /\ Request(kind).at = "request" /\ Request(kind).attempt = 1
  <2>1. 1 \in 0..MaxAttempts /\ kind \in {"none", "selection", "draft"}
    BY <1>0
  <2>. HIDE DEF NoCall
  <2>. QED BY <1>1, <2>1 DEF Request, LLMCall
<1>3. NoEvent \in Event /\ NoStatement \in SQL
  BY <1>a DEF NoEvent, Event, SQL
<1>4. /\ NoQuery \in QueryCall /\ NoQuery.at = "idle" /\ NoQuery.estimator = FALSE /\ NoQuery.recorded = <<>>
      /\ NoQuery.ran = FALSE
  BY <1>a, <1>3 DEF NoQuery, QueryCall
<1>5. Querying(NoQuery)
  BY <1>4 DEF Querying, Audited, Passed
<1>6. NoAnswer \in Answer /\ NoAnswer.at = "idle" /\ NoAnswer.calls = 0 /\ NoAnswer.repairs = 0
  BY <1>0, <1>a, <1>3 DEF NoAnswer, Answer
<1>. QED BY <1>1, <1>2, <1>4, <1>5, <1>6 DEF Asking, Spent

\* A call of execute_fixed that begins.
LEMMA SubmitBegins ==
  ASSUME NEW e \in BOOLEAN, NEW s \in SQL, NEW a \in SUBSET Tables
  PROVE  /\ Querying(Submit(e, s, a))
         /\ Submit(e, s, a).at = "guard" /\ Submit(e, s, a).estimator = e /\ Submit(e, s, a).allowed = a
<1> DEFINE q == Submit(e, s, a)
<1>1. NoQuery \in QueryCall /\ NoQuery.recorded = <<>> /\ NoQuery.ran = FALSE
  BY IdleCalls DEF Querying, Audited, QueryCall
<1>2. /\ q \in QueryCall /\ q.at = "guard" /\ q.estimator = e /\ q.allowed = a
      /\ q.recorded = <<>> /\ q.ran = FALSE
  BY <1>1 DEF Submit, QueryCall
<1>. HIDE DEF q
<1>. QED BY <1>2 DEF q, Querying, Audited, Passed

\* The invariant holds initially.
LEMMA EvalInit == Init => EvalInv
<1> SUFFICES ASSUME Init PROVE EvalInv
  OBVIOUS
<1>1. llm = NoCall /\ sent = 0 /\ query = NoQuery /\ nl = NoAnswer
      /\ ev = [at |-> "next", case |-> 1, expected |-> "none"]
  BY DEF Init, LLMInit, QueryInit, NLInit
<1>2. script \in Seq(Answers)
  <2>1. 2 * Len(Cases) \in Nat
    BY EvaluationAssumption
  <2>2. ScriptedResponses \in [1..(2 * Len(Cases)) -> Answers]
    BY DEF ScriptedResponses, Answers
  <2>3. ScriptedResponses \in Seq(Answers)
    BY <2>1, <2>2
  <2>. QED BY <2>3 DEF Init, LLMInit
<1>3. ev \in Evaluating /\ ev.at = "next"
  BY <1>1, EvaluationAssumption DEF Evaluating
<1>4. 0 <= MaxAttempts * (MaxRepairs + 2)
  BY Budget, LLMAssumption, NL2SQLAssumption
<1>. QED BY <1>1, <1>2, <1>3, <1>4, IdleCalls DEF EvalInv, Flow, Counted, Bounded

\* A step of the model client.
LEMMA ModelStepKeeps == EvalInv /\ ModelStep => EvalInv'
<1> SUFFICES ASSUME EvalInv, ModelStep PROVE EvalInv'
  OBVIOUS
<1>0. UNCHANGED <<query, nl, ev>>
  BY DEF ModelStep, evVars
<1>1. /\ Asking(llm') /\ script' \in Seq(Answers)
      /\ llm.at = "request" /\ llm'.at # "idle"
      /\ sent' = sent + 1 /\ Spent(llm') = Spent(llm) + 1
  BY GenerateKeeps DEF ModelStep, EvalInv
<1>2. nl.at \in {"select", "draft"}
  BY <1>1 DEF EvalInv, Flow
<1>3. llm.attempt \in 0..MaxAttempts /\ llm'.attempt \in 0..MaxAttempts
  BY <1>1 DEF EvalInv, Asking, LLMCall
<1>a. MaxAttempts \in Nat
  BY LLMAssumption
<1>4. Spent(llm) \in Int /\ Spent(llm') \in Int /\ Spent(llm') <= MaxAttempts
  BY <1>3, <1>a DEF Spent
<1>5. sent \in Nat /\ nl.calls \in Nat /\ nl.repairs \in 0..MaxRepairs
  BY DEF EvalInv, Answer
<1>6. Counted'
  BY <1>0, <1>1, <1>2, <1>4, <1>5 DEF EvalInv, Counted
<1>7. sent' \in Nat /\ sent' <= MaxAttempts * (MaxRepairs + 2)
  <2>1. CASE nl.at = "select"
    <3>1. sent' = Spent(llm')
      BY <1>0, <1>6, <2>1 DEF Counted
    <3>2. Spent(llm') \in 0..MaxAttempts
      BY <1>1, <1>4, <1>5, <3>1
    <3>3. Spent(llm') <= MaxAttempts * (0 + 1) + Spent(llm')
      BY <1>a, <3>2
    <3>4. 0 \in 0..MaxRepairs
      BY NL2SQLAssumption
    <3>. QED BY <1>1, <1>5, <1>a, <3>1, <3>2, <3>3, <3>4, Budget, NL2SQLAssumption
  <2>2. CASE nl.at = "draft"
    <3>1. sent' = nl.calls + Spent(llm')
      BY <1>0, <1>6, <2>2 DEF Counted
    <3>2. nl.calls <= MaxAttempts * (nl.repairs + 1)
      BY <2>2 DEF EvalInv, Bounded
    <3>3. Spent(llm) >= 0
      <4>1. llm.attempt >= 1
        BY <1>1 DEF EvalInv, Asking
      <4>. QED BY <1>3, <1>a, <4>1 DEF Spent
    <3>4. Spent(llm') \in 0..MaxAttempts
      BY <1>1, <1>4, <3>3, <1>a
    <3>5. /\ MaxAttempts * (nl.repairs + 1) + Spent(llm') <= MaxAttempts * (nl.repairs + 2)
          /\ MaxAttempts * (nl.repairs + 2) <= MaxAttempts * (MaxRepairs + 2)
          /\ MaxAttempts * (nl.repairs + 1) \in Nat /\ MaxAttempts * (nl.repairs + 2) \in Nat
          /\ MaxAttempts * (MaxRepairs + 2) \in Nat
      BY <1>5, <3>4, Budget
    <3>. QED BY <1>1, <1>4, <1>5, <3>1, <3>2, <3>5
  <2>. QED BY <1>2, <2>1, <2>2
<1>8. Bounded'
  BY <1>0, <1>7 DEF EvalInv, Bounded
<1>9. Flow'
  BY <1>0, <1>1, <1>2 DEF EvalInv, Flow
<1>. QED BY <1>0, <1>1, <1>6, <1>7, <1>8, <1>9 DEF EvalInv

\* A step of the safe query service.
LEMMA QueryStepKeeps == EvalInv /\ (QueryStep \/ Fault) => EvalInv'
<1> SUFFICES ASSUME EvalInv, QueryStep \/ Fault PROVE EvalInv'
  OBVIOUS
<1>0. UNCHANGED <<llm, sent, script, nl, ev>>
  BY DEF QueryStep, Fault, evVars, llmVars
<1>1. /\ Querying(query')
      /\ query.at \in {"guard", "estimate", "execute", "fetch", "record"} /\ query'.at \notin {"idle", "guard"}
      /\ query'.estimator = query.estimator /\ query'.sql = query.sql /\ query'.allowed = query.allowed
  BY QueryKeeps DEF QueryStep, Fault, EvalInv
<1>2. Flow'
  BY <1>0, <1>1 DEF EvalInv, Flow
<1>3. Counted' /\ Bounded'
  BY <1>0 DEF EvalInv, Counted, Bounded
<1>. QED BY <1>0, <1>1, <1>2, <1>3 DEF EvalInv

\* The model has selected tables.
LEMMA SelectKeeps == EvalInv /\ Select /\ UNCHANGED evVars => EvalInv'
<1> SUFFICES ASSUME EvalInv, Select, UNCHANGED evVars PROVE EvalInv'
  OBVIOUS
<1>0. nl.at = "select" /\ llm.at = "ok" /\ UNCHANGED <<sent, script, query, ev>>
  BY DEF Select, evVars
<1>1. /\ ev.at = "answer" /\ query.at = "idle" /\ nl \in Answer /\ sent = llm.attempt
      /\ nl.calls = 0 /\ nl.repairs = 0 /\ llm.attempt \in 0..MaxAttempts
  BY <1>0 DEF EvalInv, Flow, Counted, Asking, LLMCall, Spent
<1>2. CASE ValidSelection(llm.reply.tables)
  <2> DEFINE names == Names(llm.reply.tables)
             a == [nl EXCEPT !.at = "draft", !.selected = names, !.calls = llm.attempt]
  <2>1. nl' = a /\ llm' = Request("draft")
    BY <1>2 DEF Select
  <2>2. names \in SUBSET Tables
    BY <1>2 DEF ValidSelection
  <2>3. llm.attempt \in Nat /\ llm.attempt <= MaxAttempts
    BY <1>1, LLMAssumption
  <2>. HIDE DEF names
  <2>4. a \in Answer /\ a.at = "draft" /\ a.calls = llm.attempt /\ a.repairs = 0
    BY <1>1, <2>2, <2>3 DEF Answer
  <2>. HIDE DEF a
  <2>5. MaxAttempts * (0 + 1) = MaxAttempts
    BY LLMAssumption
  <2>6. Flow'
    BY <1>0, <1>1, <2>1, <2>4, IdleCalls DEF EvalInv, Flow
  <2>7. Counted'
    BY <1>0, <1>1, <2>1, <2>3, <2>4, IdleCalls DEF Counted
  <2>8. Bounded'
    BY <1>0, <2>1, <2>3, <2>4, <2>5 DEF EvalInv, Bounded
  <2>. QED BY <1>0, <2>1, <2>4, <2>6, <2>7, <2>8, IdleCalls DEF EvalInv
<1>3. CASE ~ValidSelection(llm.reply.tables)
  <2> DEFINE a == [nl EXCEPT !.at = "error", !.code = "NL2SQL_SCHEMA_SELECTION_FAILED"]
  <2>1. nl' = a /\ llm' = NoCall
    BY <1>3 DEF Select, Raise
  <2>2. a \in Answer /\ a.at = "error"
    BY <1>1 DEF Answer, AnswerCodes
  <2>. HIDE DEF a
  <2>3. Flow' /\ Counted' /\ Bounded'
    BY <1>0, <1>1, <2>1, <2>2, IdleCalls DEF EvalInv, Flow, Counted, Bounded
  <2>. QED BY <1>0, <2>1, <2>2, <2>3, IdleCalls DEF EvalInv
<1>. QED BY <1>2, <1>3

\* The model has drafted a statement, which is submitted.
LEMMA DraftKeeps == EvalInv /\ Draft /\ UNCHANGED evVars => EvalInv'
<1> SUFFICES ASSUME EvalInv, Draft, UNCHANGED evVars PROVE EvalInv'
  OBVIOUS
<1>0. nl.at = "draft" /\ llm.at = "ok" /\ llm' = NoCall /\ UNCHANGED <<sent, script, ev>>
  BY DEF Draft, evVars
<1>1. /\ ev.at = "answer" /\ query.at = "idle" /\ nl \in Answer /\ sent = nl.calls + llm.attempt
      /\ llm.attempt \in 0..MaxAttempts /\ llm.reply \in Answers
      /\ nl.calls <= MaxAttempts * (nl.repairs + 1)
  BY <1>0 DEF EvalInv, Flow, Counted, Asking, LLMCall, Spent, Bounded
<1>2. CASE ValidDraft(llm.reply.tables)
  <2> DEFINE sql == llm.reply.sql
             calls == nl.calls + llm.attempt
             a == [nl EXCEPT !.at = "execute", !.calls = calls, !.last = sql]
             q == Submit(TRUE, sql, Tables \cap nl.selected)
  <2>1. nl' = a /\ query' = q
    BY <1>2 DEF Draft, CallsAfter, RestrictToTables
  <2>2. sql \in SQL
    BY <1>1, AnswerSQL
  <2>3. nl.calls \in Nat /\ nl.repairs \in 0..MaxRepairs /\ llm.attempt \in Nat
    <3>1. MaxAttempts \in Nat
      BY LLMAssumption
    <3>. QED BY <1>1, <3>1 DEF Answer
  <2>4. calls \in Nat /\ sent = calls
    BY <1>1, <2>3
  <2>5. calls <= MaxAttempts * (nl.repairs + 2)
    <3>1. /\ MaxAttempts * (nl.repairs + 1) + llm.attempt <= MaxAttempts * (nl.repairs + 2)
          /\ MaxAttempts * (nl.repairs + 1) \in Nat /\ MaxAttempts * (nl.repairs + 2) \in Nat
      BY <1>1, <2>3, Budget
    <3>. QED BY <1>1, <2>3, <3>1
  <2>6. Querying(q) /\ q.at = "guard" /\ q.estimator = TRUE /\ q.allowed = Tables \cap nl.selected
    <3>1. Tables \cap nl.selected \in SUBSET Tables /\ TRUE \in BOOLEAN
      OBVIOUS
    <3>. HIDE DEF sql
    <3>. QED BY <2>2, <3>1, SubmitBegins
  <2>. HIDE DEF sql, calls, q
  <2>7. a \in Answer /\ a.at = "execute" /\ a.calls = calls /\ a.repairs = nl.repairs /\ a.selected = nl.selected
    BY <1>1, <2>2, <2>4 DEF Answer
  <2>. HIDE DEF a
  <2>8. Flow'
    BY <1>0, <1>1, <2>1, <2>6, <2>7, IdleCalls DEF EvalInv, Flow
  <2>9. Counted'
    BY <1>0, <2>1, <2>4, <2>7 DEF Counted
  <2>10. Bounded'
    BY <1>0, <2>1, <2>5, <2>7 DEF EvalInv, Bounded
  <2>. QED BY <1>0, <2>1, <2>6, <2>7, <2>8, <2>9, <2>10, IdleCalls DEF EvalInv
<1>3. CASE ~ValidDraft(llm.reply.tables)
  <2> DEFINE a == [nl EXCEPT !.at = "error", !.code = "NL2SQL_SCHEMA_SELECTION_FAILED"]
  <2>1. nl' = a /\ query' = query
    BY <1>3 DEF Draft, Raise
  <2>2. a \in Answer /\ a.at = "error"
    BY <1>1 DEF Answer, AnswerCodes
  <2>. HIDE DEF a
  <2>3. Flow' /\ Counted' /\ Bounded'
    BY <1>0, <1>1, <2>1, <2>2, IdleCalls DEF EvalInv, Flow, Counted, Bounded
  <2>. QED BY <1>0, <2>1, <2>2, <2>3, IdleCalls DEF EvalInv
<1>. QED BY <1>2, <1>3

\* The model client has failed.
LEMMA ModelFailsKeeps == EvalInv /\ ModelFails /\ UNCHANGED evVars => EvalInv'
<1> SUFFICES ASSUME EvalInv, ModelFails, UNCHANGED evVars PROVE EvalInv'
  OBVIOUS
<1> DEFINE a == [nl EXCEPT !.at = "error", !.code = llm.error]
<1>0. nl.at \in {"select", "draft"} /\ nl' = a /\ llm' = NoCall /\ UNCHANGED <<sent, script, query, ev>>
  BY DEF ModelFails, Raise, evVars
<1>1. ev.at = "answer" /\ query.at = "idle" /\ nl \in Answer /\ llm.error \in AnswerCodes
  BY <1>0 DEF EvalInv, Flow, Asking, LLMCall, AnswerCodes
<1>2. a \in Answer /\ a.at = "error"
  BY <1>1 DEF Answer
<1>. HIDE DEF a
<1>3. Flow' /\ Counted' /\ Bounded'
  BY <1>0, <1>1, <1>2, IdleCalls DEF EvalInv, Flow, Counted, Bounded
<1>. QED BY <1>0, <1>2, <1>3, IdleCalls DEF EvalInv

\* A candidate was refused or has failed: the model repairs it, or the answer ends.
LEMMA RepairKeeps == EvalInv /\ Repair /\ UNCHANGED evVars => EvalInv'
<1> SUFFICES ASSUME EvalInv, Repair, UNCHANGED evVars PROVE EvalInv'
  OBVIOUS
<1>0. nl.at = "execute" /\ query' = NoQuery /\ UNCHANGED <<sent, script, ev>>
  BY DEF Repair, evVars
<1>1. /\ ev.at = "answer" /\ nl \in Answer /\ sent = nl.calls /\ llm.at = "idle"
      /\ nl.calls <= MaxAttempts * (nl.repairs + 2) /\ query.reply \in AnswerCodes
  BY <1>0 DEF EvalInv, Flow, Counted, Bounded, Querying, QueryCall, AnswerCodes
<1>2. ASSUME NEW code \in AnswerCodes, Raise(code), llm' = llm
      PROVE  EvalInv'
  <2> DEFINE a == [nl EXCEPT !.at = "error", !.code = code]
  <2>1. nl' = a
    BY <1>2 DEF Raise
  <2>2. a \in Answer /\ a.at = "error"
    BY <1>1 DEF Answer
  <2>. HIDE DEF a
  <2>3. Flow' /\ Counted' /\ Bounded'
    BY <1>0, <1>1, <1>2, <2>1, <2>2, IdleCalls DEF EvalInv, Flow, Counted, Bounded
  <2>. QED BY <1>0, <1>2, <2>1, <2>2, <2>3, IdleCalls DEF EvalInv
<1>3. ASSUME nl.repairs < MaxRepairs, nl' = [nl EXCEPT !.at = "draft", !.repairs = nl.repairs + 1],
             llm' = Request("draft")
      PROVE  EvalInv'
  <2> DEFINE r == nl.repairs + 1
             a == [nl EXCEPT !.at = "draft", !.repairs = r]
  <2>0. nl.repairs \in 0..MaxRepairs /\ MaxRepairs \in Nat /\ nl.calls \in Nat
    BY <1>1, NL2SQLAssumption DEF Answer
  <2>1. r \in 0..MaxRepairs /\ r + 1 = nl.repairs + 2
    BY <1>3, <2>0
  <2>2. nl' = a
    BY <1>3
  <2>. HIDE DEF r
  <2>3. a \in Answer /\ a.at = "draft" /\ a.calls = nl.calls /\ a.repairs = r
    BY <1>1, <2>1 DEF Answer
  <2>. HIDE DEF a
  <2>4. Flow'
    BY <1>0, <1>1, <1>3, <2>2, <2>3, IdleCalls DEF EvalInv, Flow
  <2>5. Counted'
    BY <1>0, <1>1, <1>3, <2>0, <2>2, <2>3, IdleCalls DEF Counted
  <2>6. Bounded'
    BY <1>0, <1>1, <2>1, <2>2, <2>3 DEF EvalInv, Bounded
  <2>. QED BY <1>0, <1>3, <2>2, <2>3, <2>4, <2>5, <2>6, IdleCalls DEF EvalInv
<1>4. "NL2SQL_REPAIR_EXHAUSTED" \in AnswerCodes
  BY DEF AnswerCodes
<1>. QED BY <1>1, <1>2, <1>3, <1>4 DEF Repair

\* The statement has been executed and recorded, and the answer is returned.
LEMMA ReturnKeeps == EvalInv /\ Return /\ UNCHANGED evVars => EvalInv'
<1> SUFFICES ASSUME EvalInv, Return, UNCHANGED evVars PROVE EvalInv'
  OBVIOUS
<1> DEFINE a == [nl EXCEPT !.at = "ok"]
<1>0. /\ nl.at = "execute" /\ query.at = "ok" /\ nl' = a
      /\ UNCHANGED <<llm, sent, script, query, ev>>
  BY DEF Return, llmVars, evVars
<1>1. ev.at = "answer" /\ nl \in Answer /\ sent = nl.calls /\ llm.at = "idle"
  BY <1>0 DEF EvalInv, Flow, Counted
<1>2. a \in Answer /\ a.at = "ok" /\ a.calls = nl.calls /\ a.selected = nl.selected
  BY <1>1 DEF Answer
<1>. HIDE DEF a
<1>3. Flow' /\ Counted' /\ Bounded'
  BY <1>0, <1>1, <1>2 DEF EvalInv, Flow, Counted, Bounded
<1>. QED BY <1>0, <1>2, <1>3 DEF EvalInv

\* A case begins with its gold statement.
LEMMA StartCaseKeeps == EvalInv /\ StartCase => EvalInv'
<1> SUFFICES ASSUME EvalInv, StartCase PROVE EvalInv'
  OBVIOUS
<1> DEFINE q == Submit(FALSE, Case.gold, Tables)
           e == [ev EXCEPT !.at = "gold"]
<1>0. ev.at = "next" /\ ev.case <= Len(Cases) /\ query' = q /\ ev' = e /\ UNCHANGED <<llm, sent, script, nl>>
  BY DEF StartCase, llmVars
<1>1. ev \in Evaluating /\ nl.at = "idle" /\ llm.at = "idle"
  BY <1>0 DEF EvalInv, Flow
<1>2. Case.gold \in SQL
  <2>1. ev.case \in DOMAIN Cases
    BY <1>0, <1>1, EvaluationAssumption DEF Evaluating
  <2>. QED BY <2>1 DEF Case, SQL
<1>3. Querying(q) /\ q.at = "guard" /\ q.estimator = FALSE
  BY <1>2, SubmitBegins, ZenonT(60)
<1>4. e \in Evaluating /\ e.at = "gold" /\ e.case = ev.case
  BY <1>1 DEF Evaluating
<1>. HIDE DEF q, e
<1>5. Flow' /\ Counted' /\ Bounded'
  BY <1>0, <1>1, <1>3, <1>4 DEF EvalInv, Flow, Counted, Bounded
<1>. QED BY <1>0, <1>3, <1>4, <1>5 DEF EvalInv

\* The question of a case is refused or put to the model.
LEMMA GoldDoneKeeps == EvalInv /\ GoldDone => EvalInv'
<1> SUFFICES ASSUME EvalInv, GoldDone PROVE EvalInv'
  OBVIOUS
<1> DEFINE e == [ev EXCEPT !.at = "answer", !.expected = Case.gold.result]
<1>0. ev.at = "gold" /\ Ask(Case.question) /\ query' = NoQuery /\ ev' = e /\ sent' = 0 /\ script' = script
  BY DEF GoldDone, Ask
<1>1. ev \in Evaluating /\ nl.at = "idle" /\ llm.at = "idle" /\ ev.case <= Len(Cases)
  BY <1>0 DEF EvalInv, Flow
<1>2. ev.case \in DOMAIN Cases
  BY <1>1, EvaluationAssumption DEF Evaluating
<1>3. e \in Evaluating /\ e.at = "answer" /\ e.case = ev.case
  BY <1>1, <1>2 DEF Evaluating, Case
<1>. HIDE DEF e
<1>4. 0 <= MaxAttempts * (MaxRepairs + 2)
  BY Budget, LLMAssumption, NL2SQLAssumption
<1>5. CASE InspectQuestion(Case.question) # "none"
  <2> DEFINE a == [NoAnswer EXCEPT !.at = "error", !.code = "NL2SQL_QUESTION_REJECTED"]
  <2>1. nl' = a /\ llm' = llm
    BY <1>0, <1>5 DEF Ask
  <2>2. a \in Answer /\ a.at = "error"
    <3>1. NoAnswer \in Answer
      BY IdleCalls
    <3>. QED BY <3>1 DEF Answer, AnswerCodes
  <2>. HIDE DEF a
  <2>3. Flow' /\ Counted' /\ Bounded'
    BY <1>0, <1>1, <1>3, <1>4, <2>1, <2>2, IdleCalls DEF EvalInv, Flow, Counted, Bounded
  <2>. QED BY <1>0, <1>3, <2>1, <2>2, <2>3, IdleCalls DEF EvalInv
<1>6. CASE InspectQuestion(Case.question) = "none"
  <2> DEFINE a == [NoAnswer EXCEPT !.at = "select"]
  <2>1. nl' = a /\ llm' = Request("selection")
    BY <1>0, <1>6 DEF Ask
  <2>2. a \in Answer /\ a.at = "select" /\ a.calls = 0 /\ a.repairs = 0
    <3>1. NoAnswer \in Answer /\ NoAnswer.calls = 0 /\ NoAnswer.repairs = 0
      BY IdleCalls
    <3>. QED BY <3>1 DEF Answer
  <2>. HIDE DEF a
  <2>3. Flow' /\ Counted' /\ Bounded'
    BY <1>0, <1>1, <1>3, <1>4, <2>1, <2>2, IdleCalls DEF EvalInv, Flow, Counted, Bounded
  <2>. QED BY <1>0, <1>3, <2>1, <2>2, <2>3, IdleCalls DEF EvalInv
<1>. QED BY <1>5, <1>6

\* A case ends, whatever its result.
LEMMA EndCaseKeeps ==
  ASSUME EvalInv, NEW result, EndCase(result),
         ev.at = "gold" \/ (ev.at = "answer" /\ nl.at \in {"ok", "error"})
  PROVE  EvalInv'
<1> DEFINE n == ev.case + 1
           e == [ev EXCEPT !.at = "next", !.case = n, !.expected = "none"]
<1>0. query' = NoQuery /\ nl' = NoAnswer /\ ev' = e /\ UNCHANGED <<llm, sent, script>>
  BY DEF EndCase, llmVars
<1>1. ev \in Evaluating /\ llm.at = "idle" /\ ev.case <= Len(Cases)
  BY DEF EvalInv, Flow
<1>2. n \in 1..(Len(Cases) + 1)
  BY <1>1, EvaluationAssumption DEF Evaluating
<1>. HIDE DEF n
<1>3. e \in Evaluating /\ e.at = "next"
  BY <1>1, <1>2 DEF Evaluating
<1>. HIDE DEF e
<1>4. Flow' /\ Counted' /\ Bounded'
  BY <1>0, <1>1, <1>3, IdleCalls DEF EvalInv, Flow, Counted, Bounded
<1>. QED BY <1>0, <1>3, <1>4, IdleCalls DEF EvalInv

\* The report is written.
LEMMA ReportKeeps == EvalInv /\ Report => EvalInv'
<1> SUFFICES ASSUME EvalInv, Report PROVE EvalInv'
  OBVIOUS
<1> DEFINE e == [ev EXCEPT !.at = "done"]
<1>0. ev.at = "next" /\ ev' = e /\ UNCHANGED <<llm, sent, script, query, nl>>
  BY DEF Report, nlVars, llmVars
<1>1. ev \in Evaluating
  BY DEF EvalInv
<1>2. e \in Evaluating /\ e.at = "done"
  BY <1>1 DEF Evaluating
<1>. HIDE DEF e
<1>3. Flow' /\ Counted' /\ Bounded'
  BY <1>0, <1>2 DEF EvalInv, Flow, Counted, Bounded
<1>. QED BY <1>0, <1>2, <1>3 DEF EvalInv

\* Every step keeps the invariant.
LEMMA EvalNext == EvalInv /\ [Next]_vars => EvalInv'
<1> SUFFICES ASSUME EvalInv, [Next]_vars PROVE EvalInv'
  OBVIOUS
<1>1. CASE ModelStep
  BY <1>1, ModelStepKeeps
<1>2. CASE QueryStep \/ Fault
  BY <1>2, QueryStepKeeps
<1>3. CASE AnswerStep /\ UNCHANGED evVars
  BY <1>3, SelectKeeps, DraftKeeps, ModelFailsKeeps, RepairKeeps, ReturnKeeps DEF AnswerStep
<1>4. CASE StartCase
  BY <1>4, StartCaseKeeps
<1>5. CASE GoldDone
  BY <1>5, GoldDoneKeeps
<1>6. CASE GoldFails
  BY <1>6, EndCaseKeeps DEF GoldFails
<1>7. CASE AnswerFails
  BY <1>7, EndCaseKeeps DEF AnswerFails
<1>8. CASE AnswerDone
  BY <1>8, EndCaseKeeps DEF AnswerDone
<1>9. CASE Report
  BY <1>9, ReportKeeps
<1>10. CASE UNCHANGED vars
  BY <1>10 DEF vars, nlVars, llmVars, evVars, EvalInv, Flow, Counted, Bounded
<1>. QED BY <1>1, <1>2, <1>3, <1>4, <1>5, <1>6, <1>7, <1>8, <1>9, <1>10 DEF Next

\* EvalInv is inductive.
LEMMA EvalInductive == Spec => []EvalInv
BY EvalInit, EvalNext, PTL DEF Spec

----------------------------------------------------------------------------
(* The theorems *)

\* The state of an evaluation is well formed: no call is retried past its limits, no
\* more requests are sent for an answer than its calls and repairs allow, and no call of
\* execute_fixed records two events.
THEOREM EvaluationIsWellFormed == Spec => []TypeOK
<1>1. EvalInv => TypeOK
  <2> SUFFICES ASSUME EvalInv PROVE TypeOK
    OBVIOUS
  <2>1. /\ llm.at \in {"idle", "request", "ok", "error"}
        /\ llm.attempt \in 0..MaxAttempts /\ llm.invalid \in 0..InvalidRetries
    BY DEF EvalInv, Asking, LLMCall
  <2>2. sent \in 0..(MaxAttempts * (MaxRepairs + 2))
    <3>1. MaxAttempts * (MaxRepairs + 2) \in Nat
      BY Budget, LLMAssumption, NL2SQLAssumption
    <3>. QED BY <3>1 DEF EvalInv, Bounded
  <2>3. /\ query.at \in {"idle", "guard", "estimate", "execute", "fetch", "record", "ok", "error"}
        /\ Len(query.recorded) <= 1
    <3>1. query \in QueryCall /\ Audited(query)
      BY DEF EvalInv, Querying
    <3>2. query.at \in {"idle", "guard", "estimate", "execute", "fetch", "record", "ok", "error"}
      BY <3>1 DEF QueryCall
    <3>3. query.recorded = <<>> \/ Len(query.recorded) = 1
      BY <3>1, <3>2 DEF Audited
    <3>4. CASE query.recorded = <<>>
      <4>1. Len(<<>>) <= 1
        OBVIOUS
      <4>. QED BY <3>2, <3>4, <4>1
    <3>5. CASE Len(query.recorded) = 1
      BY <3>2, <3>5
    <3>. QED BY <3>3, <3>4, <3>5
  <2>4. /\ nl.at \in {"idle", "select", "draft", "execute", "ok", "error"}
        /\ nl.repairs \in 0..MaxRepairs /\ nl.selected \subseteq Tables
    BY DEF EvalInv, Answer
  <2>5. ev.at \in {"next", "gold", "answer", "done"} /\ ev.case \in 1..(Len(Cases) + 1)
    BY DEF EvalInv, Evaluating
  <2>. QED BY <2>1, <2>2, <2>3, <2>4, <2>5 DEF TypeOK
<1>. QED BY <1>1, EvalInductive, PTL

\* Whatever the model, the database and the sink of events do, the log tells what happened
\* to a statement: a result is used only after the event that says it was executed has
\* been recorded, an event that denies the execution is recorded only of a statement that
\* was not sent, no call that fails has recorded a success, and a statement that was sent
\* and left no event is reported as such (execute_fixed, _record).
THEOREM ResultsAudited == Spec => []ResultsAreAudited
<1>1. EvalInv => ResultsAreAudited
  <2> DEFINE events == {query.recorded[i] : i \in DOMAIN query.recorded}
  <2> SUFFICES ASSUME EvalInv PROVE ResultsAreAudited
    OBVIOUS
  <2>0. query \in QueryCall /\ query.recorded \in Seq(Event) /\ Audited(query)
    BY DEF EvalInv, Querying, QueryCall
  <2>1. CASE query.at = "ok"
    <3>1. /\ DOMAIN query.recorded = {1}
          /\ query.recorded[1].status = "SUCCEEDED" /\ query.recorded[1].executor
      BY <2>0, <2>1 DEF Audited
    <3>2. events = {query.recorded[1]}
      BY <3>1
    <3>. QED BY <2>1, <3>1, <3>2 DEF ResultsAreAudited
  <2>2. CASE query.at = "error"
    <3>1. CASE query.recorded = <<>> /\ query.reply = "QUERY_AUDIT_FAILED"
      <4>1. events = {}
        BY <3>1
      <4>. QED BY <2>2, <3>1, <4>1 DEF ResultsAreAudited
    <3>2. CASE /\ Len(query.recorded) = 1 /\ query.recorded[1].status # "SUCCEEDED"
               /\ query.ran => query.recorded[1].executor
      <4>1. DOMAIN query.recorded = {1}
        BY <2>0, <3>2
      <4>2. events = {query.recorded[1]}
        BY <4>1
      <4>. QED BY <2>2, <3>2, <4>2 DEF ResultsAreAudited
    <3>. QED BY <2>0, <2>2, <3>1, <3>2 DEF Audited
  <2>3. CASE query.at \notin {"ok", "error"}
    <3>1. query.recorded = <<>>
      BY <2>0, <2>3 DEF Audited, QueryCall
    <3>2. events = {}
      BY <3>1
    <3>. QED BY <2>3, <3>2 DEF ResultsAreAudited
  <2>. QED BY <2>1, <2>2, <2>3
<1>. QED BY <1>1, EvalInductive, PTL

\* For every policy, every selection and every draft a model may give, a candidate that
\* is sent to the database reads only tables the model selected and is within the limits
\* of the planner, also after a repair (answer, restrict_to_tables, _approval_reason).
THEOREM CandidatesStayWithinSelection == Spec => []ExecutedWithinSelection
<1>1. EvalInv => ExecutedWithinSelection
  <2> SUFFICES ASSUME EvalInv, query.ran, query.estimator
               PROVE  /\ query.sql.reads \subseteq nl.selected
                      /\ query.sql.cost <= MaxCost /\ query.sql.plan <= MaxPlanRows
    BY DEF ExecutedWithinSelection
  <2>1. /\ query.sql.reads \subseteq query.allowed
        /\ query.sql.cost <= MaxCost /\ query.sql.plan <= MaxPlanRows
    BY DEF EvalInv, Querying, Passed
  <2>2. ev \in Evaluating /\ nl \in Answer /\ query.at # "idle"
    BY DEF EvalInv, Querying, Audited
  <2>3. ev.at = "answer"
    BY <2>2 DEF EvalInv, Flow, Evaluating
  <2>4. nl.at \in {"execute", "ok"}
    BY <2>2, <2>3 DEF EvalInv, Flow, Answer
  <2>. QED BY <2>1, <2>4 DEF EvalInv, Flow
<1>. QED BY <1>1, EvalInductive, PTL

\* The model_calls an answer reports are the requests sent for it, for any number of
\* attempts, refused answers and repairs (generate, _retry, answer).
THEOREM ModelCallsAreExact == Spec => []ModelCallsExact
<1>1. EvalInv => ModelCallsExact
  BY DEF EvalInv, Counted, ModelCallsExact
<1>. QED BY <1>1, EvalInductive, PTL

----------------------------------------------------------------------------
(* The replay *)

\* The data set can be replayed: the guard accepts its gold statements, which read as
\* many tables as a selection may name and stay within the limits of the planner.
Replayable ==
  \A i \in DOMAIN Cases :
    /\ Inspect(Cases[i].gold, Tables) = "none"
    /\ IsFiniteSet(Cases[i].gold.reads) /\ Cardinality(Cases[i].gold.reads) \in 1..MaxSelected
    /\ Cases[i].gold.cost <= MaxCost /\ Cases[i].gold.plan <= MaxPlanRows

\* The questions of the first n cases are accepted.
Accepted(n) == \A j \in 1..n : InspectQuestion(Cases[j].question) = "none"

\* s is what is left of the script after its first k answers.
Queue(s, k) ==
  /\ Len(s) = 2 * Len(Cases) - k
  /\ \A i \in 1..Len(s) : s[i] = ScriptedResponses[k + i]

\* A call of execute_fixed that has not gone wrong.
Healthy(q) == q.at # "error" /\ (q.at = "record" => q.reply = "ok")

\* The answers already taken from the script when a case begins.
Taken == 2 * (ev.case - 1)

\* The gold statement of the case at hand is on its way.
GoldInStep == query.sql = Case.gold /\ query.allowed = Tables /\ Healthy(query)

\* The scripted answers of the case at hand are being taken.
AnswerInStep ==
  /\ ev.expected = Case.gold.result
  /\ nl.at \in {"select", "draft", "execute", "ok"} /\ nl.repairs = 0 /\ llm.at # "error"
  /\ nl.at = "select" => llm.wants = "selection"
  /\ nl.at = "select" /\ llm.at = "request" => Queue(script, Taken)
  /\ nl.at = "select" /\ llm.at = "ok" => Queue(script, Taken + 1) /\ llm.reply = ScriptedResponses[Taken + 1]
  /\ nl.at = "draft" => llm.wants = "draft" /\ nl.selected = Case.gold.reads
  /\ nl.at = "draft" /\ llm.at = "request" => Queue(script, Taken + 1)
  /\ nl.at = "draft" /\ llm.at = "ok" => Queue(script, Taken + 2) /\ llm.reply = ScriptedResponses[Taken + 2]
  /\ nl.at \in {"execute", "ok"} => Queue(script, Taken + 2) /\ nl.last = Case.gold
  /\ nl.at = "execute" => /\ query.sql = Case.gold /\ query.allowed = Tables \cap Case.gold.reads
                          /\ Healthy(query)

\* As long as no question was refused, the queue of answers is in step with the cases.
InStep ==
  replay /\ ~faulty /\ Accepted(ev.case - 1) =>
    /\ ev.at \in {"next", "gold"} => Queue(script, Taken)
    /\ ev.at = "gold" => GoldInStep
    /\ ev.at = "answer" /\ InspectQuestion(Case.question) = "none" => AnswerInStep

Outcome ==
  [kind : {"nl2sql", "dangerous"}, passed : BOOLEAN, safe : BOOLEAN, first : BOOLEAN, repairs : 0..MaxRepairs,
   category : {"none", "dataset", "model", "schema_selection", "execution", "safety", "unknown",
               "result_mismatch"}]

\* Every case that is over has its result in its place.
Logged ==
  /\ results \in Seq(Outcome)
  /\ ev.at # "done" => Len(results) = ev.case - 1
  /\ ev.at = "done" => ev.case > Len(Cases) /\ Len(results) >= Len(Cases)
  /\ replay /\ ~faulty =>
       \A i \in DOMAIN Cases : i < ev.case /\ Accepted(i) => results[i].passed

ReplayInv == EvalInv /\ replay \in BOOLEAN /\ faulty \in BOOLEAN /\ InStep /\ Logged

\* A finite set of tables becomes a sequence that names each of them once.
LEMMA TablesNamedOnce ==
  ASSUME NEW gold, IsFiniteSet(gold.reads)
  PROVE  /\ Len(SelectedTables(gold)) = Cardinality(gold.reads)
         /\ DOMAIN SelectedTables(gold) = 1..Cardinality(gold.reads)
         /\ Names(SelectedTables(gold)) = gold.reads
         /\ \A i \in DOMAIN SelectedTables(gold) :
              SelectedTables(gold)[i].schema = "none" /\ SelectedTables(gold)[i].table \in gold.reads
<1> DEFINE n == Cardinality(gold.reads)
           names == SetToSeq(gold.reads)
           tables == SelectedTables(gold)
<1>1. n \in Nat /\ ExistsBijection(1..n, gold.reads)
  BY FS_CardinalityType
<1>2. \E f \in [1..n -> gold.reads] : IsInjective(f)
  BY <1>1 DEF ExistsBijection, Bijection, Injection
<1>3. names \in [1..n -> gold.reads] /\ IsInjective(names)
  BY <1>2 DEF SetToSeq
<1>4. names \in Injection(1..n, gold.reads)
  BY <1>3 DEF Injection
<1>5. Cardinality(1..n) = n
  BY <1>1, FS_Interval
<1>. HIDE DEF n, names
<1>6. names \in Surjection(1..n, gold.reads)
  BY <1>4, <1>5, FS_Injection DEF n
<1>7. tables = [i \in 1..n |-> [schema |-> "none", table |-> names[i]]]
  BY <1>3 DEF SelectedTables, names
<1>8. DOMAIN tables = 1..n /\ Len(tables) = n
  <2>1. tables \in Seq({tables[i] : i \in 1..n})
    BY <1>1, <1>7
  <2>. QED BY <1>1, <1>7, <2>1
<1>9. \A i \in 1..n : tables[i].schema = "none" /\ tables[i].table = names[i] /\ names[i] \in gold.reads
  BY <1>3, <1>7
<1>10. Names(tables) = gold.reads
  <2>1. \A t \in gold.reads : \E i \in 1..n : names[i] = t
    BY <1>6 DEF Surjection
  <2>. HIDE DEF tables
  <2>. QED BY <1>8, <1>9, <2>1 DEF Names
<1>. QED BY <1>8, <1>9, <1>10 DEF n

\* Every check of the guard but the one of the tables is one of the statement alone.
LEMMA InspectPasses ==
  ASSUME NEW s, NEW a, NEW b, Inspect(s, a) = "none", s.reads \subseteq b
  PROVE  Inspect(s, b) = "none"
<1> DEFINE old == Checks(s, a)
           new == Checks(s, b)
<1>1. DOMAIN old = 1..12 /\ DOMAIN new = 1..12
  BY DEF Checks
<1>2. \A i \in 1..12 : ~old[i][1]
  <2>1. SUFFICES ASSUME \E i \in DOMAIN old : old[i][1] PROVE FALSE
    BY <1>1
  <2>2. DOMAIN old = 1..12 /\ \A i \in 1..12 : old[i][2] \in Refusals
    BY DEF Checks, Refusals
  <2>. HIDE DEF old
  <2>3. First(old) \in DOMAIN old
    <3> DEFINE T == {i \in 1..12 : old[i][1]}
    <3>1. PICK i \in T : \A j \in T : ~(j < i)
      <4>1. T \in SUBSET Nat /\ T # {}
        BY <1>1, <2>1
      <4>. QED BY <4>1, Least
    <3>2. i \in DOMAIN old /\ old[i][1] /\ \A j \in 1..(i - 1) : ~old[j][1]
      BY <1>1, <3>1
    <3>. QED BY <3>2 DEF First
  <2>4. Inspect(s, a) = old[First(old)][2]
    BY <2>1 DEF Inspect, old
  <2>5. "none" \notin Refusals
    BY DEF Refusals
  <2>. QED BY <2>2, <2>3, <2>4, <2>5
<1>3. \A i \in 1..12 : i # 11 => new[i][1] = old[i][1]
  BY DEF Checks
<1>4. ~new[11][1]
  BY DEF Checks
<1>5. \A i \in 1..12 : ~new[i][1]
  <2>. HIDE DEF old, new
  <2>. QED BY <1>2, <1>3, <1>4
<1>6. ~\E i \in DOMAIN new : new[i][1]
  BY <1>1, <1>5
<1>. QED BY <1>6 DEF Inspect

\* The two answers scripted for a case.
LEMMA Scripted ==
  ASSUME NEW i \in DOMAIN Cases
  PROVE  LET k == 2 * (i - 1)
             gold == Cases[i].gold
         IN /\ k \in Nat /\ k + 2 <= 2 * Len(Cases)
            /\ ScriptedResponses[k + 1] =
                 [kind |-> "selection", tables |-> SelectedTables(gold), sql |-> NoStatement]
            /\ ScriptedResponses[k + 2] = [kind |-> "draft", tables |-> SelectedTables(gold), sql |-> gold]
<1> DEFINE k == 2 * (i - 1)
<1>1. i \in 1..Len(Cases) /\ Len(Cases) \in Nat
  BY EvaluationAssumption
<1>2. k \in Nat /\ k + 2 <= 2 * Len(Cases) /\ k + 1 \in 1..(2 * Len(Cases)) /\ k + 2 \in 1..(2 * Len(Cases))
  BY <1>1
<1>3. i \in Int /\ k + 1 = 2 * i - 1 /\ k + 2 = 2 * i
  BY <1>1
<1>4. (2 * i - 1) % 2 = 1
  BY <1>3
<1>5. (2 * i) % 2 = 0
  BY <1>3
<1>6. ((2 * i - 1) + 1) \div 2 = i
  BY <1>3
<1>7. (2 * i + 1) \div 2 = i
  BY <1>3
<1>8. ScriptedResponses[k + 1] =
        [kind |-> "selection", tables |-> SelectedTables(Cases[i].gold), sql |-> NoStatement]
  BY <1>2, <1>3, <1>4, <1>6 DEF ScriptedResponses
<1>9. ScriptedResponses[k + 2] =
        [kind |-> "draft", tables |-> SelectedTables(Cases[i].gold), sql |-> Cases[i].gold]
  <2>1. 2 * i \in 1..(2 * Len(Cases)) /\ (2 * i) % 2 # 1
    BY <1>2, <1>3, <1>5
  <2>2. PICK m \in 1..(2 * Len(Cases)) : m = 2 * i
    BY <2>1
  <2>3. (m + 1) \div 2 = i /\ ~(m % 2 = 1)
    BY <1>7, <2>1, <2>2
  <2>4. ScriptedResponses[m] =
          [kind |-> "draft", tables |-> SelectedTables(Cases[i].gold), sql |-> Cases[i].gold]
    BY <2>3 DEF ScriptedResponses
  <2>. QED BY <1>3, <2>2, <2>4
<1>. QED BY <1>2, <1>8, <1>9

\* The answers scripted for a case are accepted, and select the tables of its statement.
LEMMA ScriptFits ==
  ASSUME Replayable, NEW i \in DOMAIN Cases
  PROVE  LET gold == Cases[i].gold
             tables == SelectedTables(gold)
         IN /\ Len(tables) \in 1..6
            /\ \A j \in DOMAIN tables : tables[j].table \in Tables /\ tables[j].schema \in {"none", "own"}
            /\ ValidSelection(tables)
            /\ Normal(tables)
            /\ Names(tables) = gold.reads
            /\ gold.reads \subseteq Tables
<1> DEFINE gold == Cases[i].gold
           tables == SelectedTables(gold)
<1>1. /\ Inspect(gold, Tables) = "none" /\ IsFiniteSet(gold.reads)
      /\ Cardinality(gold.reads) \in 1..MaxSelected
  BY DEF Replayable
<1>2. gold.reads \subseteq Tables
  BY <1>1, InspectRefuses
<1>3. MaxSelected \in Nat /\ MaxSelected <= 6
  BY NL2SQLAssumption
<1>. HIDE DEF gold
<1>4. /\ Len(tables) = Cardinality(gold.reads) /\ Names(tables) = gold.reads
      /\ \A j \in DOMAIN tables : tables[j].schema = "none" /\ tables[j].table \in gold.reads
  BY <1>1, TablesNamedOnce
<1>. HIDE DEF tables
<1>5. Len(tables) \in 1..6 /\ Len(tables) <= MaxSelected
  BY <1>1, <1>3, <1>4
<1>6. Normal(tables)
  BY <1>4 DEF Normal
<1>7. ValidSelection(tables)
  BY <1>2, <1>4, <1>5, <1>6 DEF ValidSelection
<1>. QED BY <1>2, <1>4, <1>5, <1>6, <1>7 DEF tables, gold

\* Taking an answer from the queue.
LEMMA QueueMoves ==
  ASSUME NEW s \in Seq(Answers), NEW k \in Nat, k < 2 * Len(Cases), Queue(s, k)
  PROVE  s # <<>> /\ Head(s) = ScriptedResponses[k + 1] /\ Queue(Tail(s), k + 1)
<1>0. 2 * Len(Cases) \in Nat
  BY EvaluationAssumption
<1>1. PICK n \in Nat : n = 2 * Len(Cases)
  BY <1>0
<1>2. Len(s) = n - k /\ Len(s) \in Nat /\ Len(s) >= 1
  BY <1>1 DEF Queue
<1>3. s # <<>> /\ Head(s) = s[1] /\ Tail(s) \in Seq(Answers) /\ Len(Tail(s)) = Len(s) - 1
  BY <1>2
<1>4. Head(s) = ScriptedResponses[k + 1]
  BY <1>2, <1>3 DEF Queue
<1>5. ASSUME NEW i \in 1..Len(Tail(s))
      PROVE  Tail(s)[i] = ScriptedResponses[(k + 1) + i]
  <2>1. Tail(s)[i] = s[i + 1] /\ i + 1 \in 1..Len(s) /\ k + (i + 1) = (k + 1) + i
    BY <1>2, <1>3
  <2>. QED BY <2>1 DEF Queue
<1>6. Len(Tail(s)) = n - (k + 1)
  BY <1>2, <1>3
<1>. QED BY <1>1, <1>3, <1>4, <1>5, <1>6 DEF Queue

\* What Replayable says of the case at hand.
LEMMA CaseAtHand ==
  ASSUME EvalInv, Replayable, ev.at \in {"gold", "answer"}
  PROVE  /\ ev.case \in DOMAIN Cases /\ ev.case \in Nat /\ Taken \in Nat /\ Taken + 2 <= 2 * Len(Cases)
         /\ Case.gold.reads \subseteq Tables
         /\ Inspect(Case.gold, Tables) = "none" /\ Inspect(Case.gold, Tables \cap Case.gold.reads) = "none"
         /\ Case.gold.cost <= MaxCost /\ Case.gold.plan <= MaxPlanRows
         /\ Case.gold.cost \in Int /\ Case.gold.plan \in Int
<1>1. ev.case \in DOMAIN Cases /\ ev.case \in Nat
  BY EvaluationAssumption DEF EvalInv, Flow, Evaluating
<1>2. Taken \in Nat /\ Taken + 2 <= 2 * Len(Cases)
  BY <1>1, Scripted DEF Taken
<1>3. Case.gold.reads \subseteq Tables
  BY <1>1, ScriptFits DEF Case
<1>4. /\ Inspect(Case.gold, Tables) = "none"
      /\ Case.gold.cost <= MaxCost /\ Case.gold.plan <= MaxPlanRows
  BY <1>1 DEF Replayable, Case
<1>5. Case.gold.reads \subseteq Tables \cap Case.gold.reads
  BY <1>3
<1>6. Inspect(Case.gold, Tables \cap Case.gold.reads) = "none"
  BY <1>4, <1>5, InspectPasses
<1>7. Case.gold \in SQL
  BY <1>1 DEF Case, SQL
<1>. QED BY <1>1, <1>2, <1>3, <1>4, <1>6, <1>7, Measured

\* A statement the guard accepts and the planner allows goes well unless something fails.
LEMMA HealthyMoves ==
  ASSUME Querying(query), Healthy(query), Guard \/ Estimate \/ Send \/ Execute \/ Record,
         Inspect(query.sql, query.allowed) = "none",
         query.sql.cost <= MaxCost, query.sql.plan <= MaxPlanRows
  PROVE  Healthy(query')
<1>0. query \in QueryCall
  BY DEF Querying
<1>1. CASE Guard
  <2> DEFINE at == IF query.estimator THEN "estimate" ELSE "execute"
  <2>1. query' = [query EXCEPT !.at = at]
    BY <1>1 DEF Guard
  <2>2. at \in {"estimate", "execute"}
    OBVIOUS
  <2>. HIDE DEF at
  <2>3. query'.at = at
    BY <1>0, <2>1 DEF QueryCall
  <2>. QED BY <2>2, <2>3 DEF Healthy
<1>2. CASE Estimate
  <2>0. query.sql.cost \in Int /\ query.sql.plan \in Int
    BY <1>0, Measured DEF QueryCall
  <2>1. ApprovalReason(query.sql) = "none"
    BY <2>0, QueryAssumption DEF ApprovalReason
  <2>2. query' = [query EXCEPT !.at = "execute"]
    BY <1>2, <2>1 DEF Estimate
  <2>3. query'.at = "execute"
    BY <1>0, <2>2 DEF QueryCall
  <2>. QED BY <2>3 DEF Healthy
<1>3. CASE Execute
  <2>1. query'.at = "record" /\ query'.reply = "ok"
    BY <1>0, <1>3 DEF Execute, Ends, QueryCall
  <2>. QED BY <2>1 DEF Healthy
<1>5. CASE Send
  <2>1. query'.at = "fetch"
    BY <1>0, <1>5 DEF Send, QueryCall
  <2>. QED BY <2>1 DEF Healthy
<1>4. CASE Record
  <2>1. query.at = "record" /\ query.reply = "ok"
    BY <1>4 DEF Record, Healthy
  <2>2. query'.at = "ok"
    BY <1>0, <1>4, <2>1 DEF Record, QueryCall
  <2>. QED BY <2>2 DEF Healthy
<1>. QED BY <1>1, <1>2, <1>3, <1>4, <1>5

\* The invariant holds initially.
LEMMA ReplayInit == Init => ReplayInv
<1> SUFFICES ASSUME Init PROVE ReplayInv
  OBVIOUS
<1>1. EvalInv
  BY EvalInit
<1>2. ev.at = "next" /\ ev.case = 1 /\ results = <<>> /\ faulty = FALSE /\ replay \in BOOLEAN
  BY DEF Init, LLMInit
<1>3. replay => Queue(script, 0)
  <2> SUFFICES ASSUME replay PROVE Queue(script, 0)
    OBVIOUS
  <2>1. script = ScriptedResponses
    BY DEF Init, LLMInit
  <2>2. 2 * Len(Cases) \in Nat
    BY EvaluationAssumption
  <2>3. script \in Seq(Answers)
    BY <1>1 DEF EvalInv
  <2>4. DOMAIN script = 1..(2 * Len(Cases))
    BY <2>1 DEF ScriptedResponses
  <2>5. Len(script) = 2 * Len(Cases)
    BY <2>2, <2>3, <2>4
  <2>. QED BY <2>1, <2>2, <2>5 DEF Queue
<1>4. InStep
  BY <1>2, <1>3 DEF InStep, Taken
<1>5. Logged
  <2>1. results \in Seq(Outcome) /\ Len(results) = 0
    BY <1>2
  <2>. QED BY <1>2, <2>1, EvaluationAssumption DEF Logged
<1>. QED BY <1>1, <1>2, <1>4, <1>5 DEF ReplayInv

\* A scripted answer is taken and accepted.
LEMMA TakeAnswer ==
  ASSUME Asking(llm), Replay, script \in Seq(Answers), NEW k \in Nat, k < 2 * Len(Cases), Queue(script, k),
         ScriptedResponses[k + 1].kind = llm.wants,
         Len(ScriptedResponses[k + 1].tables) \in 1..6,
         \A i \in DOMAIN ScriptedResponses[k + 1].tables :
           /\ ScriptedResponses[k + 1].tables[i].table \in Tables
           /\ ScriptedResponses[k + 1].tables[i].schema \in {"none", "own"}
  PROVE  /\ llm'.at = "ok" /\ llm'.reply = ScriptedResponses[k + 1] /\ llm'.wants = llm.wants
         /\ Queue(script', k + 1)
<1>1. script # <<>> /\ Head(script) = ScriptedResponses[k + 1] /\ Queue(Tail(script), k + 1)
  BY QueueMoves
<1>2. Validate(Head(script)) /\ script' = Tail(script)
  BY <1>1 DEF Replay
<1>3. Fits(Head(script))
  BY <1>1 DEF Fits
<1>4. llm' = [llm EXCEPT !.at = "ok", !.reply = Head(script)]
  BY <1>2, <1>3 DEF Validate
<1>5. llm \in LLMCall
  BY DEF Asking
<1>. QED BY <1>1, <1>2, <1>4, <1>5 DEF LLMCall

\* The model's step of a replay.
LEMMA ModelInStep ==
  ASSUME ReplayInv, Replayable, ModelStep
  PROVE  InStep' /\ Logged'
<1>0. UNCHANGED <<query, nl, ev, results, faulty, replay>>
  BY DEF ModelStep, evVars, Generate, Complete, Replay
<1>1. Logged'
  BY <1>0 DEF ReplayInv, Logged
<1>2. InStep'
  <2>1. llm.at = "request" /\ nl.at \in {"select", "draft"} /\ ev.at = "answer"
    BY DEF ReplayInv, EvalInv, Flow, ModelStep, Generate, Complete, Replay
  <2>2. SUFFICES ASSUME replay, ~faulty, Accepted(ev.case - 1), InspectQuestion(Case.question) = "none"
                 PROVE  AnswerInStep'
    BY <1>0, <2>1 DEF InStep, Case
  <2>3. AnswerInStep
    BY <2>1, <2>2 DEF ReplayInv, InStep
  <2>4. Replay
    BY <2>2 DEF ModelStep, Generate, Complete
  <2>5. Asking(llm) /\ script \in Seq(Answers)
    BY DEF ReplayInv, EvalInv
  <2>6. ev.case \in DOMAIN Cases /\ Taken \in Nat /\ Taken + 2 <= 2 * Len(Cases) /\ Len(Cases) \in Nat
    BY <2>1, CaseAtHand, EvaluationAssumption DEF ReplayInv
  <2>7. /\ ScriptedResponses[Taken + 1] =
             [kind |-> "selection", tables |-> SelectedTables(Case.gold), sql |-> NoStatement]
        /\ ScriptedResponses[Taken + 2] =
             [kind |-> "draft", tables |-> SelectedTables(Case.gold), sql |-> Case.gold]
    BY <2>6, Scripted DEF Taken, Case
  <2>8. /\ Len(SelectedTables(Case.gold)) \in 1..6
        /\ \A j \in DOMAIN SelectedTables(Case.gold) :
             /\ SelectedTables(Case.gold)[j].table \in Tables
             /\ SelectedTables(Case.gold)[j].schema \in {"none", "own"}
    BY <2>6, ScriptFits DEF Case
  <2>9. Taken' = Taken /\ Case' = Case
    BY <1>0 DEF Taken, Case
  <2>10. CASE nl.at = "select"
    <3>1. llm.wants = "selection" /\ Queue(script, Taken)
      BY <2>1, <2>3, <2>10 DEF AnswerInStep
    <3>2. Taken < 2 * Len(Cases)
      BY <2>6
    <3>3. ScriptedResponses[Taken + 1].kind = llm.wants
          /\ ScriptedResponses[Taken + 1].tables = SelectedTables(Case.gold)
      BY <2>7, <3>1
    <3>4. /\ llm'.at = "ok" /\ llm'.reply = ScriptedResponses[Taken + 1] /\ llm'.wants = llm.wants
          /\ Queue(script', Taken + 1)
      BY <2>4, <2>5, <2>6, <2>8, <3>1, <3>2, <3>3, TakeAnswer
    <3>. QED BY <1>0, <2>3, <2>9, <2>10, <3>1, <3>4 DEF AnswerInStep
  <2>11. CASE nl.at = "draft"
    <3>1. llm.wants = "draft" /\ Queue(script, Taken + 1)
      BY <2>1, <2>3, <2>11 DEF AnswerInStep
    <3>2. Taken + 1 < 2 * Len(Cases) /\ Taken + 1 \in Nat /\ (Taken + 1) + 1 = Taken + 2
      BY <2>6
    <3>3. ScriptedResponses[Taken + 2].kind = llm.wants
          /\ ScriptedResponses[Taken + 2].tables = SelectedTables(Case.gold)
      BY <2>7, <3>1
    <3>4. /\ llm'.at = "ok" /\ llm'.reply = ScriptedResponses[Taken + 2] /\ llm'.wants = llm.wants
          /\ Queue(script', Taken + 2)
      BY <2>4, <2>5, <2>8, <3>1, <3>2, <3>3, TakeAnswer
    <3>. QED BY <1>0, <2>3, <2>9, <2>11, <3>1, <3>4 DEF AnswerInStep
  <2>. QED BY <2>1, <2>10, <2>11
<1>. QED BY <1>1, <1>2

\* A step of the safe query service, when nothing fails.
LEMMA QueryInStep ==
  ASSUME ReplayInv, Replayable, QueryStep
  PROVE  InStep' /\ Logged'
<1>0. UNCHANGED <<llm, script, nl, ev, results, faulty, replay>>
  BY DEF QueryStep, evVars, llmVars
<1>1. Logged'
  BY <1>0 DEF ReplayInv, Logged
<1>2. Querying(query) /\ (Guard \/ Estimate \/ Send \/ Execute \/ Record)
  BY DEF QueryStep, ReplayInv, EvalInv
<1>3. /\ query.at \in {"guard", "estimate", "execute", "fetch", "record"}
      /\ query'.sql = query.sql /\ query'.allowed = query.allowed
  BY <1>2, QueryKeeps
<1>4. Taken' = Taken /\ Case' = Case
  BY <1>0 DEF Taken, Case
<1>5. ASSUME ev.at \in {"gold", "answer"}, Healthy(query), query.sql = Case.gold,
             query.allowed = Tables \/ query.allowed = Tables \cap Case.gold.reads
      PROVE  Healthy(query')
  <2>1. /\ Inspect(query.sql, query.allowed) = "none"
        /\ query.sql.cost <= MaxCost /\ query.sql.plan <= MaxPlanRows
    BY <1>5, CaseAtHand DEF ReplayInv
  <2>. QED BY <1>2, <1>5, <2>1, HealthyMoves
<1>6. InStep'
  <2>1. SUFFICES ASSUME replay, ~faulty, Accepted(ev.case - 1)
                 PROVE  /\ ev.at \in {"next", "gold"} => Queue(script, Taken)
                        /\ ev.at = "gold" => GoldInStep'
                        /\ ev.at = "answer" /\ InspectQuestion(Case.question) = "none" => AnswerInStep'
    BY <1>0, <1>4 DEF InStep
  <2>2. /\ ev.at \in {"next", "gold"} => Queue(script, Taken)
        /\ ev.at = "gold" => GoldInStep
        /\ ev.at = "answer" /\ InspectQuestion(Case.question) = "none" => AnswerInStep
    BY <2>1 DEF ReplayInv, InStep
  <2>3. ASSUME ev.at = "gold" PROVE GoldInStep'
    BY <1>3, <1>4, <1>5, <2>2, <2>3 DEF GoldInStep
  <2>4. ASSUME ev.at = "answer", InspectQuestion(Case.question) = "none" PROVE AnswerInStep'
    <3>1. AnswerInStep
      BY <2>2, <2>4
    <3>2. nl.at = "execute" => Healthy(query')
      BY <1>5, <2>4, <3>1 DEF AnswerInStep
    <3>. QED BY <1>0, <1>3, <1>4, <3>1, <3>2 DEF AnswerInStep
  <2>. QED BY <2>2, <2>3, <2>4
<1>. QED BY <1>1, <1>6

\* A failure of the database or of the sink: the replay is not a healthy one.
LEMMA FaultInStep ==
  ASSUME ReplayInv, Fault
  PROVE  InStep' /\ Logged'
<1>1. faulty' = TRUE /\ UNCHANGED <<ev, results>>
  BY DEF Fault
<1>. QED BY <1>1 DEF InStep, Logged, ReplayInv

\* A step of the answer of a replay.
LEMMA AnswerStaysInStep ==
  ASSUME ReplayInv, Replayable, AnswerStep, UNCHANGED evVars
  PROVE  InStep' /\ Logged'
<1>0. UNCHANGED <<ev, results, faulty, script, replay>>
  BY DEF evVars, AnswerStep, Select, Draft, ModelFails, Repair, Return, llmVars
<1>1. Logged'
  BY <1>0 DEF ReplayInv, Logged
<1>2. Taken' = Taken /\ Case' = Case
  BY <1>0 DEF Taken, Case
<1>3. nl.at \in {"select", "draft", "execute"}
  BY DEF AnswerStep, Select, Draft, ModelFails, Repair, Return
<1>4. ev.at = "answer" /\ nl \in Answer /\ EvalInv
  BY <1>3 DEF ReplayInv, EvalInv, Flow
<1>5. SUFFICES ASSUME replay, ~faulty, Accepted(ev.case - 1), InspectQuestion(Case.question) = "none"
               PROVE  AnswerInStep'
  BY <1>0, <1>1, <1>2, <1>4 DEF InStep
<1>6. AnswerInStep
  BY <1>4, <1>5 DEF ReplayInv, InStep
<1>7. ev.case \in DOMAIN Cases
  BY <1>4, CaseAtHand
<1>8. /\ ScriptedResponses[Taken + 1] =
           [kind |-> "selection", tables |-> SelectedTables(Case.gold), sql |-> NoStatement]
      /\ ScriptedResponses[Taken + 2] =
           [kind |-> "draft", tables |-> SelectedTables(Case.gold), sql |-> Case.gold]
  BY <1>7, Scripted DEF Taken, Case
<1>9. /\ ValidSelection(SelectedTables(Case.gold)) /\ Normal(SelectedTables(Case.gold))
      /\ Names(SelectedTables(Case.gold)) = Case.gold.reads
  BY <1>7, ScriptFits DEF Case
<1>10. CASE Select
  <2>1. nl.at = "select" /\ llm.at = "ok" /\ query' = query
    BY <1>10 DEF Select
  <2>2. Queue(script, Taken + 1) /\ llm.reply.tables = SelectedTables(Case.gold)
    BY <1>6, <1>8, <2>1 DEF AnswerInStep
  <2>3. /\ nl' = [nl EXCEPT !.at = "draft", !.selected = Names(SelectedTables(Case.gold)), !.calls = llm.attempt]
        /\ llm' = Request("draft")
    BY <1>9, <1>10, <2>2 DEF Select
  <2>4. nl'.at = "draft" /\ nl'.selected = Case.gold.reads /\ nl'.repairs = nl.repairs
    BY <1>4, <1>9, <2>3 DEF Answer
  <2>5. llm'.at = "request" /\ llm'.wants = "draft"
    BY <2>3 DEF Request, NoCall
  <2>. QED BY <1>0, <1>2, <1>6, <2>2, <2>4, <2>5 DEF AnswerInStep
<1>11. CASE Draft
  <2> DEFINE q == Submit(TRUE, Case.gold, Tables \cap Case.gold.reads)
  <2>1. nl.at = "draft" /\ llm.at = "ok" /\ llm' = NoCall
    BY <1>11 DEF Draft
  <2>2. /\ Queue(script, Taken + 2) /\ llm.reply.tables = SelectedTables(Case.gold)
        /\ llm.reply.sql = Case.gold /\ nl.selected = Case.gold.reads
    BY <1>6, <1>8, <2>1 DEF AnswerInStep
  <2>3. ValidDraft(llm.reply.tables)
    BY <1>9, <2>2 DEF ValidDraft
  <2>4. /\ nl' = [nl EXCEPT !.at = "execute", !.calls = CallsAfter, !.last = Case.gold]
        /\ query' = q
    BY <1>11, <2>2, <2>3 DEF Draft, RestrictToTables
  <2>5. nl'.at = "execute" /\ nl'.last = Case.gold /\ nl'.repairs = nl.repairs
    BY <1>4, <2>4 DEF Answer
  <2>6. q.at = "guard" /\ q.sql = Case.gold /\ q.allowed = Tables \cap Case.gold.reads
    BY DEF Submit, NoQuery
  <2>7. llm'.at = "idle"
    BY <2>1 DEF NoCall
  <2>. HIDE DEF q
  <2>. QED BY <1>0, <1>2, <1>6, <2>2, <2>4, <2>5, <2>6, <2>7 DEF AnswerInStep, Healthy
<1>12. CASE ModelFails
  BY <1>6, <1>12 DEF ModelFails, AnswerInStep
<1>13. CASE Repair
  BY <1>6, <1>13 DEF Repair, AnswerInStep, Healthy
<1>14. CASE Return
  <2>1. nl.at = "execute" /\ nl' = [nl EXCEPT !.at = "ok"] /\ UNCHANGED <<llm, query>>
    BY <1>14 DEF Return, llmVars
  <2>2. nl'.at = "ok" /\ nl'.last = nl.last /\ nl'.repairs = nl.repairs
    BY <1>4, <2>1 DEF Answer
  <2>. QED BY <1>0, <1>2, <1>6, <2>1, <2>2 DEF AnswerInStep
<1>. QED BY <1>10, <1>11, <1>12, <1>13, <1>14 DEF AnswerStep

\* A case begins.
LEMMA StartInStep ==
  ASSUME ReplayInv, StartCase
  PROVE  InStep' /\ Logged'
<1> DEFINE q == Submit(FALSE, Case.gold, Tables)
<1>0. /\ ev.at = "next" /\ query' = q /\ ev' = [ev EXCEPT !.at = "gold"]
      /\ UNCHANGED <<script, replay, results, faulty>>
  BY DEF StartCase, llmVars
<1>1. ev'.at = "gold" /\ ev'.case = ev.case
  BY <1>0 DEF ReplayInv, EvalInv, Evaluating
<1>2. Taken' = Taken /\ Case' = Case
  BY <1>1 DEF Taken, Case
<1>3. q.at = "guard" /\ q.sql = Case.gold /\ q.allowed = Tables
  BY DEF Submit, NoQuery
<1>. HIDE DEF q
<1>4. GoldInStep'
  BY <1>0, <1>2, <1>3 DEF GoldInStep, Healthy
<1>5. InStep'
  BY <1>0, <1>1, <1>2, <1>4 DEF ReplayInv, InStep
<1>6. Logged'
  BY <1>0, <1>1 DEF ReplayInv, Logged
<1>. QED BY <1>5, <1>6

\* The question of a case is put to the model.
LEMMA AskInStep ==
  ASSUME ReplayInv, GoldDone
  PROVE  InStep' /\ Logged'
<1>0. /\ ev.at = "gold" /\ Ask(Case.question) /\ UNCHANGED <<script, replay, results, faulty>>
      /\ ev' = [ev EXCEPT !.at = "answer", !.expected = Case.gold.result]
  BY DEF GoldDone, Ask
<1>1. ev'.at = "answer" /\ ev'.case = ev.case /\ ev'.expected = Case.gold.result
  BY <1>0 DEF ReplayInv, EvalInv, Evaluating
<1>2. Taken' = Taken /\ Case' = Case
  BY <1>1 DEF Taken, Case
<1>3. InStep'
  <2>1. SUFFICES ASSUME replay, ~faulty, Accepted(ev.case - 1), InspectQuestion(Case.question) = "none"
                 PROVE  AnswerInStep'
    BY <1>0, <1>1, <1>2 DEF InStep
  <2>2. Queue(script, Taken)
    BY <1>0, <2>1 DEF ReplayInv, InStep
  <2>3. nl' = [NoAnswer EXCEPT !.at = "select"] /\ llm' = Request("selection")
    BY <1>0, <2>1 DEF Ask
  <2>4. nl'.at = "select" /\ nl'.repairs = 0
    BY <2>3 DEF NoAnswer
  <2>5. llm'.at = "request" /\ llm'.wants = "selection"
    BY <2>3 DEF Request, NoCall
  <2>. QED BY <1>0, <1>1, <1>2, <2>2, <2>4, <2>5 DEF AnswerInStep
<1>4. Logged'
  BY <1>0, <1>1 DEF ReplayInv, Logged
<1>. QED BY <1>3, <1>4

\* A case ends and its result is kept.
LEMMA EndInStep ==
  ASSUME ReplayInv, ev.at \in {"gold", "answer"}, NEW result \in Outcome, EndCase(result),
         replay /\ ~faulty /\ Accepted(ev.case) => result.passed /\ Queue(script, Taken + 2)
  PROVE  InStep' /\ Logged'
<1>0. /\ results' = Append(results, result) /\ UNCHANGED <<script, replay, faulty>>
      /\ ev' = [ev EXCEPT !.at = "next", !.case = ev.case + 1, !.expected = "none"]
  BY DEF EndCase, llmVars
<1>1. ev'.at = "next" /\ ev'.case = ev.case + 1 /\ ev.case \in Nat /\ ev.case <= Len(Cases) /\ Len(Cases) \in Nat
  BY <1>0, EvaluationAssumption DEF ReplayInv, EvalInv, Evaluating, Flow
<1>2. Taken' = Taken + 2 /\ ev'.case - 1 = ev.case
  BY <1>1 DEF Taken
<1>3. InStep'
  BY <1>0, <1>1, <1>2 DEF InStep
<1>4. results \in Seq(Outcome) /\ Len(results) = ev.case - 1
  BY DEF ReplayInv, Logged
<1>5. /\ results' \in Seq(Outcome) /\ Len(results') = ev.case
      /\ \A i \in 1..(ev.case - 1) : results'[i] = results[i]
      /\ results'[ev.case] = result
  BY <1>0, <1>1, <1>4
<1>6. ASSUME replay, ~faulty, NEW i \in DOMAIN Cases, i < ev.case + 1, Accepted(i)
      PROVE  results'[i].passed
  <2>0. i \in Nat /\ i >= 1
    BY EvaluationAssumption
  <2>1. CASE i = ev.case
    BY <1>5, <1>6, <2>1
  <2>2. CASE i < ev.case
    <3>1. i \in 1..(ev.case - 1)
      BY <1>1, <2>0, <2>2
    <3>2. results[i].passed
      BY <1>6, <2>2 DEF ReplayInv, Logged
    <3>. QED BY <1>5, <3>1, <3>2
  <2>. QED BY <1>1, <1>6, <2>0, <2>1, <2>2
<1>7. Logged'
  BY <1>0, <1>1, <1>2, <1>5, <1>6 DEF Logged
<1>. QED BY <1>3, <1>7

\* The first n questions are accepted when the first n + 1 are.
LEMMA AcceptedBefore ==
  ASSUME NEW n \in Nat, n >= 1, Accepted(n)
  PROVE  Accepted(n - 1) /\ InspectQuestion(Cases[n].question) = "none"
BY DEF Accepted

\* A case that fails was not a healthy replay, or its question was refused.
LEMMA FailsInStep ==
  ASSUME ReplayInv, GoldFails \/ AnswerFails
  PROVE  InStep' /\ Logged'
<1>0. 0 \in 0..MaxRepairs
  BY NL2SQLAssumption
<1>1. ASSUME NEW category \in {"dataset", "model", "schema_selection", "execution", "safety", "unknown"}
      PROVE  FailedCase(category) \in Outcome
  BY <1>0 DEF FailedCase, Outcome
<1>2. Category(nl.code) \in {"model", "schema_selection", "execution", "safety", "unknown"}
  BY DEF Category
<1>3. ev.at \in {"gold", "answer"}
  BY DEF GoldFails, AnswerFails
<1>4. ev.case \in Nat /\ ev.case >= 1
  BY EvaluationAssumption DEF ReplayInv, EvalInv, Evaluating
<1>5. ASSUME replay, ~faulty, Accepted(ev.case) PROVE FALSE
  <2>1. Accepted(ev.case - 1) /\ InspectQuestion(Case.question) = "none"
    BY <1>4, <1>5, AcceptedBefore DEF Case
  <2>2. CASE GoldFails
    BY <1>5, <2>1, <2>2 DEF GoldFails, ReplayInv, InStep, GoldInStep, Healthy
  <2>3. CASE AnswerFails
    BY <1>5, <2>1, <2>3 DEF AnswerFails, ReplayInv, InStep, AnswerInStep
  <2>. QED BY <2>2, <2>3
<1>6. CASE GoldFails
  <2>1. EndCase(FailedCase("dataset")) /\ FailedCase("dataset") \in Outcome
    BY <1>1, <1>6 DEF GoldFails
  <2>. QED BY <1>3, <1>5, <2>1, EndInStep
<1>7. CASE AnswerFails
  <2>1. EndCase(FailedCase(Category(nl.code))) /\ FailedCase(Category(nl.code)) \in Outcome
    BY <1>1, <1>2, <1>7 DEF AnswerFails
  <2>. QED BY <1>3, <1>5, <2>1, EndInStep
<1>. QED BY <1>6, <1>7

\* An answer is compared with what its case expects.
LEMMA DoneInStep ==
  ASSUME ReplayInv, AnswerDone
  PROVE  InStep' /\ Logged'
<1> DEFINE r == [kind |-> "nl2sql", passed |-> Correct, safe |-> TRUE,
                 first |-> Correct /\ nl.repairs = 0, repairs |-> nl.repairs,
                 category |-> IF Correct THEN "none" ELSE "result_mismatch"]
<1>1. ev.at = "answer" /\ nl.at = "ok" /\ EndCase(r)
  BY DEF AnswerDone
<1>2. nl.repairs \in 0..MaxRepairs
  BY DEF ReplayInv, EvalInv, Answer
<1>3. Correct \in BOOLEAN
  BY DEF Correct
<1>4. r \in Outcome /\ r.passed = Correct
  BY <1>2, <1>3 DEF Outcome
<1>. HIDE DEF r
<1>5. ev.case \in Nat /\ ev.case >= 1
  BY EvaluationAssumption DEF ReplayInv, EvalInv, Evaluating
<1>6. ASSUME replay, ~faulty, Accepted(ev.case) PROVE r.passed /\ Queue(script, Taken + 2)
  <2>1. Accepted(ev.case - 1) /\ InspectQuestion(Case.question) = "none"
    BY <1>5, <1>6, AcceptedBefore DEF Case
  <2>2. AnswerInStep
    BY <1>1, <1>6, <2>1 DEF ReplayInv, InStep
  <2>3. Queue(script, Taken + 2) /\ nl.last = Case.gold /\ ev.expected = Case.gold.result
    BY <1>1, <2>2 DEF AnswerInStep
  <2>. QED BY <1>4, <2>3 DEF Correct
<1>. QED BY <1>1, <1>4, <1>6, EndInStep

\* The report is written: the results of the cases stay in their places.
LEMMA ReportInStep ==
  ASSUME ReplayInv, Report
  PROVE  InStep' /\ Logged'
<1> DEFINE d == [i \in DOMAIN Dangerous |-> DangerousResult(Dangerous[i])]
<1>0. /\ ev.at = "next" /\ ev.case > Len(Cases) /\ results' = results \o d
      /\ ev' = [ev EXCEPT !.at = "done"] /\ UNCHANGED <<replay, faulty>>
  BY DEF Report, nlVars, llmVars
<1>1. ev'.at = "done" /\ ev'.case = ev.case /\ ev.case \in Nat
  BY <1>0, EvaluationAssumption DEF ReplayInv, EvalInv, Evaluating
<1>2. InStep'
  BY <1>1 DEF InStep
<1>3. 0 \in 0..MaxRepairs
  BY NL2SQLAssumption
<1>4. \A c : DangerousResult(c) \in Outcome
  BY <1>3 DEF DangerousResult, Outcome
<1>5. d \in Seq(Outcome)
  <2>1. Len(Dangerous) \in Nat /\ DOMAIN Dangerous = 1..Len(Dangerous)
    BY EvaluationAssumption
  <2>2. d \in [1..Len(Dangerous) -> Outcome]
    BY <1>4, <2>1
  <2>. QED BY <2>1, <2>2
<1>. HIDE DEF d
<1>6. results \in Seq(Outcome) /\ Len(results) = ev.case - 1
  BY <1>0 DEF ReplayInv, Logged
<1>7. /\ results' \in Seq(Outcome) /\ Len(results') = Len(results) + Len(d)
      /\ \A i \in 1..Len(results) : results'[i] = results[i]
  <2>1. /\ results \o d \in Seq(Outcome) /\ Len(results \o d) = Len(results) + Len(d)
        /\ \A i \in 1..(Len(results) + Len(d)) :
             (results \o d)[i] = IF i <= Len(results) THEN results[i] ELSE d[i - Len(results)]
    BY <1>5, <1>6, ConcatProperties
  <2>2. Len(results) \in Nat /\ Len(d) \in Nat
    BY <1>5, <1>6
  <2>3. ASSUME NEW i \in 1..Len(results)
        PROVE  results'[i] = results[i]
    <3>1. i \in 1..(Len(results) + Len(d)) /\ i <= Len(results)
      BY <2>2
    <3>. QED BY <1>0, <2>1, <3>1
  <2>. QED BY <1>0, <2>1, <2>3
<1>8. Len(results') >= Len(Cases) /\ DOMAIN Cases \subseteq 1..Len(results)
  BY <1>0, <1>1, <1>5, <1>6, <1>7, EvaluationAssumption
<1>9. Logged'
  BY <1>0, <1>1, <1>7, <1>8 DEF ReplayInv, Logged
<1>. QED BY <1>2, <1>9

\* A replay passes every case up to the first question the guard refuses, unless a
\* database or a sink fails: for every data set whose gold statements can be executed,
\* the queue of scripted answers stays in step with the cases (scripted_gold_replay).
THEOREM ReplaysPass ==
  ASSUME Replayable
  PROVE  Spec => []HealthyReplayPasses
<1>1. ReplayInv /\ [Next]_vars => ReplayInv'
  <2> SUFFICES ASSUME ReplayInv, [Next]_vars PROVE ReplayInv'
    OBVIOUS
  <2>1. EvalInv'
    BY EvalNext DEF ReplayInv
  <2>2. replay' = replay
    BY DEF Next, ModelStep, Generate, Complete, Replay, QueryStep, Fault, AnswerStep, Select, Draft, ModelFails,
           Repair, Return, StartCase, GoldDone, Ask, GoldFails, AnswerFails, AnswerDone, EndCase, Report, vars,
           nlVars, llmVars
  <2>3. faulty' \in BOOLEAN
    BY DEF ReplayInv, Next, ModelStep, QueryStep, Fault, StartCase, GoldDone, GoldFails, AnswerFails, AnswerDone,
           EndCase, Report, vars, evVars
  <2>4. InStep' /\ Logged'
    <3>1. CASE UNCHANGED vars
      BY <3>1 DEF vars, nlVars, llmVars, evVars, ReplayInv, InStep, Logged, GoldInStep, AnswerInStep, Taken, Case
    <3>. QED BY <3>1, Replayable, ModelInStep, QueryInStep, FaultInStep, AnswerStaysInStep, StartInStep, AskInStep,
                FailsInStep, DoneInStep, ReportInStep DEF Next
  <2>. QED BY <2>1, <2>2, <2>3, <2>4 DEF ReplayInv
<1>2. ReplayInv => HealthyReplayPasses
  <2> SUFFICES ASSUME ReplayInv, ev.at = "done", replay, ~faulty, NEW i \in DOMAIN Cases,
                      \A j \in 1..i : InspectQuestion(Cases[j].question) = "none"
               PROVE  results[i].passed
    BY DEF HealthyReplayPasses
  <2>1. Accepted(i)
    BY DEF Accepted
  <2>2. ev.case > Len(Cases) /\ ev.case \in Nat /\ i \in Nat /\ i <= Len(Cases) /\ Len(Cases) \in Nat
    BY EvaluationAssumption DEF ReplayInv, EvalInv, Evaluating, Logged
  <2>3. i < ev.case
    BY <2>2
  <2>. QED BY <2>1, <2>3 DEF ReplayInv, Logged
<1>. QED BY <1>1, <1>2, ReplayInit, PTL DEF Spec

----------------------------------------------------------------------------
(* The report *)

\* The members of I that fall into class c, and into any class of K.
InClass(I, class, c) == {i \in I : class[i] = c}
InAny(I, class, K) == {i \in I : class[i] \in K}

\* The members of a set that fall into a class, for every class of a set, add up to the
\* members that fall into any of them.
LEMMA ClassesAddUp ==
  ASSUME NEW I, IsFiniteSet(I), NEW class, NEW K, IsFiniteSet(K), NEW v,
         \A c \in K : v[c] = Cardinality(InClass(I, class, c))
  PROVE  Sum(v, K) = Cardinality(InAny(I, class, K))
<1> DEFINE In(k) == InAny(I, class, k)
           Of(c) == InClass(I, class, c)
           T == {n \in Nat : \E k \in SUBSET K : Cardinality(k) = n /\ Sum(v, k) # Cardinality(In(k))}
<1>0. \A k \in SUBSET K : IsFiniteSet(k) /\ Cardinality(k) \in Nat
  BY FS_Subset, FS_CardinalityType
<1>a. \A k : IsFiniteSet(In(k)) /\ Cardinality(In(k)) \in Nat
  <2>1. \A k : In(k) \in SUBSET I
    BY DEF InAny
  <2>. HIDE DEF In
  <2>. QED BY <2>1, FS_Subset, FS_CardinalityType
<1>b. \A c : IsFiniteSet(Of(c)) /\ Cardinality(Of(c)) \in Nat
  <2>1. \A c : Of(c) \in SUBSET I
    BY DEF InClass
  <2>. HIDE DEF Of
  <2>. QED BY <2>1, FS_Subset, FS_CardinalityType
<1>1. T = {}
  <2>1. SUFFICES ASSUME T # {} PROVE FALSE
    OBVIOUS
  <2>2. PICK n \in T : \A m \in T : ~(m < n)
    BY <2>1, Least
  <2>3. PICK k \in SUBSET K : Cardinality(k) = n /\ Sum(v, k) # Cardinality(In(k))
    BY <2>2
  <2>4. CASE k = {}
    <3>1. Sum(v, k) = 0
      BY <1>0, <2>4, SumPick
    <3>2. In(k) = {}
      BY <2>4 DEF InAny
    <3>. QED BY <2>3, <3>1, <3>2, FS_EmptySet
  <2>5. CASE k # {}
    <3>1. PICK c \in k : TRUE
      BY <2>5
    <3> DEFINE r == k \ {c}
    <3>2. IsFiniteSet(k) /\ c \in K
      BY <1>0
    <3>3. Cardinality(r) \in Nat /\ Cardinality(r) < n
      <4>1. Cardinality(k) \in Nat /\ Cardinality(k \ {c}) \in Nat /\ Cardinality(k \ {c}) = Cardinality(k) - 1
        BY <3>1, <3>2, Without
      <4>. QED BY <2>3, <4>1
    <3>4. Sum(v, r) = Cardinality(In(r))
      BY <2>2, <3>3
    <3>5. Sum(v, k) = v[c] + Sum(v, r)
      <4>1. ASSUME NEW x \in k PROVE v[x] \in Int
        <5>1. v[x] = Cardinality(Of(x)) /\ Cardinality(Of(x)) \in Nat
          BY <1>b
        <5>. QED BY <5>1
      <4>. QED BY <3>2, <4>1, SumRemove
    <3>6. In(k) = In(r) \cup Of(c) /\ In(r) \cap Of(c) = {}
      BY DEF InAny, InClass
    <3>7. v[c] = Cardinality(Of(c))
      BY <3>2
    <3>. HIDE DEF In, Of, r
    <3>8. Cardinality(In(r) \cup Of(c)) = Cardinality(In(r)) + Cardinality(Of(c)) - Cardinality(In(r) \cap Of(c))
      BY <1>a, <1>b, FS_Union
    <3>9. Cardinality(In(r) \cap Of(c)) = 0
      BY <3>6, FS_EmptySet
    <3>10. Cardinality(In(r)) \in Nat /\ Cardinality(Of(c)) \in Nat
      BY <1>a, <1>b
    <3>11. Cardinality(In(k)) = Cardinality(In(r)) + Cardinality(Of(c))
      BY <3>6, <3>8, <3>9, <3>10
    <3>. QED BY <2>3, <3>4, <3>5, <3>7, <3>10, <3>11
  <2>. QED BY <2>4, <2>5
<1>2. Cardinality(K) \notin T
  BY <1>1
<1>. QED BY <1>0, <1>2

\* A result that counts as passed has no failure category, only a result that passed
\* can have passed at the first attempt, and an answer that passed was safe.
Sensible(r) ==
  /\ r.passed <=> r.category = "none"
  /\ r.first => r.passed
  /\ r.kind = "nl2sql" /\ r.passed => r.safe

\* The results, one for every case that is over, and what the report is made of.
Filed ==
  /\ results \in Seq(Outcome)
  /\ \A i \in 1..Len(results) : Sensible(results[i])
  /\ \A i \in 1..Len(results) : i <= Len(Cases) => results[i].kind = "nl2sql"
  /\ ev.at # "done" => Len(results) = ev.case - 1
  /\ ev.at = "done" => Len(results) = Len(Cases) + Len(Dangerous) /\ report = BuildMetrics(results)

FiledInv == EvalInv /\ Filed

\* The counts of a report of sensible results add up.
LEMMA MetricsAddUp ==
  ASSUME NEW rs \in Seq(Outcome), \A i \in 1..Len(rs) : Sensible(rs[i]),
         NEW m, m = BuildMetrics(rs)
  PROVE  /\ m.cases = Len(rs)
         /\ Sum(m.failures, DOMAIN m.failures) = m.cases - m.passed
         /\ m.first <= m.passed
<1> DEFINE I == DOMAIN rs
           class == [i \in I |-> rs[i].category]
           Bad == {i \in I : ~rs[i].passed}
           Good == {i \in I : rs[i].passed}
           Quick == {i \in I : rs[i].first}
           K == {rs[i].category : i \in Bad}
           v == [c \in K |-> Cardinality({i \in I : rs[i].category = c})]
<1>0. I = 1..Len(rs) /\ Len(rs) \in Nat /\ \A i \in I : rs[i] \in Outcome /\ Sensible(rs[i])
  BY ElementOfSeq, LenProperties
<1>1. m.cases = Len(rs) /\ m.passed = Cardinality(Good) /\ m.first = Cardinality(Quick) /\ m.failures = v
  BY DEF BuildMetrics, Where
<1>2. IsFiniteSet(I) /\ Cardinality(I) = Len(rs)
  <2>1. PICK n \in Nat : n = Len(rs)
    BY <1>0
  <2>2. IsFiniteSet(1..n) /\ Cardinality(1..n) = IF 1 > n THEN 0 ELSE n - 1 + 1
    BY FS_Interval
  <2>3. Cardinality(1..n) = n
    BY <2>2
  <2>. QED BY <1>0, <2>1, <2>2, <2>3
<1>3. IsFiniteSet(Bad) /\ IsFiniteSet(Good) /\ IsFiniteSet(Quick)
  <2>1. Bad \in SUBSET I /\ Good \in SUBSET I /\ Quick \in SUBSET I
    OBVIOUS
  <2>. HIDE DEF Bad, Good, Quick, I
  <2>. QED BY <1>2, <2>1, FS_Subset
<1>4. IsFiniteSet(K)
  <2> DEFINE f == [i \in Bad |-> rs[i].category]
  <2>1. f \in Surjection(Bad, K)
    BY DEF Surjection
  <2>. QED BY <1>3, <2>1, FS_Surjection
<1>5. InAny(I, class, K) = Bad
  <2>1. ASSUME NEW i \in I, class[i] \in K PROVE i \in Bad
    <3>1. PICK j \in Bad : rs[i].category = rs[j].category
      BY <2>1
    <3>2. rs[j].category # "none"
      BY <1>0 DEF Sensible
    <3>. QED BY <1>0, <3>1, <3>2 DEF Sensible
  <2>. QED BY <2>1 DEF InAny
<1>6. \A c \in K : v[c] = Cardinality(InClass(I, class, c))
  <2>1. \A c : {i \in I : rs[i].category = c} = InClass(I, class, c)
    BY DEF InClass
  <2>. QED BY <2>1
<1>7. Sum(v, K) = Cardinality(Bad)
  <2>. HIDE DEF I, class, K, v, Bad
  <2>. QED BY <1>2, <1>4, <1>5, <1>6, ClassesAddUp
<1>8. Cardinality(Bad) + Cardinality(Good) = Len(rs) /\ Cardinality(Good) \in Nat /\ Cardinality(Bad) \in Nat
  <2>1. Bad \cup Good = I /\ Bad \cap Good = {}
    OBVIOUS
  <2>. HIDE DEF Bad, Good, I
  <2>2. Cardinality(Bad) \in Nat /\ Cardinality(Good) \in Nat
    BY <1>3, FS_CardinalityType
  <2>3. Cardinality(Bad \cup Good) = Cardinality(Bad) + Cardinality(Good) - Cardinality(Bad \cap Good)
    BY <1>3, FS_Union
  <2>4. Cardinality(Bad \cap Good) = 0
    BY <2>1, FS_EmptySet
  <2>5. Cardinality(Bad) + Cardinality(Good) = Cardinality(I)
    <3>1. PICK a \in Nat, b \in Nat : a = Cardinality(Bad) /\ b = Cardinality(Good)
      BY <2>2
    <3>2. a + b - 0 = a + b
      OBVIOUS
    <3>. QED BY <2>1, <2>3, <2>4, <3>1, <3>2
  <2>. QED BY <1>2, <2>2, <2>5
<1>9. Cardinality(Quick) <= Cardinality(Good)
  <2>1. Quick \in SUBSET Good
    BY <1>0 DEF Sensible
  <2>. HIDE DEF Quick, Good
  <2>. QED BY <1>3, <2>1, FS_Subset
<1>10. DOMAIN m.failures = K
  BY <1>1
<1>11. Sum(m.failures, DOMAIN m.failures) = m.cases - m.passed
  <2>. HIDE DEF v, K, Good, Bad
  <2>. QED BY <1>1, <1>7, <1>8, <1>10
<1>. QED BY <1>1, <1>9, <1>11

\* A case ends with a sensible result.
LEMMA EndFiles ==
  ASSUME FiledInv, ev.at \in {"gold", "answer"}, NEW result \in Outcome, EndCase(result),
         Sensible(result), result.kind = "nl2sql"
  PROVE  Filed'
<1>0. /\ results' = Append(results, result)
      /\ ev' = [ev EXCEPT !.at = "next", !.case = ev.case + 1, !.expected = "none"]
  BY DEF EndCase
<1>1. ev'.at = "next" /\ ev'.case = ev.case + 1 /\ ev.case \in Nat
  BY <1>0, EvaluationAssumption DEF FiledInv, EvalInv, Evaluating
<1>2. results \in Seq(Outcome) /\ Len(results) = ev.case - 1
  BY DEF FiledInv, Filed
<1>3. /\ results' \in Seq(Outcome) /\ Len(results') = ev.case
      /\ \A i \in 1..(ev.case - 1) : results'[i] = results[i]
      /\ results'[ev.case] = result
  BY <1>0, <1>1, <1>2
<1>4. ASSUME NEW i \in 1..Len(results')
      PROVE  Sensible(results'[i]) /\ (i <= Len(Cases) => results'[i].kind = "nl2sql")
  <2>1. CASE i = ev.case
    BY <1>3, <2>1
  <2>2. CASE i \in 1..(ev.case - 1)
    BY <1>2, <1>3, <2>2 DEF FiledInv, Filed
  <2>. QED BY <1>1, <1>3, <2>1, <2>2
<1>. QED BY <1>1, <1>3, <1>4 DEF Filed

\* The report is made of all the results.
LEMMA ReportFiles ==
  ASSUME FiledInv, Report
  PROVE  Filed'
<1> DEFINE d == [i \in DOMAIN Dangerous |-> DangerousResult(Dangerous[i])]
<1>0. /\ ev.at = "next" /\ ev.case > Len(Cases) /\ results' = results \o d
      /\ report' = BuildMetrics(results') /\ ev' = [ev EXCEPT !.at = "done"]
  BY DEF Report
<1>1. ev'.at = "done" /\ ev.case = Len(Cases) + 1 /\ Len(Cases) \in Nat
  BY <1>0, EvaluationAssumption DEF FiledInv, EvalInv, Evaluating
<1>2. 0 \in 0..MaxRepairs
  BY NL2SQLAssumption
<1>3. \A c : DangerousResult(c) \in Outcome /\ Sensible(DangerousResult(c))
  BY <1>2 DEF DangerousResult, Outcome, Sensible
<1>4. Len(Dangerous) \in Nat /\ DOMAIN Dangerous = 1..Len(Dangerous)
  BY EvaluationAssumption
<1>5. d \in [1..Len(Dangerous) -> Outcome]
  BY <1>3, <1>4
<1>6. d \in Seq(Outcome) /\ Len(d) = Len(Dangerous) /\ \A i \in 1..Len(Dangerous) : Sensible(d[i])
  BY <1>3, <1>4, <1>5
<1>. HIDE DEF d
<1>7. results \in Seq(Outcome) /\ Len(results) = Len(Cases)
  BY <1>0, <1>1 DEF FiledInv, Filed
<1>8. /\ results' \in Seq(Outcome) /\ Len(results') = Len(Cases) + Len(Dangerous)
      /\ \A i \in 1..(Len(Cases) + Len(Dangerous)) :
           results'[i] = IF i <= Len(Cases) THEN results[i] ELSE d[i - Len(Cases)]
  BY <1>0, <1>6, <1>7, ConcatProperties
<1>9. ASSUME NEW i \in 1..Len(results')
      PROVE  Sensible(results'[i]) /\ (i <= Len(Cases) => results'[i].kind = "nl2sql")
  <2>1. CASE i <= Len(Cases)
    <3>1. i \in 1..Len(results) /\ results'[i] = results[i]
      BY <1>1, <1>4, <1>7, <1>8, <2>1
    <3>. QED BY <3>1, <2>1 DEF FiledInv, Filed
  <2>2. CASE ~(i <= Len(Cases))
    <3>1. i - Len(Cases) \in 1..Len(Dangerous) /\ results'[i] = d[i - Len(Cases)]
      BY <1>1, <1>4, <1>8, <2>2
    <3>. QED BY <1>6, <2>2, <3>1
  <2>. QED BY <2>1, <2>2
<1>. QED BY <1>0, <1>1, <1>8, <1>9 DEF Filed

\* Every step of an evaluation keeps the results in order.
LEMMA NextFiles == FiledInv /\ [Next]_vars => Filed'
<1> SUFFICES ASSUME FiledInv, [Next]_vars PROVE Filed'
  OBVIOUS
<1>0. 0 \in 0..MaxRepairs
  BY NL2SQLAssumption
<1>1. ASSUME NEW c \in {"dataset", "model", "schema_selection", "execution", "safety", "unknown"}
      PROVE  FailedCase(c) \in Outcome /\ Sensible(FailedCase(c)) /\ FailedCase(c).kind = "nl2sql"
  BY <1>0 DEF FailedCase, Outcome, Sensible
<1>2. CASE GoldFails
  <2>1. ev.at = "gold" /\ EndCase(FailedCase("dataset"))
    BY <1>2 DEF GoldFails
  <2>. QED BY <1>1, <2>1, EndFiles
<1>3. CASE AnswerFails
  <2>1. ev.at = "answer" /\ EndCase(FailedCase(Category(nl.code)))
    BY <1>3 DEF AnswerFails
  <2>2. Category(nl.code) \in {"model", "schema_selection", "execution", "safety", "unknown"}
    BY DEF Category
  <2>. QED BY <1>1, <2>1, <2>2, EndFiles
<1>4. CASE AnswerDone
  <2> DEFINE r == [kind |-> "nl2sql", passed |-> Correct, safe |-> TRUE,
                   first |-> Correct /\ nl.repairs = 0, repairs |-> nl.repairs,
                   category |-> IF Correct THEN "none" ELSE "result_mismatch"]
  <2>1. ev.at = "answer" /\ EndCase(r)
    BY <1>4 DEF AnswerDone
  <2>2. nl.repairs \in 0..MaxRepairs
    BY DEF FiledInv, EvalInv, Answer
  <2>3. Correct \in BOOLEAN
    BY DEF Correct
  <2>4. r \in Outcome
    BY <2>2, <2>3 DEF Outcome
  <2>5. Sensible(r) /\ r.kind = "nl2sql"
    BY <2>3 DEF Sensible
  <2>. HIDE DEF r
  <2>. QED BY <2>1, <2>4, <2>5, EndFiles
<1>5. CASE Report
  BY <1>5, ReportFiles
<1>6. ASSUME UNCHANGED <<results, report>>, ev'.case = ev.case, ev.at # "done", ev'.at # "done"
      PROVE  Filed'
  BY <1>6 DEF FiledInv, Filed
<1>7. CASE StartCase \/ GoldDone
  <2>1. /\ UNCHANGED <<results, report>> /\ ev.at # "done"
        /\ \/ ev' = [ev EXCEPT !.at = "gold"]
           \/ ev' = [ev EXCEPT !.at = "answer", !.expected = Case.gold.result]
    BY <1>7 DEF StartCase, GoldDone
  <2>2. ev'.case = ev.case /\ ev'.at # "done"
    BY <2>1 DEF FiledInv, EvalInv, Evaluating
  <2>. QED BY <1>6, <2>1, <2>2
<1>8. ASSUME UNCHANGED <<results, report, ev>>
      PROVE  Filed'
  BY <1>8 DEF FiledInv, Filed
<1>9. CASE ModelStep \/ QueryStep \/ Fault \/ (AnswerStep /\ UNCHANGED evVars) \/ UNCHANGED vars
  BY <1>8, <1>9 DEF ModelStep, QueryStep, Fault, evVars, vars
<1>. QED BY <1>2, <1>3, <1>4, <1>5, <1>7, <1>9 DEF Next

\* For every data set, a finished report accounts for every case: one result per case in
\* order, every case that did not pass counted once by its category, and none passed
\* that was not executed safely (build_metrics).
THEOREM ReportsAddUp == Spec => []ReportAddsUp
<1>1. Init => FiledInv
  <2> SUFFICES ASSUME Init PROVE Filed
    BY EvalInit DEF FiledInv
  <2>1. results = <<>> /\ ev.at = "next" /\ ev.case = 1
    BY DEF Init
  <2>2. results \in Seq(Outcome) /\ Len(results) = 0
    BY <2>1
  <2>. QED BY <2>1, <2>2 DEF Filed
<1>2. FiledInv /\ [Next]_vars => FiledInv'
  BY EvalNext, NextFiles DEF FiledInv
<1>3. FiledInv => ReportAddsUp
  <2> SUFFICES ASSUME FiledInv, ev.at = "done" PROVE ReportAddsUp
    BY DEF ReportAddsUp
  <2>1. /\ results \in Seq(Outcome) /\ Len(results) = Len(Cases) + Len(Dangerous)
        /\ report = BuildMetrics(results) /\ \A i \in 1..Len(results) : Sensible(results[i])
        /\ \A i \in 1..Len(results) : i <= Len(Cases) => results[i].kind = "nl2sql"
    BY DEF FiledInv, Filed
  <2>2. /\ report.cases = Len(results)
        /\ Sum(report.failures, DOMAIN report.failures) = report.cases - report.passed
        /\ report.first <= report.passed
    BY <2>1, MetricsAddUp
  <2>4. MapThenSumSet(LAMBDA c : report.failures[c], DOMAIN report.failures) = report.cases - report.passed
    BY <2>2 DEF Sum
  <2>3. ASSUME NEW i \in DOMAIN Cases, results[i].passed PROVE results[i].safe
    <3>1. i \in 1..Len(results) /\ i <= Len(Cases)
      BY <2>1, EvaluationAssumption
    <3>. QED BY <2>1, <2>3, <3>1 DEF Sensible
  <2>. QED BY <2>1, <2>2, <2>3, <2>4 DEF ReportAddsUp
<1>. QED BY <1>1, <1>2, <1>3, PTL DEF Spec
=============================================================================
