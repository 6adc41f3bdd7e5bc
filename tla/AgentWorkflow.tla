---------------------------- MODULE AgentWorkflow ----------------------------
(***************************************************************************)
(* One analysis run inside the agent service: the LangGraph workflow node  *)
(* by node, its checkpoints, and the HTTP calls start and resume that      *)
(* invoke it, possibly several at a time for the same run.                 *)
(*                                                                         *)
(* A call that invokes the graph works on its own copy of the state and    *)
(* writes a checkpoint after every node; whoever reads the run sees the    *)
(* checkpoint written last.  A generated statement is a number, so that    *)
(* every property can say which statement it is about.                     *)
(***************************************************************************)
EXTENDS Naturals, FiniteSets

CONSTANTS
  Calls,        \* HTTP requests alive at once
  MaxRepairs,   \* max_repairs of build_agent_graph
  MaxCalls,     \* bound: requests in all
  MaxFaults     \* bound: node failures and crashes in all

ASSUME WorkflowAssumption ==
  IsFiniteSet(Calls) /\ MaxRepairs \in 0..2 /\ MaxCalls \in Nat /\ MaxFaults \in Nat

VARIABLES
  question,    \* what the question guard and classify make of the question
  exclusive,   \* whether the platform sends one request at a time (its lease and its
               \* row lock do, until a client gives up on a request that is still alive)
  ckpt,        \* the latest checkpoint of the run
  call,        \* the requests
  head,        \* requests for which ckpt is the checkpoint they work from
  generated,   \* statements generated so far
  log,         \* what happened to each statement
  executions,  \* how often each was sent to the business database
  calls,       \* requests so far
  faults       \* faults so far

environment == <<question, exclusive>>
history     == <<generated, log, executions>>
vars == <<environment, ckpt, call, head, history, calls, faults>>

Nodes == {"classify", "retrieve_metrics", "select_schema", "generate_sql", "guard_sql",
          "request_approval", "execute_sql", "verify", "compose"}
Decisions == {"approved", "rejected"}
Risks     == {"none", "blocked", "repair", "approval", "safe"}
Errors    == {"none", "QUESTION", "EVIDENCE", "GUARD", "COLUMNS", "APPROVAL_REJECTED"}
Final     == {"COMPLETED", "FAILED", "REJECTED"}
\* "conflict": HTTP 409; "error": HTTP 500
Replies   == Final \cup {"none", "PLANNING", "WAITING_APPROVAL", "conflict", "error"}

Statements == 1..(MaxCalls * (MaxRepairs + 1))
\* "safe": the guard let it pass; "shown": a resume found it waiting for a decision;
\* "approved": request_approval received "approved" for it; "verified": its columns
\* are the expected ones.
Marks == {"safe", "shown", "approved", "verified"}

\* AgentState, reduced to what routes the graph or decides the outcome: sql is the
\* last statement generated, guarded the one guarded_query holds, rows the one whose
\* result the state holds (0: none).
Values == [intent: {"none", "knowledge", "hybrid"}, risk: Risks, attempts: 0..MaxRepairs + 1,
           sql: Statements \cup {0}, guarded: Statements \cup {0}, rows: Statements \cup {0},
           decision: Decisions \cup {"none"}, error: Errors, answer: BOOLEAN]

Call == [pc: {"idle", "invoke", "resume", "node", "pause"}, op: {"start", "resume"},
         node: Nodes \cup {"none"}, vals: Values, decision: Decisions \cup {"none"},
         reply: Replies]

NoValues == [intent |-> "none", risk |-> "none", attempts |-> 0, sql |-> 0, guarded |-> 0,
             rows |-> 0, decision |-> "none", error |-> "none", answer |-> FALSE]
NoCheckpoint == [next |-> "none", vals |-> NoValues, error |-> FALSE, interrupted |-> FALSE]
NoCall == [pc |-> "idle", op |-> "start", node |-> "none", vals |-> NoValues,
           decision |-> "none", reply |-> "none"]

TypeOK ==
  /\ question \in {"blocked", "knowledge", "hybrid"}
  /\ exclusive \in BOOLEAN
  /\ ckpt \in [next: Nodes \cup {"none", "END"}, vals: Values, error: BOOLEAN,
               interrupted: BOOLEAN]
  /\ call \in [Calls -> Call]
  /\ head \subseteq Calls
  /\ generated \in Statements \cup {0}
  /\ log \in [Statements -> SUBSET Marks]
  /\ executions \in [Statements -> 0..MaxCalls]
  /\ calls \in 0..MaxCalls
  /\ faults \in 0..MaxFaults

Init ==
  /\ question \in {"blocked", "knowledge", "hybrid"}
  /\ exclusive \in BOOLEAN
  /\ ckpt = NoCheckpoint
  /\ call = [c \in Calls |-> NoCall]
  /\ head = {}
  /\ generated = 0
  /\ log = [s \in Statements |-> {}]
  /\ executions = [s \in Statements |-> 0]
  /\ calls = 0
  /\ faults = 0

Mark(s, m) == log' = [log EXCEPT ![s] = @ \cup {m}]

----------------------------------------------------------------------------
(* Answers *)

\* _status
Status(v, interrupted) ==
  IF interrupted THEN "WAITING_APPROVAL"
  ELSE IF v.error = "APPROVAL_REJECTED" \/ v.risk = "blocked" THEN "REJECTED"
  ELSE IF v.error # "none" THEN "FAILED"
  ELSE IF v.answer THEN "COMPLETED"
  ELSE "PLANNING"

\* inspect: the error of a failed task counts like one of the state.
Inspect == IF ckpt.error /\ Status(ckpt.vals, ckpt.interrupted) \notin {"WAITING_APPROVAL", "REJECTED"}
           THEN "FAILED" ELSE Status(ckpt.vals, ckpt.interrupted)

Exists == ckpt.next # "none"

Answer(c, r) == [NoCall EXCEPT !.op = call[c].op, !.reply = r]

----------------------------------------------------------------------------
(* Requests *)

\* A request arrives.
Arrives(c) ==
  /\ call[c].pc = "idle"
  /\ exclusive => \A other \in Calls : call[other].pc = "idle"
  /\ calls < MaxCalls
  /\ calls' = calls + 1

\* Mutant: a failed run is started again.
MutStart(c) ==
  /\ Arrives(c)
  /\ call' = [call EXCEPT ![c] =
                IF Exists /\ ~ckpt.error THEN [NoCall EXCEPT !.reply = Inspect]
                ELSE [NoCall EXCEPT !.pc = "invoke"]]
  /\ UNCHANGED <<environment, ckpt, head, history, faults>>

\* start: a run that has a checkpoint is only inspected.
Start(c) ==
  /\ Arrives(c)
  /\ call' = [call EXCEPT ![c] =
                IF Exists THEN [NoCall EXCEPT !.reply = Inspect]
                ELSE [NoCall EXCEPT !.pc = "invoke"]]
  /\ UNCHANGED <<environment, ckpt, head, history, faults>>

\* initial_state(), written over whatever the run already holds: it resets the
\* attempts, the rows and the error and knows nothing of the other keys.
Begin(v) == [v EXCEPT !.attempts = 0, !.rows = 0, !.error = "none"]

Invoke(c) ==
  /\ call[c].pc = "invoke"
  /\ ckpt' = [NoCheckpoint EXCEPT !.next = "classify", !.vals = Begin(ckpt.vals)]
  /\ call' = [call EXCEPT ![c] = [@ EXCEPT !.pc = "node", !.node = "classify",
                                           !.vals = Begin(ckpt.vals)]]
  /\ head' = {c}
  /\ UNCHANGED <<environment, history, calls, faults>>

\* Mutant: the interrupt is not looked for.
MutResume(c, d) ==
  /\ Arrives(c)
  /\ Exists
  /\ call' = [call EXCEPT ![c] = [NoCall EXCEPT !.op = "resume", !.pc = "resume", !.decision = d]]
  /\ UNCHANGED <<environment, ckpt, head, history, faults>>

\* resume: refused unless the latest checkpoint waits at an interrupt.
Resume(c, d) ==
  /\ Arrives(c)
  /\ Exists
  /\ IF ckpt.interrupted
     THEN /\ call' = [call EXCEPT ![c] = [NoCall EXCEPT !.op = "resume", !.pc = "resume",
                                                        !.decision = d]]
          /\ Mark(ckpt.vals.guarded, "shown")
     ELSE /\ call' = [call EXCEPT ![c] = [NoCall EXCEPT !.op = "resume", !.reply = "conflict"]]
          /\ UNCHANGED log
  /\ UNCHANGED <<environment, ckpt, head, generated, executions, faults>>

\* graph.invoke(Command(resume=...)) loads the latest checkpoint again: the decision
\* goes to the interrupt if it is still there, otherwise the graph just goes on.
InvokeResume(c) ==
  /\ call[c].pc = "resume"
  /\ IF ckpt.next = "END"
     THEN /\ call' = [call EXCEPT ![c] = Answer(c, Status(ckpt.vals, FALSE))]
          /\ UNCHANGED head
     ELSE /\ call' = [call EXCEPT ![c] =
                        [@ EXCEPT !.pc = "node", !.node = ckpt.next, !.vals = ckpt.vals,
                                  !.decision = IF ckpt.interrupted THEN call[c].decision ELSE "none"]]
          /\ head' = head \cup {c}
  /\ UNCHANGED <<environment, ckpt, history, calls, faults>>

----------------------------------------------------------------------------
(* Nodes *)

At(c, node) == call[c].pc = "node" /\ call[c].node = node

\* timed_step succeeded: the update is merged, the checkpoint written, and the graph
\* goes to the next node or answers.
Commit(c, v, next) ==
  /\ ckpt' = [next |-> next, vals |-> v, error |-> FALSE, interrupted |-> FALSE]
  /\ head' = {c}
  /\ call' = [call EXCEPT ![c] = IF next = "END" THEN Answer(c, Status(v, FALSE))
                                 ELSE [@ EXCEPT !.node = next, !.vals = v, !.decision = "none"]]

Classify(c) ==
  LET v == call[c].vals IN
  /\ At(c, "classify")
  /\ LET u == IF question = "blocked" THEN [v EXCEPT !.risk = "blocked", !.error = "QUESTION"]
              ELSE [v EXCEPT !.intent = question, !.error = "none"]
     IN  Commit(c, u, IF u.risk = "blocked" THEN "END" ELSE "retrieve_metrics")
  /\ UNCHANGED <<environment, history, calls, faults>>

\* Only a knowledge question needs evidence.
RetrieveMetrics(c) ==
  LET v == call[c].vals IN
  /\ At(c, "retrieve_metrics")
  /\ \E e \in {"none", "EVIDENCE"} :
       /\ e = "EVIDENCE" => v.intent = "knowledge"
       /\ Commit(c, [v EXCEPT !.error = e],
                 IF v.intent = "knowledge" THEN "compose" ELSE "select_schema")
  /\ UNCHANGED <<environment, history, calls, faults>>

SelectSchema(c) ==
  /\ At(c, "select_schema")
  /\ Commit(c, call[c].vals, "generate_sql")
  /\ UNCHANGED <<environment, history, calls, faults>>

\* Mutant: the attempts are not counted.
MutGenerateSql(c) ==
  LET v == call[c].vals
      s == IF generated \in Statements THEN generated ELSE 1 IN
  /\ At(c, "generate_sql")
  /\ generated' = s
  /\ Commit(c, [v EXCEPT !.sql = s, !.error = "none"], "guard_sql")
  /\ UNCHANGED <<environment, log, executions, calls, faults>>

\* The statements of a run are numbered in the order of their generation.
GenerateSql(c) ==
  LET v == call[c].vals IN
  /\ At(c, "generate_sql")
  /\ generated' = generated + 1
  /\ Commit(c, [v EXCEPT !.sql = generated', !.attempts = @ + 1, !.error = "none"], "guard_sql")
  /\ UNCHANGED <<environment, log, executions, calls, faults>>

\* Mutant: one repair too many.
MutAfterGuard(u) == IF u.risk = "repair" /\ u.attempts <= MaxRepairs + 1 THEN "generate_sql"
                    ELSE CASE u.risk = "safe"     -> "execute_sql"
                           [] u.risk = "approval" -> "request_approval"
                           [] OTHER               -> "END"

\* Mutant: a run that was approved once is not asked again.
MutApproveOnce(u) == IF u.risk = "repair" /\ u.attempts < MaxRepairs + 1 THEN "generate_sql"
                     ELSE CASE u.risk = "safe" \/ u.decision = "approved" -> "execute_sql"
                            [] u.risk = "approval" -> "request_approval"
                            [] OTHER               -> "END"

AfterGuard(u) == IF u.risk = "repair" /\ u.attempts < MaxRepairs + 1 THEN "generate_sql"
                 ELSE CASE u.risk = "safe"     -> "execute_sql"
                        [] u.risk = "approval" -> "request_approval"
                        [] OTHER               -> "END"

\* The policy rejects the statement (guarded_query keeps the previous one), or
\* cost, sensitive columns and confidence say whether it needs an approval.
GuardSql(c) ==
  LET v == call[c].vals IN
  /\ At(c, "guard_sql")
  /\ \/ LET u == [v EXCEPT !.risk = "repair", !.error = "GUARD"]
        IN  Commit(c, u, AfterGuard(u)) /\ UNCHANGED log
     \/ \E r \in {"approval", "safe"} :
          LET u == [v EXCEPT !.risk = r, !.guarded = v.sql, !.error = "none"]
          IN  /\ Commit(c, u, AfterGuard(u))
              /\ IF r = "safe" THEN Mark(v.sql, "safe") ELSE UNCHANGED log
  /\ UNCHANGED <<environment, generated, executions, calls, faults>>

\* request_approval without a decision: ensure_pending and the WAITING step ...
Ask(c) ==
  /\ At(c, "request_approval")
  /\ call[c].decision = "none"
  /\ call' = [call EXCEPT ![c].pc = "pause"]
  /\ UNCHANGED <<environment, ckpt, head, history, calls, faults>>

\* ... then interrupt() is recorded with the checkpoint the node works from.
Interrupt(c) ==
  /\ call[c].pc = "pause"
  /\ ckpt' = IF c \in head THEN [ckpt EXCEPT !.interrupted = TRUE, !.error = FALSE] ELSE ckpt
  /\ call' = [call EXCEPT ![c] = Answer(c, "WAITING_APPROVAL")]
  /\ UNCHANGED <<environment, head, history, calls, faults>>

\* request_approval once more, now with the decision.
Decide(c) ==
  LET v == call[c].vals
      d == call[c].decision IN
  /\ At(c, "request_approval")
  /\ d # "none"
  /\ IF d = "rejected"
     THEN /\ Commit(c, [v EXCEPT !.decision = d, !.error = "APPROVAL_REJECTED"], "END")
          /\ UNCHANGED log
     ELSE /\ Commit(c, [v EXCEPT !.decision = d, !.error = "none"], "execute_sql")
          /\ Mark(v.guarded, "approved")
  /\ UNCHANGED <<environment, generated, executions, calls, faults>>

Executed(s) == [executions EXCEPT ![s] = @ + 1]

ExecuteSql(c) ==
  LET v == call[c].vals IN
  /\ At(c, "execute_sql")
  /\ executions' = Executed(v.guarded)
  /\ Commit(c, [v EXCEPT !.rows = v.guarded, !.error = "none"], "verify")
  /\ UNCHANGED <<environment, generated, log, calls, faults>>

\* Mutant: the mismatch is forgotten when nothing is left to try.
MutVerify(c) ==
  LET v == call[c].vals IN
  /\ At(c, "verify")
  /\ \/ /\ Commit(c, [v EXCEPT !.error = "none"], "compose")
        /\ Mark(v.rows, "verified")
     \/ /\ IF v.attempts < MaxRepairs + 1 THEN Commit(c, [v EXCEPT !.error = "COLUMNS"], "generate_sql")
           ELSE Commit(c, [v EXCEPT !.error = "none"], "compose")
        /\ UNCHANGED log
  /\ UNCHANGED <<environment, generated, executions, calls, faults>>

\* The result has the expected columns, or it is a repair like the guard's.
Verify(c) ==
  LET v == call[c].vals IN
  /\ At(c, "verify")
  /\ \/ /\ Commit(c, [v EXCEPT !.error = "none"], "compose")
        /\ Mark(v.rows, "verified")
     \/ /\ Commit(c, [v EXCEPT !.error = "COLUMNS"],
                  IF v.attempts < MaxRepairs + 1 THEN "generate_sql" ELSE "compose")
        /\ UNCHANGED log
  /\ UNCHANGED <<environment, generated, executions, calls, faults>>

\* Missing evidence is an answer of its own; any other error leaves the answer empty.
Compose(c) ==
  LET v == call[c].vals IN
  /\ At(c, "compose")
  /\ Commit(c, [v EXCEPT !.answer = v.error \in {"none", "EVIDENCE"},
                         !.error = IF @ = "EVIDENCE" THEN "none" ELSE @], "END")
  /\ UNCHANGED <<environment, history, calls, faults>>

----------------------------------------------------------------------------
(* Failures *)

\* A node raises, or its step cannot be recorded (then execute_sql has executed).
\* The error is kept with the checkpoint the node works from; start() reports it,
\* resume() does not catch it.
NodeFails(c) ==
  LET v == call[c].vals IN
  /\ call[c].pc \in {"node", "pause"}
  /\ faults < MaxFaults
  /\ faults' = faults + 1
  /\ ckpt' = IF c \in head THEN [ckpt EXCEPT !.error = TRUE] ELSE ckpt
  /\ call' = [call EXCEPT ![c] = Answer(c, IF call[c].op = "start" /\ ckpt'.error THEN Inspect' ELSE "error")]
  /\ executions' \in IF At(c, "execute_sql") THEN {executions, Executed(v.guarded)} ELSE {executions}
  /\ UNCHANGED <<environment, head, generated, log, calls>>

\* The process ends and is started again.
Crash ==
  /\ faults < MaxFaults
  /\ faults' = faults + 1
  /\ call' = [c \in Calls |-> IF call[c].pc = "idle" THEN call[c] ELSE Answer(c, "error")]
  /\ head' = {}
  /\ UNCHANGED <<environment, ckpt, history, calls>>

GraphStep(c) ==
  \/ Invoke(c) \/ InvokeResume(c) \/ Classify(c) \/ RetrieveMetrics(c) \/ SelectSchema(c)
  \/ GenerateSql(c) \/ GuardSql(c) \/ Ask(c) \/ Interrupt(c) \/ Decide(c) \/ ExecuteSql(c)
  \/ Verify(c) \/ Compose(c)

Next ==
  \/ \E c \in Calls : \/ Start(c) \/ GraphStep(c) \/ NodeFails(c)
                      \/ \E d \in Decisions : Resume(c, d)
  \/ Crash

Spec == Init /\ [][Next]_vars

\* Every node is a finite computation with timeouts and bounded retries.
FairSpec == Spec /\ \A c \in Calls : WF_vars(GraphStep(c))

----------------------------------------------------------------------------
(* Correctness *)

\* No statement reaches the business database unless the guard found it safe or
\* request_approval was resumed with "approved" for that very statement, however
\* repairs, resumes and concurrent requests interleave (the routes after guard_sql
\* and request_approval, guarded_query being overwritten only by a guard that passed).
ExecutedWasCleared ==
  \A s \in Statements : executions[s] > 0 => {"safe", "approved"} \cap log[s] # {}

\* As long as requests do not overlap, crashes, failed nodes and repeated requests
\* never execute a statement twice, and what was approved is what was waiting when
\* the decision arrived (start only inspects, resume needs the interrupt).
SerialCallsExecuteOnce ==
  exclusive => \A s \in Statements : /\ executions[s] <= 1
                                     /\ "approved" \in log[s] => "shown" \in log[s]

\* A graph that reached END has a final status, and a COMPLETED answer to a data
\* question is about the last statement generated, whose columns were verified
\* (an exhausted repair budget is FAILED, never an answer from an earlier attempt).
EndIsFinal ==
  ckpt.next = "END" =>
    /\ Status(ckpt.vals, FALSE) \in Final
    /\ Status(ckpt.vals, FALSE) = "COMPLETED" /\ question = "hybrid" =>
         /\ ckpt.vals.rows = ckpt.vals.sql
         /\ ckpt.vals.rows \in Statements
         /\ "verified" \in log[ckpt.vals.rows]

\* The run as JobExecution sees it.
RunState ==
  CASE ~Exists                                           -> "none"
    [] Exists /\ ckpt.interrupted                        -> "waiting"
    [] ckpt.next = "END"                                 -> Status(ckpt.vals, FALSE)
    [] ckpt.next \in Nodes /\ ~ckpt.interrupted          -> IF ckpt.error THEN "FAILED" ELSE "running"

\* As long as requests do not overlap, the run moves as the run variable of
\* JobExecution does: no request, failure or restart takes it out of a final state,
\* and only a decision takes it out of the pause.
RunMovesForward ==
  [][exclusive => \/ RunState' = RunState
                  \/ RunState = "none" /\ RunState' = "running"
                  \/ RunState = "running" /\ RunState' \in Final \cup {"waiting"}
                  \/ RunState = "waiting" /\ RunState' \in {"running", "REJECTED"}]_vars

\* Every request is answered: the repair loops through guard_sql and verify end.
RequestsAreAnswered == \A c \in Calls : call[c].pc # "idle" ~> call[c].pc = "idle"
=============================================================================
