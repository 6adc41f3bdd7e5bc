------------------------ MODULE AgentWorkflow_proofs ------------------------
(***************************************************************************)
(* Clearance, ends, executions and bounds of the agent's runs, for every   *)
(* number of requests, repairs and faults.                                 *)
(*                                                                         *)
(* That no statement is executed without being cleared is not inductive:   *)
(* what execute_sql will do is decided nodes earlier, possibly by another  *)
(* request.  Inv adds that whoever is about to execute - a request at the  *)
(* node, or the checkpoint a resumed request will continue from - holds a  *)
(* guarded statement that is cleared.                                      *)
(*                                                                         *)
(* What END promises is prepared node by node, and a request that died may *)
(* be continued from its checkpoint: Sound says what every node may take   *)
(* for granted, of the checkpoint and of every request at a node.  That    *)
(* requests which do not overlap execute a statement once, and move the    *)
(* run forward only, needs that the request at work and the checkpoint     *)
(* agree, and that an execution is ahead only of a statement which was     *)
(* not executed: Serial.                                                   *)
(*                                                                         *)
(* Requests that overlap may execute a statement again, but not more often *)
(* than requests arrived, and they generate no more than their attempts:   *)
(* Counts adds to what happened what every request alive may still do.     *)
(***************************************************************************)
EXTENDS AgentWorkflow, Folds_proofs

\* The shape of a state: TypeOK without the bounds on its numbers.
Shape == [intent: {"none", "knowledge", "hybrid"}, risk: Risks, attempts: Nat, sql: Nat,
          guarded: Nat, rows: Nat, decision: Decisions \cup {"none"}, error: Errors,
          answer: BOOLEAN]

CallShape == [pc: {"idle", "invoke", "resume", "node", "pause"}, op: {"start", "resume"},
              node: Nodes \cup {"none"}, vals: Shape, decision: Decisions \cup {"none"},
              reply: Replies]

Shapes ==
  /\ question \in {"blocked", "knowledge", "hybrid"}
  /\ ckpt \in [next: Nodes \cup {"none", "END"}, vals: Shape, error: BOOLEAN,
               interrupted: BOOLEAN]
  /\ call \in [Calls -> CallShape]
  /\ generated \in Nat
  /\ log \in [Statements -> SUBSET Marks]
  /\ executions \in [Statements -> Nat]

\* According to log l the guard found s safe or it was approved.
Clear(l, s) == s \in Statements => "safe" \in l[s] \/ "approved" \in l[s]

AboutToExecute ==
  /\ ckpt.next = "execute_sql" => Clear(log, ckpt.vals.guarded)
  /\ \A c \in Calls : At(c, "execute_sql") => Clear(log, call[c].vals.guarded)

AllClear == \A s \in Statements : executions[s] > 0 => Clear(log, s)

Inv == Shapes /\ AboutToExecute /\ AllClear

\* Marks are only added.
Grows == log' \in [Statements -> SUBSET Marks] /\ \A s \in Statements : log[s] \subseteq log'[s]

\* Marking a statement (also one that does not exist) adds to the log.
LEMMA MarkGrows ==
  ASSUME Inv, NEW s \in Nat, NEW m \in Marks, Mark(s, m)
  PROVE  Grows /\ (s \in Statements => m \in log'[s])
BY DEF Inv, Shapes, Mark, Grows

\* An unchanged log grows.
LEMMA SameGrows == ASSUME Inv, UNCHANGED log PROVE Grows
BY DEF Inv, Shapes, Grows

\* What is clear stays clear.
LEMMA ClearStays == ASSUME Inv, Grows, NEW s, Clear(log, s) PROVE Clear(log', s)
BY DEF Clear, Grows

\* The status of a state can be answered (_status).
LEMMA StatusType == ASSUME NEW v \in Shape, NEW b \in BOOLEAN PROVE Status(v, b) \in Replies
BY DEF Status, Shape, Replies, Final

\* The empty state has its shape.
LEMMA NoValuesShape == NoValues \in Shape
BY DEF NoValues, Shape, Risks, Decisions, Errors

\* Executions that are only of cleared statements.
Executions == /\ executions' \in [Statements -> Nat]
              /\ \A s \in Statements : executions'[s] > 0 => Clear(log', s)

\* Nothing new is executed.
LEMMA SameExecutions == ASSUME Inv, Grows, UNCHANGED executions PROVE Executions
BY ClearStays DEF Inv, Shapes, AllClear, Executions

\* A step of one request keeps the invariant when neither the request nor the
\* checkpoint gets to execute_sql with a statement that is not cleared.
LEMMA CallKeeps ==
  ASSUME Inv, NEW c \in Calls, NEW a \in CallShape, call' = [call EXCEPT ![c] = a],
         a.pc = "node" /\ a.node = "execute_sql" => Clear(log', a.vals.guarded),
         ckpt' \in [next: Nodes \cup {"none", "END"}, vals: Shape, error: BOOLEAN,
                   interrupted: BOOLEAN],
         ckpt'.next = "execute_sql" => Clear(log', ckpt'.vals.guarded),
         Grows, Executions, question' = question, generated' \in Nat
  PROVE  Inv'
<1>1. Shapes'
  BY DEF Inv, Shapes, Grows, Executions
<1>2. ASSUME NEW d \in Calls, At(d, "execute_sql")' PROVE Clear(log', call'[d].vals.guarded)
  <2>1. CASE d = c
    BY <1>2, <2>1 DEF Inv, Shapes, At
  <2>2. CASE d # c
    <3>1. call'[d] = call[d]
      BY <2>2 DEF Inv, Shapes
    <3>2. Clear(log, call[d].vals.guarded)
      BY <1>2, <3>1 DEF Inv, AboutToExecute, At
    <3> QED BY <3>1, <3>2, ClearStays DEF Clear
  <2> QED BY <2>1, <2>2
<1>3. AboutToExecute'
  BY <1>2 DEF AboutToExecute
<1>4. AllClear'
  BY DEF AllClear, Executions
<1> QED BY <1>1, <1>3, <1>4 DEF Inv

\* The answer of a request has its shape.
LEMMA AnswerShape ==
  ASSUME Inv, NEW c \in Calls, NEW r \in Replies
  PROVE  Answer(c, r) \in CallShape /\ Answer(c, r).pc = "idle"
<1>1. call[c] \in CallShape
  BY DEF Inv, Shapes
<1> QED BY <1>1, NoValuesShape DEF Answer, NoCall, CallShape

\* A node's commit keeps the invariant when it goes to execute_sql only with a
\* cleared statement (timed_step and the checkpointer).
LEMMA CommitKeeps ==
  ASSUME Inv, NEW c \in Calls, call[c].pc = "node", NEW v \in Shape,
         NEW next \in Nodes \cup {"END"}, Commit(c, v, next),
         next = "execute_sql" => Clear(log', v.guarded),
         Grows, Executions, question' = question, generated' \in Nat
  PROVE  Inv'
<1> DEFINE r == Status(v, FALSE)
           a == IF next = "END" THEN Answer(c, r)
                ELSE [call[c] EXCEPT !.node = next, !.vals = v, !.decision = "none"]
<1>1. r \in Replies
  BY StatusType
<1>2. Answer(c, r) \in CallShape /\ Answer(c, r).pc = "idle"
  BY <1>1, AnswerShape
<1>3. call' = [call EXCEPT ![c] = a]
  BY DEF Commit
<1> HIDE DEF r
<1>4. call[c] \in CallShape
  BY DEF Inv, Shapes
<1>5. a \in CallShape
  BY <1>2, <1>4 DEF CallShape
<1>6. a.pc = "node" /\ a.node = "execute_sql" => a.vals = v /\ next = "execute_sql"
  BY <1>2, <1>4 DEF CallShape
<1>7. ckpt' = [next |-> next, vals |-> v, error |-> FALSE, interrupted |-> FALSE]
  BY DEF Commit
<1> HIDE DEF a
<1>8. a.pc = "node" /\ a.node = "execute_sql" => Clear(log', a.vals.guarded)
  BY <1>6 DEF Clear
<1>9. ckpt'.next = "execute_sql" => Clear(log', ckpt'.vals.guarded)
  BY <1>7 DEF Clear
<1> QED BY <1>3, <1>5, <1>7, <1>8, <1>9, CallKeeps

----------------------------------------------------------------------------
(* The nodes *)

\* classify never leads to execute_sql.
LEMMA ClassifyKeeps == ASSUME Inv, NEW c \in Calls, Classify(c) PROVE Inv'
<1> DEFINE v == call[c].vals
           u == IF question = "blocked" THEN [v EXCEPT !.risk = "blocked", !.error = "QUESTION"]
                ELSE [v EXCEPT !.intent = question, !.error = "none"]
           n == IF u.risk = "blocked" THEN "END" ELSE "retrieve_metrics"
<1>1. v \in Shape /\ call[c].pc = "node"
  BY DEF Inv, Shapes, CallShape, Classify, At
<1>2. u \in Shape
  BY <1>1 DEF Inv, Shapes, Shape, Risks, Errors
<1>3. n \in Nodes \cup {"END"} /\ n # "execute_sql"
  BY DEF Nodes
<1>4. Commit(c, u, n) /\ question' = question /\ generated' \in Nat
  BY DEF Classify, environment, history, Inv, Shapes
<1>5. Grows /\ Executions
  BY SameGrows, SameExecutions DEF Classify, history
<1> HIDE DEF u, n
<1> QED BY <1>1, <1>2, <1>3, <1>4, <1>5, CommitKeeps

\* Nor does retrieve_metrics.
LEMMA RetrieveMetricsKeeps == ASSUME Inv, NEW c \in Calls, RetrieveMetrics(c) PROVE Inv'
<1> DEFINE v == call[c].vals
           n == IF v.intent = "knowledge" THEN "compose" ELSE "select_schema"
<1>1. v \in Shape /\ call[c].pc = "node"
  BY DEF Inv, Shapes, CallShape, RetrieveMetrics, At
<1>2. PICK e \in {"none", "EVIDENCE"} : Commit(c, [v EXCEPT !.error = e], n)
  BY DEF RetrieveMetrics
<1>3. [v EXCEPT !.error = e] \in Shape
  BY <1>1 DEF Shape, Errors
<1>4. n \in Nodes \cup {"END"} /\ n # "execute_sql"
  BY DEF Nodes
<1>5. question' = question /\ generated' \in Nat
  BY DEF RetrieveMetrics, environment, history, Inv, Shapes
<1>6. Grows /\ Executions
  BY SameGrows, SameExecutions DEF RetrieveMetrics, history
<1> HIDE DEF n
<1> QED BY <1>1, <1>2, <1>3, <1>4, <1>5, <1>6, CommitKeeps

\* Nor does select_schema.
LEMMA SelectSchemaKeeps == ASSUME Inv, NEW c \in Calls, SelectSchema(c) PROVE Inv'
<1>1. call[c].vals \in Shape /\ call[c].pc = "node"
  BY DEF Inv, Shapes, CallShape, SelectSchema, At
<1>2. Commit(c, call[c].vals, "generate_sql") /\ question' = question /\ generated' \in Nat
  BY DEF SelectSchema, environment, history, Inv, Shapes
<1>3. Grows /\ Executions
  BY SameGrows, SameExecutions DEF SelectSchema, history
<1> QED BY <1>1, <1>2, <1>3, CommitKeeps DEF Nodes

\* Nor does generate_sql, and it leaves guarded_query alone.
LEMMA GenerateSqlKeeps == ASSUME Inv, NEW c \in Calls, GenerateSql(c) PROVE Inv'
<1> DEFINE v == call[c].vals
           u == [v EXCEPT !.sql = generated + 1, !.attempts = @ + 1, !.error = "none"]
<1>1. v \in Shape /\ call[c].pc = "node"
  BY DEF Inv, Shapes, CallShape, GenerateSql, At
<1>2. u \in Shape
  <2>1. generated + 1 \in Nat /\ v.attempts + 1 \in Nat
    BY <1>1 DEF Inv, Shapes, Shape
  <2>2. u = [v EXCEPT !.sql = generated + 1, !.attempts = v.attempts + 1, !.error = "none"]
    BY <1>1 DEF Shape
  <2> HIDE DEF u
  <2> QED BY <1>1, <2>1, <2>2 DEF Shape, Errors
<1>3. Commit(c, u, "guard_sql") /\ question' = question /\ generated' \in Nat
  BY DEF GenerateSql, environment, Inv, Shapes
<1>4. Grows /\ Executions
  BY SameGrows, SameExecutions DEF GenerateSql
<1> HIDE DEF u
<1> QED BY <1>1, <1>2, <1>3, <1>4, CommitKeeps DEF Nodes

\* The guard sends to execute_sql only what it has just marked safe.
LEMMA GuardSqlKeeps == ASSUME Inv, NEW c \in Calls, GuardSql(c) PROVE Inv'
<1> DEFINE v == call[c].vals
           bad == [v EXCEPT !.risk = "repair", !.error = "GUARD"]
           good(r) == [v EXCEPT !.risk = r, !.guarded = v.sql, !.error = "none"]
<1>1. v \in Shape /\ call[c].pc = "node"
  BY DEF Inv, Shapes, CallShape, GuardSql, At
<1>2. question' = question /\ generated' \in Nat /\ UNCHANGED executions
  BY DEF GuardSql, environment, Inv, Shapes
<1>3. CASE Commit(c, bad, AfterGuard(bad)) /\ UNCHANGED log
  <2>1. bad \in Shape /\ bad.risk = "repair"
    BY <1>1 DEF Shape, Risks, Errors
  <2> HIDE DEF bad
  <2>2. AfterGuard(bad) \in Nodes \cup {"END"} /\ AfterGuard(bad) # "execute_sql"
    BY <2>1 DEF AfterGuard, Nodes
  <2>3. Grows /\ Executions
    BY <1>2, <1>3, SameGrows, SameExecutions
  <2> QED BY <1>1, <1>2, <1>3, <2>1, <2>2, <2>3, CommitKeeps
<1>4. CASE /\ Commit(c, good("approval"), AfterGuard(good("approval")))
           /\ UNCHANGED log
  <2> DEFINE u == good("approval")
  <2>1. u \in Shape /\ u.risk = "approval"
    BY <1>1 DEF Shape, Risks, Errors
  <2>2. Commit(c, u, AfterGuard(u))
    BY <1>4
  <2> HIDE DEF u
  <2>3. AfterGuard(u) \in Nodes \cup {"END"} /\ AfterGuard(u) # "execute_sql"
    BY <2>1 DEF AfterGuard, Nodes
  <2>4. Grows /\ Executions
    BY <1>2, <1>4, SameGrows, SameExecutions
  <2> QED BY <1>1, <1>2, <2>1, <2>2, <2>3, <2>4, CommitKeeps
<1>5. CASE Commit(c, good("safe"), AfterGuard(good("safe"))) /\ Mark(v.sql, "safe")
  <2> DEFINE u == good("safe")
  <2>1. u \in Shape /\ u.risk = "safe" /\ u.guarded = v.sql /\ v.sql \in Nat
    BY <1>1 DEF Shape, Risks, Errors
  <2>2. Commit(c, u, AfterGuard(u))
    BY <1>5
  <2> HIDE DEF u
  <2>3. AfterGuard(u) \in Nodes \cup {"END"}
    BY <2>1 DEF AfterGuard, Nodes
  <2>4. Grows /\ (v.sql \in Statements => "safe" \in log'[v.sql])
    BY <1>5, <2>1, MarkGrows DEF Marks
  <2>5. Executions /\ Clear(log', u.guarded)
    BY <1>2, <2>1, <2>4, SameExecutions DEF Clear
  <2> QED BY <1>1, <1>2, <2>1, <2>2, <2>3, <2>4, <2>5, CommitKeeps
<1> QED BY <1>3, <1>4, <1>5 DEF GuardSql

\* An approval leads to execute_sql with the statement it is for.
LEMMA DecideKeeps == ASSUME Inv, NEW c \in Calls, Decide(c) PROVE Inv'
<1> DEFINE v == call[c].vals
           d == call[c].decision
           no == [v EXCEPT !.decision = d, !.error = "APPROVAL_REJECTED"]
           yes == [v EXCEPT !.decision = d, !.error = "none"]
<1>1. v \in Shape /\ d \in Decisions \cup {"none"} /\ call[c].pc = "node"
  BY DEF Inv, Shapes, CallShape, Decide, At
<1>2. question' = question /\ generated' \in Nat /\ UNCHANGED executions
  BY DEF Decide, environment, Inv, Shapes
<1>3. CASE Commit(c, no, "END") /\ UNCHANGED log
  <2>1. no \in Shape
    BY <1>1 DEF Shape, Errors
  <2>2. Grows /\ Executions
    BY <1>2, <1>3, SameGrows, SameExecutions
  <2> HIDE DEF no
  <2> QED BY <1>1, <1>2, <1>3, <2>1, <2>2, CommitKeeps
<1>4. CASE Commit(c, yes, "execute_sql") /\ Mark(v.guarded, "approved")
  <2>1. yes \in Shape /\ yes.guarded = v.guarded /\ v.guarded \in Nat
    BY <1>1 DEF Shape, Errors
  <2>2. Grows /\ (v.guarded \in Statements => "approved" \in log'[v.guarded])
    BY <1>4, <2>1, MarkGrows DEF Marks
  <2>3. Executions /\ Clear(log', yes.guarded)
    BY <1>2, <2>1, <2>2, SameExecutions DEF Clear
  <2> HIDE DEF yes
  <2> QED BY <1>1, <1>2, <1>4, <2>1, <2>2, <2>3, CommitKeeps DEF Nodes
<1> QED BY <1>3, <1>4 DEF Decide

\* One more execution, of the statement a request at execute_sql holds.
LEMMA ExecutedIsClear ==
  ASSUME Inv, NEW c \in Calls, At(c, "execute_sql"), UNCHANGED log,
         executions' = Executed(call[c].vals.guarded)
  PROVE  Executions
<1>1. Clear(log, call[c].vals.guarded)
  BY DEF Inv, AboutToExecute
<1> DEFINE s == call[c].vals.guarded
<1>2. executions' = [executions EXCEPT ![s] = @ + 1] /\ executions \in [Statements -> Nat]
  BY DEF Executed, Inv, Shapes
<1> HIDE DEF s
<1>3. executions' \in [Statements -> Nat]
  <2>1. CASE s \in Statements
    <3>1. executions[s] + 1 \in Nat
      BY <1>2, <2>1
    <3> QED BY <1>2, <3>1
  <2>2. CASE s \notin Statements
    <3>1. executions' = executions
      BY <1>2, <2>2
    <3> QED BY <1>2, <3>1
  <2> QED BY <2>1, <2>2
<1>4. ASSUME NEW t \in Statements, executions'[t] > 0 PROVE Clear(log', t)
  <2>1. CASE t = s
    BY <1>1, <2>1 DEF s, Clear
  <2>2. CASE t # s
    BY <1>2, <1>4, <2>2 DEF Inv, AllClear, Clear
  <2> QED BY <2>1, <2>2
<1> QED BY <1>3, <1>4 DEF Executions

\* execute_sql sends the guarded statement, which is cleared.
LEMMA ExecuteSqlKeeps == ASSUME Inv, NEW c \in Calls, ExecuteSql(c) PROVE Inv'
<1> DEFINE v == call[c].vals
           u == [v EXCEPT !.rows = v.guarded, !.error = "none"]
<1>1. v \in Shape /\ call[c].pc = "node"
  BY DEF Inv, Shapes, CallShape, ExecuteSql, At
<1>2. u \in Shape
  BY <1>1 DEF Shape, Errors
<1>3. Commit(c, u, "verify") /\ question' = question /\ generated' \in Nat
  BY DEF ExecuteSql, environment, Inv, Shapes
<1>4. Grows /\ Executions
  BY SameGrows, ExecutedIsClear DEF ExecuteSql
<1> HIDE DEF u
<1> QED BY <1>1, <1>2, <1>3, <1>4, CommitKeeps DEF Nodes

\* verify goes back to generate_sql or on to compose.
LEMMA VerifyKeeps == ASSUME Inv, NEW c \in Calls, Verify(c) PROVE Inv'
<1> DEFINE v == call[c].vals
           good == [v EXCEPT !.error = "none"]
           bad == [v EXCEPT !.error = "COLUMNS"]
           n == IF v.attempts < MaxRepairs + 1 THEN "generate_sql" ELSE "compose"
<1>1. v \in Shape /\ call[c].pc = "node" /\ v.rows \in Nat
  BY DEF Inv, Shapes, CallShape, Shape, Verify, At
<1>2. good \in Shape /\ bad \in Shape
  BY <1>1 DEF Shape, Errors
<1>3. n \in Nodes \cup {"END"} /\ n # "execute_sql"
  BY DEF Nodes
<1>4. question' = question /\ generated' \in Nat /\ UNCHANGED executions
  BY DEF Verify, environment, Inv, Shapes
<1>5. \/ Commit(c, good, "compose") /\ Mark(v.rows, "verified")
      \/ Commit(c, bad, n) /\ UNCHANGED log
  BY DEF Verify
<1> HIDE DEF good, bad, n
<1>6. Grows /\ Executions
  BY <1>1, <1>4, <1>5, MarkGrows, SameGrows, SameExecutions DEF Marks
<1> QED BY <1>1, <1>2, <1>3, <1>4, <1>5, <1>6, CommitKeeps DEF Nodes

\* compose ends the graph.
LEMMA ComposeKeeps == ASSUME Inv, NEW c \in Calls, Compose(c) PROVE Inv'
<1> DEFINE v == call[c].vals
           u == [v EXCEPT !.answer = v.error \in {"none", "EVIDENCE"},
                          !.error = IF @ = "EVIDENCE" THEN "none" ELSE @]
<1>1. v \in Shape /\ call[c].pc = "node"
  BY DEF Inv, Shapes, CallShape, Compose, At
<1>2. u \in Shape
  <2> DEFINE b == v.error \in {"none", "EVIDENCE"}
             e == IF v.error = "EVIDENCE" THEN "none" ELSE v.error
  <2>1. b \in BOOLEAN /\ e \in Errors
    BY <1>1 DEF Shape, Errors
  <2>2. u = [v EXCEPT !.answer = b, !.error = e]
    BY <1>1 DEF Shape
  <2> HIDE DEF u, b, e
  <2> QED BY <1>1, <2>1, <2>2 DEF Shape
<1>3. Commit(c, u, "END") /\ question' = question /\ generated' \in Nat
  BY DEF Compose, environment, history, Inv, Shapes
<1>4. Grows /\ Executions
  BY SameGrows, SameExecutions DEF Compose, history
<1> HIDE DEF u
<1> QED BY <1>1, <1>2, <1>3, <1>4, CommitKeeps

----------------------------------------------------------------------------
(* Requests, pauses and failures *)

\* What inspect answers.
LEMMA InspectType == ASSUME Inv PROVE Inspect \in Replies
<1>1. ckpt.vals \in Shape /\ ckpt.interrupted \in BOOLEAN
  BY DEF Inv, Shapes
<1>2. Status(ckpt.vals, ckpt.interrupted) \in Replies
  BY <1>1, StatusType
<1> QED BY <1>2 DEF Inspect, Replies, Final

\* start inspects the run or gets ready to invoke it.
LEMMA StartKeeps == ASSUME Inv, NEW c \in Calls, Start(c) PROVE Inv'
<1> DEFINE a == IF Exists THEN [NoCall EXCEPT !.reply = Inspect] ELSE [NoCall EXCEPT !.pc = "invoke"]
<1>1. a \in CallShape /\ a.pc # "node"
  BY InspectType, NoValuesShape DEF NoCall, CallShape, Replies
<1>2. /\ call' = [call EXCEPT ![c] = a] /\ UNCHANGED <<ckpt, log, executions>>
      /\ question' = question /\ generated' \in Nat
  BY DEF Start, environment, history, Inv, Shapes
<1>3. Grows /\ Executions
  BY <1>2, SameGrows, SameExecutions
<1>4. /\ ckpt' \in [next: Nodes \cup {"none", "END"}, vals: Shape, error: BOOLEAN, interrupted: BOOLEAN]
      /\ ckpt'.next = "execute_sql" => Clear(log', ckpt'.vals.guarded)
  BY <1>2 DEF Inv, Shapes, AboutToExecute
<1> HIDE DEF a
<1> QED BY <1>1, <1>2, <1>3, <1>4, CallKeeps

\* A new invocation begins at classify.
LEMMA InvokeKeeps == ASSUME Inv, NEW c \in Calls, Invoke(c) PROVE Inv'
<1> DEFINE b == Begin(ckpt.vals)
           a == [call[c] EXCEPT !.pc = "node", !.node = "classify", !.vals = b]
           k == [NoCheckpoint EXCEPT !.next = "classify", !.vals = b]
<1>1. call[c] \in CallShape /\ ckpt.vals \in Shape
  BY DEF Inv, Shapes
<1>2. b \in Shape
  BY <1>1 DEF Begin, Shape, Errors
<1>3. /\ call' = [call EXCEPT ![c] = a] /\ ckpt' = k /\ UNCHANGED <<log, executions>>
      /\ question' = question /\ generated' \in Nat
  BY DEF Invoke, environment, history, Inv, Shapes
<1> HIDE DEF b
<1>4. a \in CallShape /\ a.node = "classify"
  BY <1>1, <1>2 DEF CallShape, Nodes
<1>5. /\ k \in [next: Nodes \cup {"none", "END"}, vals: Shape, error: BOOLEAN, interrupted: BOOLEAN]
      /\ k.next = "classify"
  BY <1>2 DEF NoCheckpoint, Nodes
<1>6. Grows /\ Executions
  BY <1>3, SameGrows, SameExecutions
<1> HIDE DEF a, k
<1> QED BY <1>3, <1>4, <1>5, <1>6, CallKeeps

\* resume is admitted or refused; it executes nothing itself.
LEMMA ResumeKeeps == ASSUME Inv, NEW c \in Calls, NEW d \in Decisions, Resume(c, d) PROVE Inv'
<1> DEFINE yes == [NoCall EXCEPT !.op = "resume", !.pc = "resume", !.decision = d]
           no == [NoCall EXCEPT !.op = "resume", !.reply = "conflict"]
<1>1. yes \in CallShape /\ no \in CallShape /\ yes.pc = "resume" /\ no.pc = "idle"
  BY NoValuesShape DEF NoCall, CallShape, Replies
<1>2. /\ UNCHANGED <<ckpt, executions>> /\ question' = question /\ generated' \in Nat
      /\ \/ call' = [call EXCEPT ![c] = yes] /\ Mark(ckpt.vals.guarded, "shown")
         \/ call' = [call EXCEPT ![c] = no] /\ UNCHANGED log
  BY DEF Resume, environment, Inv, Shapes
<1>3. ckpt.vals.guarded \in Nat
  BY DEF Inv, Shapes, Shape
<1> HIDE DEF yes, no
<1>4. Grows
  BY <1>2, <1>3, MarkGrows, SameGrows DEF Marks
<1>5. Executions
  BY <1>2, <1>4, SameExecutions
<1>6. /\ ckpt' \in [next: Nodes \cup {"none", "END"}, vals: Shape, error: BOOLEAN, interrupted: BOOLEAN]
      /\ ckpt'.next = "execute_sql" => Clear(log', ckpt'.vals.guarded)
  BY <1>2, <1>4, ClearStays DEF Inv, Shapes, AboutToExecute
<1> QED BY <1>1, <1>2, <1>4, <1>5, <1>6, CallKeeps

\* A resumed request takes over the checkpoint, and what it is about to execute
\* with it.
LEMMA InvokeResumeKeeps == ASSUME Inv, NEW c \in Calls, InvokeResume(c) PROVE Inv'
<1> DEFINE r == Status(ckpt.vals, FALSE)
           d == IF ckpt.interrupted THEN call[c].decision ELSE "none"
           a == IF ckpt.next = "END" THEN Answer(c, r)
                ELSE [call[c] EXCEPT !.pc = "node", !.node = ckpt.next, !.vals = ckpt.vals,
                                     !.decision = d]
<1>1. /\ call[c] \in CallShape /\ ckpt.vals \in Shape
      /\ ckpt.next \in Nodes \cup {"none", "END"}
  BY DEF Inv, Shapes
<1>2. r \in Replies
  BY <1>1, StatusType
<1>3. Answer(c, r) \in CallShape /\ Answer(c, r).pc = "idle"
  BY <1>2, AnswerShape
<1>4. /\ call' = [call EXCEPT ![c] = a] /\ UNCHANGED <<ckpt, log, executions>>
      /\ question' = question /\ generated' \in Nat
  BY <1>1 DEF InvokeResume, environment, history, Inv, Shapes, CallShape
<1>5. d \in Decisions \cup {"none"}
  BY <1>1 DEF CallShape
<1> HIDE DEF r, d
<1>6. a \in CallShape
  BY <1>1, <1>3, <1>5 DEF CallShape
<1>7. a.pc = "node" => a.node = ckpt.next /\ a.vals = ckpt.vals
  BY <1>1, <1>3 DEF CallShape
<1> HIDE DEF a
<1>8. Grows /\ Executions
  BY <1>4, SameGrows, SameExecutions
<1>9. /\ ckpt' \in [next: Nodes \cup {"none", "END"}, vals: Shape, error: BOOLEAN, interrupted: BOOLEAN]
      /\ ckpt'.next = "execute_sql" => Clear(log', ckpt'.vals.guarded)
      /\ a.pc = "node" /\ a.node = "execute_sql" => Clear(log', a.vals.guarded)
  BY <1>4, <1>7 DEF Inv, Shapes, AboutToExecute
<1> QED BY <1>4, <1>6, <1>8, <1>9, CallKeeps

\* Asking for the approval changes only the request.
LEMMA AskKeeps == ASSUME Inv, NEW c \in Calls, Ask(c) PROVE Inv'
<1> DEFINE a == [call[c] EXCEPT !.pc = "pause"]
<1>1. a \in CallShape /\ a.pc = "pause"
  BY DEF Inv, Shapes, CallShape
<1>2. /\ call' = [call EXCEPT ![c] = a] /\ UNCHANGED <<ckpt, log, executions>>
      /\ question' = question /\ generated' \in Nat
  BY DEF Ask, environment, history, Inv, Shapes
<1>3. Grows /\ Executions
  BY <1>2, SameGrows, SameExecutions
<1>4. /\ ckpt' \in [next: Nodes \cup {"none", "END"}, vals: Shape, error: BOOLEAN, interrupted: BOOLEAN]
      /\ ckpt'.next = "execute_sql" => Clear(log', ckpt'.vals.guarded)
  BY <1>2 DEF Inv, Shapes, AboutToExecute
<1> HIDE DEF a
<1> QED BY <1>1, <1>2, <1>3, <1>4, CallKeeps

\* The pause keeps the checkpoint's node and state.
LEMMA InterruptKeeps == ASSUME Inv, NEW c \in Calls, Interrupt(c) PROVE Inv'
<1> DEFINE a == Answer(c, "WAITING_APPROVAL")
<1>1. a \in CallShape /\ a.pc = "idle"
  BY AnswerShape DEF Replies
<1>2. /\ call' = [call EXCEPT ![c] = a] /\ UNCHANGED <<log, executions>>
      /\ question' = question /\ generated' \in Nat
  BY DEF Interrupt, environment, history, Inv, Shapes
<1>3. Grows /\ Executions
  BY <1>2, SameGrows, SameExecutions
<1>4. /\ ckpt' \in [next: Nodes \cup {"none", "END"}, vals: Shape, error: BOOLEAN, interrupted: BOOLEAN]
      /\ ckpt'.next = ckpt.next /\ ckpt'.vals = ckpt.vals
  BY DEF Interrupt, Inv, Shapes
<1>5. ckpt'.next = "execute_sql" => Clear(log', ckpt'.vals.guarded)
  BY <1>2, <1>4 DEF Inv, AboutToExecute
<1> HIDE DEF a
<1> QED BY <1>1, <1>2, <1>3, <1>4, <1>5, CallKeeps

\* A failing execute_sql may have executed, but only what was cleared.
LEMMA NodeFailsKeeps == ASSUME Inv, NEW c \in Calls, NodeFails(c) PROVE Inv'
<1> DEFINE r == IF call[c].op = "start" /\ ckpt'.error THEN Inspect' ELSE "error"
           a == Answer(c, r)
<1>1. /\ ckpt' \in [next: Nodes \cup {"none", "END"}, vals: Shape, error: BOOLEAN, interrupted: BOOLEAN]
      /\ ckpt'.next = ckpt.next /\ ckpt'.vals = ckpt.vals
  BY DEF NodeFails, Inv, Shapes
<1>2. r \in Replies
  <2>1. Status(ckpt'.vals, ckpt'.interrupted) \in Replies
    BY <1>1, StatusType
  <2>2. Inspect' \in Replies
    BY <2>1 DEF Inspect, Replies, Final
  <2> QED BY <2>2 DEF Replies
<1>3. /\ call' = [call EXCEPT ![c] = a] /\ UNCHANGED log
      /\ question' = question /\ generated' \in Nat
  BY DEF NodeFails, environment, Inv, Shapes
<1> HIDE DEF r
<1>4. a \in CallShape /\ a.pc = "idle"
  BY <1>2, AnswerShape
<1>5. Grows
  BY <1>3, SameGrows
<1>6. Executions
  <2>1. CASE UNCHANGED executions
    BY <1>5, <2>1, SameExecutions
  <2>2. CASE At(c, "execute_sql") /\ executions' = Executed(call[c].vals.guarded)
    BY <1>3, <2>2, ExecutedIsClear
  <2> QED BY <2>1, <2>2 DEF NodeFails
<1>7. ckpt'.next = "execute_sql" => Clear(log', ckpt'.vals.guarded)
  BY <1>1, <1>3 DEF Inv, AboutToExecute
<1> HIDE DEF a
<1> QED BY <1>1, <1>3, <1>4, <1>5, <1>6, <1>7, CallKeeps

\* A crash ends the requests and keeps the checkpoint.
LEMMA CrashKeeps == ASSUME Inv, Crash PROVE Inv'
<1>1. \A c \in Calls : Answer(c, "error") \in CallShape /\ Answer(c, "error").pc = "idle"
  BY AnswerShape DEF Replies
<1>2. /\ call' = [c \in Calls |-> IF call[c].pc = "idle" THEN call[c] ELSE Answer(c, "error")]
      /\ UNCHANGED <<question, ckpt, generated, log, executions>>
  BY DEF Crash, environment, history
<1>3. \A c \in Calls : call'[c] \in CallShape /\ call'[c].pc = "idle"
  BY <1>1, <1>2 DEF Inv, Shapes
<1>4. call' \in [Calls -> CallShape]
  BY <1>2, <1>3
<1>5. Shapes'
  BY <1>2, <1>4 DEF Inv, Shapes
<1>6. AboutToExecute'
  BY <1>2, <1>3 DEF Inv, AboutToExecute, At
<1>7. AllClear'
  BY <1>2 DEF Inv, AllClear
<1> QED BY <1>5, <1>6, <1>7 DEF Inv

----------------------------------------------------------------------------
(* The theorem *)

\* Every action keeps the invariant.
LEMMA NextKeeps == ASSUME Inv, [Next]_vars PROVE Inv'
<1>1. ASSUME NEW c \in Calls, GraphStep(c) PROVE Inv'
  BY <1>1, InvokeKeeps, InvokeResumeKeeps, ClassifyKeeps, RetrieveMetricsKeeps, SelectSchemaKeeps,
     GenerateSqlKeeps, GuardSqlKeeps, AskKeeps, InterruptKeeps, DecideKeeps, ExecuteSqlKeeps,
     VerifyKeeps, ComposeKeeps DEF GraphStep
<1>2. ASSUME NEW c \in Calls, Start(c) \/ NodeFails(c) \/ \E d \in Decisions : Resume(c, d)
      PROVE  Inv'
  BY <1>2, StartKeeps, NodeFailsKeeps, ResumeKeeps
<1>3. CASE Crash
  BY <1>3, CrashKeeps
<1>4. CASE UNCHANGED vars
  BY <1>4 DEF vars, environment, history, Inv, Shapes, AboutToExecute, AllClear, At
<1> QED BY <1>1, <1>2, <1>3, <1>4 DEF Next

\* For every number of requests, repairs and faults: no statement reaches the business
\* database unless guard_sql found it safe or request_approval was resumed with
\* "approved" for that very statement.
THEOREM OnlyClearedExecuted == Spec => []ExecutedWasCleared
<1>1. Init => Inv
  <2> SUFFICES ASSUME Init PROVE Inv
    OBVIOUS
  <2>1. ckpt.next = "none" /\ \A c \in Calls : call[c].pc = "idle"
    BY DEF Init, NoCheckpoint, NoCall
  <2>2. NoCall \in CallShape
    BY NoValuesShape DEF NoCall, CallShape, Replies
  <2>3. NoCheckpoint \in [next: Nodes \cup {"none", "END"}, vals: Shape, error: BOOLEAN,
                         interrupted: BOOLEAN]
    BY NoValuesShape DEF NoCheckpoint
  <2>4. Shapes
    BY <2>2, <2>3 DEF Init, Shapes
  <2>5. AboutToExecute /\ AllClear
    BY <2>1 DEF Init, AboutToExecute, At, AllClear
  <2> QED BY <2>4, <2>5 DEF Inv
<1>2. Inv => ExecutedWasCleared
  BY DEF Inv, AllClear, Clear, ExecutedWasCleared
<1>3. Inv /\ [Next]_vars => Inv'
  BY NextKeeps
<1> QED BY <1>1, <1>2, <1>3, PTL DEF Spec

----------------------------------------------------------------------------
(* What a run ends with, and how often it executes *)

\* What a COMPLETED answer to a data question is about.
Answered(v, l) == v.rows = v.sql /\ v.sql \in Statements /\ "verified" \in l[v.sql]

\* What node n, or the end, finds in the state v of a run for question q.
Sound(q, n, v, l) ==
  /\ v.risk = "blocked" => q = "blocked"
  /\ n \in Nodes \ {"classify"} => v.intent = q /\ q # "blocked"
  /\ n = "guard_sql" => v.sql \in Statements
  /\ n \in {"request_approval", "execute_sql"} => v.sql \in Statements /\ v.guarded = v.sql
  /\ n = "verify" => v.sql \in Statements /\ v.rows = v.sql
  /\ n = "compose" /\ q = "hybrid" =>
       v.error # "EVIDENCE" /\ (v.error = "none" => Answered(v, l))
  /\ n = "END" =>
       /\ Status(v, FALSE) \in Final
       /\ Status(v, FALSE) = "COMPLETED" /\ q = "hybrid" => Answered(v, l)

AtWork(c) == call[c].pc \in {"node", "pause"}

AllSound ==
  /\ Sound(question, ckpt.next, ckpt.vals, log)
  /\ \A c \in Calls : AtWork(c) => Sound(question, call[c].node, call[c].vals, log)

\* The run can go on: a request is at work on it, or a decision is awaited.
Live == ckpt.interrupted \/ \E c \in Calls : AtWork(c)

Alone(c) == call[c].pc # "idle" => \A d \in Calls \ {c} : call[d].pc = "idle"

Shown(s) == s \in Statements => "shown" \in log[s]

\* A request that begins finds no run, one that resumes finds the pause it was admitted
\* for, and one at work is where the checkpoint is.
Agrees(c) ==
  /\ call[c].pc = "invoke" => ckpt = NoCheckpoint /\ call[c].decision = "none"
  /\ call[c].pc = "resume" => /\ ckpt.interrupted /\ call[c].decision # "none"
                              /\ Shown(ckpt.vals.guarded)
  /\ AtWork(c) =>
       /\ c \in head /\ call[c].node = ckpt.next /\ call[c].vals = ckpt.vals
       /\ ckpt.next \in Nodes
       /\ ckpt.interrupted <=> call[c].decision # "none"
       /\ ckpt.interrupted => Shown(ckpt.vals.guarded)
       /\ ~ckpt.interrupted => ~ckpt.error
  /\ call[c].pc = "pause" => ckpt.next = "request_approval" /\ ~ckpt.interrupted

\* What is about to be executed was not executed.
Unspent ==
  /\ \A s \in Statements : s > generated => executions[s] = 0
  /\ ckpt.vals.sql <= generated /\ ckpt.vals.guarded <= generated
  /\ Live =>
       /\ ckpt.next = "guard_sql" => executions[ckpt.vals.sql] = 0
       /\ ckpt.next \in {"request_approval", "execute_sql"} => executions[ckpt.vals.guarded] = 0

Once == \A s \in Statements : /\ executions[s] <= 1
                              /\ "approved" \in log[s] => "shown" \in log[s]

Serial ==
  /\ \A c \in Calls : Alone(c) /\ Agrees(c)
  /\ ckpt.interrupted => ckpt.next = "request_approval"
  /\ ckpt.next = "none" => ckpt = NoCheckpoint
  /\ Unspent /\ Once

RunInv == Inv /\ AllSound /\ exclusive \in BOOLEAN /\ (exclusive => Serial)

----------------------------------------------------------------------------
(* A node that commits *)

\* A node commits v and goes to next.  What the next node takes for granted holds, and
\* when requests do not overlap nothing is ahead of v that was executed already.
Advance(c, v, next) ==
  /\ v \in Shape /\ next \in Nodes \cup {"END"}
  /\ call[c].pc = "node" /\ Commit(c, v, next) /\ UNCHANGED environment
  /\ Grows /\ Sound(question, next, v, log')
  /\ exclusive =>
       /\ v.sql <= generated' /\ v.guarded <= generated'
       /\ \A s \in Statements : s > generated' => executions'[s] = 0
       /\ next = "guard_sql" => executions'[v.sql] = 0
       /\ next \in {"request_approval", "execute_sql"} => executions'[v.guarded] = 0
       /\ Once'
       /\ ckpt.interrupted /\ next = "END" => Status(v, FALSE) = "REJECTED"

\* What is sound stays so while marks are added.
LEMMA SoundStays ==
  ASSUME NEW q, NEW n, NEW v \in Shape, NEW l, NEW m,
         \A s \in Statements : l[s] \subseteq m[s], Sound(q, n, v, l)
  PROVE  Sound(q, n, v, m)
BY DEF Sound, Answered

\* The shapes of the requests and of the checkpoint.
LEMMA ShapesOf ==
  ASSUME Inv
  PROVE  /\ question \in {"blocked", "knowledge", "hybrid"} /\ generated \in Nat
         /\ ckpt \in [next: Nodes \cup {"none", "END"}, vals: Shape, error: BOOLEAN,
                      interrupted: BOOLEAN]
         /\ ckpt.vals \in Shape /\ ckpt.next \in Nodes \cup {"none", "END"}
         /\ ckpt.interrupted \in BOOLEAN /\ ckpt.error \in BOOLEAN
         /\ call \in [Calls -> CallShape]
         /\ \A c \in Calls : /\ call[c] \in CallShape /\ call[c].vals \in Shape
                             /\ call[c].node \in Nodes \cup {"none"}
                             /\ call[c].pc \in {"idle", "invoke", "resume", "node", "pause"}
                             /\ call[c].decision \in Decisions \cup {"none"}
BY DEF Inv, Shapes, CallShape

\* The request and the checkpoint that a commit leaves.
LEMMA CommitLeaves ==
  ASSUME Inv, NEW c \in Calls, NEW v, NEW next, Commit(c, v, next), v \in Shape,
         next \in Nodes \cup {"END"}, call[c].pc = "node"
  PROVE  /\ ckpt'.next = next /\ ckpt'.vals = v /\ ~ckpt'.error /\ ~ckpt'.interrupted
         /\ head' = {c}
         /\ next = "END" => call'[c].pc = "idle"
         /\ next # "END" => /\ call'[c].pc = "node" /\ call'[c].node = next
                            /\ call'[c].vals = v /\ call'[c].decision = "none"
         /\ \A d \in Calls \ {c} : call'[d] = call[d]
<1>1. ckpt' = [next |-> next, vals |-> v, error |-> FALSE, interrupted |-> FALSE] /\ head' = {c}
  BY DEF Commit
<1> DEFINE a == IF next = "END" THEN Answer(c, Status(v, FALSE))
                ELSE [call[c] EXCEPT !.node = next, !.vals = v, !.decision = "none"]
<1>2. call \in [Calls -> CallShape] /\ call[c] \in CallShape /\ call' = [call EXCEPT ![c] = a]
  BY ShapesOf DEF Commit
<1>3. next = "END" => a.pc = "idle"
  BY DEF Answer, NoCall
<1>4. next # "END" => a.pc = "node" /\ a.node = next /\ a.vals = v /\ a.decision = "none"
  BY <1>2 DEF CallShape
<1> HIDE DEF a
<1>5. call'[c] = a /\ \A d \in Calls \ {c} : call'[d] = call[d]
  BY <1>2
<1> QED
  BY <1>1, <1>3, <1>4, <1>5

\* A commit keeps every request and the checkpoint sound.
LEMMA AdvanceSound ==
  ASSUME RunInv, NEW c \in Calls, NEW v, NEW next, Advance(c, v, next)
  PROVE  AllSound'
<1>1. /\ ckpt'.next = next /\ ckpt'.vals = v /\ question' = question
      /\ next = "END" => call'[c].pc = "idle"
      /\ next # "END" => call'[c].node = next /\ call'[c].vals = v
      /\ \A d \in Calls \ {c} : call'[d] = call[d]
  BY CommitLeaves DEF RunInv, Advance, environment
<1>2. Sound(question, next, v, log')
  BY DEF Advance
<1>3. ASSUME NEW d \in Calls, AtWork(d)' PROVE Sound(question, call'[d].node, call'[d].vals, log')
  <2>1. CASE d = c
    <3>1. next # "END"
      BY <1>1, <1>3, <2>1 DEF AtWork
    <3> QED
      BY <1>1, <1>2, <2>1, <3>1
  <2>2. CASE d # c
    <3>1. call'[d] = call[d] /\ AtWork(d)
      BY <1>1, <1>3, <2>2 DEF AtWork
    <3>2. Sound(question, call[d].node, call[d].vals, log) /\ call[d].vals \in Shape
      BY <3>1, ShapesOf DEF RunInv, AllSound
    <3>3. Sound(question, call[d].node, call[d].vals, log')
      BY <3>2, SoundStays DEF Advance, Grows
    <3> QED
      BY <3>1, <3>3
  <2> QED
    BY <2>1, <2>2
<1> QED
  BY <1>1, <1>2, <1>3 DEF AllSound

\* When requests do not overlap, it keeps the request and the checkpoint in agreement.
LEMMA AdvanceSerial ==
  ASSUME RunInv, NEW c \in Calls, NEW v, NEW next, Advance(c, v, next), exclusive
  PROVE  Serial'
<1>0. v \in Shape /\ next \in Nodes \cup {"END"} /\ Serial
  BY DEF Advance, RunInv
<1>1. /\ ckpt'.next = next /\ ckpt'.vals = v /\ ~ckpt'.error /\ ~ckpt'.interrupted
      /\ head' = {c}
      /\ next = "END" => call'[c].pc = "idle"
      /\ next # "END" => /\ call'[c].pc = "node" /\ call'[c].node = next
                         /\ call'[c].vals = v /\ call'[c].decision = "none"
      /\ \A d \in Calls \ {c} : call'[d] = call[d]
  BY CommitLeaves DEF RunInv, Advance
<1>2. \A d \in Calls \ {c} : call'[d].pc = "idle"
  BY <1>0, <1>1 DEF Serial, Alone, Advance
<1>3. \A d \in Calls : Alone(d)'
  BY <1>2 DEF Alone
<1>4. \A d \in Calls : Agrees(d)'
  <2>1. Agrees(c)'
    <3>1. CASE next = "END"
      BY <1>1, <3>1 DEF Agrees, AtWork
    <3>2. CASE next # "END"
      BY <1>0, <1>1, <3>2 DEF Agrees, AtWork
    <3> QED
      BY <3>1, <3>2
  <2>2. \A d \in Calls \ {c} : Agrees(d)'
    BY <1>2 DEF Agrees, AtWork
  <2> QED
    BY <2>1, <2>2
<1>5. ckpt'.next # "none"
  BY <1>0, <1>1 DEF Nodes
<1>6. Unspent' /\ Once'
  BY <1>1 DEF Advance, Unspent
<1> QED
  BY <1>1, <1>3, <1>4, <1>5, <1>6 DEF Serial

\* The run goes on, or ends with a final status; a pause ends with a decision only.
Moves ==
  exclusive => \/ RunState' = RunState
               \/ RunState = "none" /\ RunState' = "running"
               \/ RunState = "running" /\ RunState' \in Final \cup {"waiting"}
               \/ RunState = "waiting" /\ RunState' \in {"running", "REJECTED"}

\* A commit moves the run forward.
LEMMA AdvanceMoves ==
  ASSUME RunInv, NEW c \in Calls, NEW v, NEW next, Advance(c, v, next)
  PROVE  Moves
<1> SUFFICES ASSUME exclusive
             PROVE  \/ RunState' = RunState
                    \/ RunState = "running" /\ RunState' \in Final \cup {"waiting"}
                    \/ RunState = "waiting" /\ RunState' \in {"running", "REJECTED"}
  BY DEF Moves
<1>0. v \in Shape /\ next \in Nodes \cup {"END"} /\ Serial
  BY DEF Advance, RunInv
<1>1. /\ ckpt'.next = next /\ ckpt'.vals = v /\ ~ckpt'.error /\ ~ckpt'.interrupted
  BY CommitLeaves DEF RunInv, Advance
<1>2. AtWork(c) /\ Agrees(c)
  BY <1>0 DEF Advance, AtWork, Serial
<1>3. /\ ckpt.next \in Nodes /\ ckpt.interrupted \in BOOLEAN /\ (~ckpt.interrupted => ~ckpt.error)
  BY <1>2, ShapesOf DEF Agrees, RunInv
<1>4. RunState = IF ckpt.interrupted THEN "waiting" ELSE "running"
  BY <1>3 DEF RunState, Exists, Nodes
<1>5. CASE next = "END"
  <2>1. RunState' = Status(v, FALSE)
    BY <1>1, <1>5 DEF RunState, Exists, Nodes
  <2>2. Status(v, FALSE) \in Final /\ (ckpt.interrupted => Status(v, FALSE) = "REJECTED")
    BY <1>5 DEF Advance, Sound
  <2> QED
    BY <1>4, <2>1, <2>2
<1>6. CASE next # "END"
  <2>1. RunState' = "running"
    BY <1>0, <1>1, <1>6 DEF RunState, Exists, Nodes
  <2> QED
    BY <1>4, <2>1
<1> QED
  BY <1>5, <1>6

\* What a request at node n finds.
LEMMA AtNode ==
  ASSUME RunInv, NEW c \in Calls, NEW n \in Nodes, At(c, n)
  PROVE  /\ call[c].vals \in Shape /\ call[c].pc = "node" /\ Sound(question, n, call[c].vals, log)
         /\ exclusive =>
              /\ call[c].vals.sql <= generated /\ call[c].vals.guarded <= generated
              /\ \A s \in Statements : s > generated => executions[s] = 0
              /\ n = "guard_sql" => executions[call[c].vals.sql] = 0
              /\ n \in {"request_approval", "execute_sql"} => executions[call[c].vals.guarded] = 0
              /\ Once
              /\ ckpt.interrupted => n = "request_approval"
              /\ call[c].decision # "none" => Shown(call[c].vals.guarded)
              /\ ckpt.interrupted => call[c].decision # "none"
<1>1. call[c].pc = "node" /\ call[c].node = n /\ AtWork(c)
  BY DEF At, AtWork
<1>2. call[c].vals \in Shape /\ Sound(question, n, call[c].vals, log)
  BY <1>1, ShapesOf DEF RunInv, AllSound
<1>3. ASSUME exclusive
      PROVE  /\ call[c].vals = ckpt.vals /\ n = ckpt.next /\ Unspent /\ Once /\ Live
             /\ ckpt.interrupted => ckpt.next = "request_approval"
             /\ call[c].decision # "none" => Shown(ckpt.vals.guarded)
             /\ ckpt.interrupted => call[c].decision # "none"
  BY <1>1, <1>3, ShapesOf DEF RunInv, Serial, Agrees, Live
<1> QED
  BY <1>1, <1>2, <1>3 DEF Unspent

\* classify either ends the run or puts the question into the state.
LEMMA ClassifyAdvances ==
  ASSUME RunInv, NEW c \in Calls, Classify(c)
  PROVE  \E v, next : Advance(c, v, next)
<1> DEFINE v == call[c].vals
           u == IF question = "blocked" THEN [v EXCEPT !.risk = "blocked", !.error = "QUESTION"]
                ELSE [v EXCEPT !.intent = question, !.error = "none"]
           n == IF u.risk = "blocked" THEN "END" ELSE "retrieve_metrics"
<1>1. At(c, "classify") /\ "classify" \in Nodes
  BY DEF Classify, Nodes
<1>2. /\ v \in Shape /\ call[c].pc = "node" /\ Sound(question, "classify", v, log)
      /\ exclusive => /\ v.sql <= generated /\ v.guarded <= generated /\ Once
                      /\ \A s \in Statements : s > generated => executions[s] = 0
                      /\ ~ckpt.interrupted
  BY <1>1, AtNode
<1>3. question \in {"blocked", "knowledge", "hybrid"} /\ Inv
  BY ShapesOf DEF RunInv
<1>4. /\ u \in Shape /\ u.sql = v.sql /\ u.guarded = v.guarded
      /\ question = "blocked" => u.risk = "blocked"
      /\ question # "blocked" => u.risk = v.risk /\ u.intent = question
  BY <1>2, <1>3 DEF Shape, Risks, Errors
<1>5. Commit(c, u, n) /\ UNCHANGED <<generated, log, executions>> /\ UNCHANGED environment
  BY DEF Classify, history
<1>6. Grows
  BY <1>3, <1>5, SameGrows
<1> HIDE DEF u
<1>7. n = IF question = "blocked" THEN "END" ELSE "retrieve_metrics"
  BY <1>2, <1>4 DEF Sound
<1> HIDE DEF n
<1>8. Sound(question, n, u, log')
  <2>1. CASE question = "blocked"
    BY <1>4, <1>7, <2>1 DEF Sound, Status, Final, Nodes
  <2>2. CASE question # "blocked"
    BY <1>2, <1>4, <1>7, <2>2 DEF Sound
  <2> QED
    BY <2>1, <2>2
<1>9. n \in Nodes \cup {"END"} /\ n \notin {"guard_sql", "request_approval", "execute_sql"}
  BY <1>7 DEF Nodes
<1>10. exclusive => Once'
  BY <1>2, <1>5 DEF Once
<1> QED
  BY <1>2, <1>4, <1>5, <1>6, <1>8, <1>9, <1>10 DEF Advance

\* retrieve_metrics goes to compose for a knowledge question only.
LEMMA RetrieveMetricsAdvances ==
  ASSUME RunInv, NEW c \in Calls, RetrieveMetrics(c)
  PROVE  \E v, next : Advance(c, v, next)
<1> DEFINE v == call[c].vals
           n == IF v.intent = "knowledge" THEN "compose" ELSE "select_schema"
<1>1. At(c, "retrieve_metrics") /\ "retrieve_metrics" \in Nodes
  BY DEF RetrieveMetrics, Nodes
<1>2. /\ v \in Shape /\ call[c].pc = "node" /\ Sound(question, "retrieve_metrics", v, log)
      /\ exclusive => /\ v.sql <= generated /\ v.guarded <= generated /\ Once
                      /\ \A s \in Statements : s > generated => executions[s] = 0
                      /\ ~ckpt.interrupted
  BY <1>1, AtNode
<1>3. PICK e \in {"none", "EVIDENCE"} : Commit(c, [v EXCEPT !.error = e], n)
  BY DEF RetrieveMetrics
<1> DEFINE u == [v EXCEPT !.error = e]
<1>4. /\ u \in Shape /\ u.sql = v.sql /\ u.guarded = v.guarded /\ u.risk = v.risk /\ u.intent = v.intent
  BY <1>2 DEF Shape, Errors
<1>5. Commit(c, u, n) /\ UNCHANGED <<generated, log, executions>> /\ UNCHANGED environment
  BY <1>3 DEF RetrieveMetrics, history
<1>6. Grows
  BY <1>5, SameGrows DEF RunInv
<1> HIDE DEF u
<1>7. n \in {"compose", "select_schema"} /\ (n = "compose" => v.intent = "knowledge")
  OBVIOUS
<1> HIDE DEF n
<1>8. Sound(question, n, u, log')
  BY <1>2, <1>4, <1>7 DEF Sound, Nodes
<1>9. exclusive => Once'
  BY <1>2, <1>5 DEF Once
<1> QED
  BY <1>2, <1>4, <1>5, <1>6, <1>7, <1>8, <1>9 DEF Advance, Nodes

\* select_schema leaves all of it alone.
LEMMA SelectSchemaAdvances ==
  ASSUME RunInv, NEW c \in Calls, SelectSchema(c)
  PROVE  \E v, next : Advance(c, v, next)
<1> DEFINE v == call[c].vals
<1>1. At(c, "select_schema") /\ "select_schema" \in Nodes
  BY DEF SelectSchema, Nodes
<1>2. /\ v \in Shape /\ call[c].pc = "node" /\ Sound(question, "select_schema", v, log)
      /\ exclusive => /\ v.sql <= generated /\ v.guarded <= generated /\ Once
                      /\ \A s \in Statements : s > generated => executions[s] = 0
                      /\ ~ckpt.interrupted
  BY <1>1, AtNode
<1>3. Commit(c, v, "generate_sql") /\ UNCHANGED <<generated, log, executions>> /\ UNCHANGED environment
  BY DEF SelectSchema, history
<1>4. Grows
  BY <1>3, SameGrows DEF RunInv
<1> HIDE DEF v
<1>5. Sound(question, "generate_sql", v, log')
  BY <1>2 DEF Sound, Nodes
<1>6. exclusive => Once'
  BY <1>2, <1>3 DEF Once
<1>7. Advance(c, v, "generate_sql")
  BY <1>2, <1>3, <1>4, <1>5, <1>6 DEF Advance, Nodes
<1> QED
  BY <1>7

\* A request at generate_sql finds a statement that was not generated (HasRoom, below,
\* shows that one always does).
Room == \A c \in Calls : At(c, "generate_sql") => generated + 1 \in Statements

\* A new statement was never executed.
LEMMA GenerateSqlAdvances ==
  ASSUME RunInv, Room, NEW c \in Calls, GenerateSql(c)
  PROVE  \E v, next : Advance(c, v, next)
<1> DEFINE v == call[c].vals
           u == [v EXCEPT !.sql = generated + 1, !.attempts = @ + 1, !.error = "none"]
<1>1. At(c, "generate_sql") /\ "generate_sql" \in Nodes
  BY DEF GenerateSql, Nodes
<1>2. /\ v \in Shape /\ call[c].pc = "node" /\ Sound(question, "generate_sql", v, log)
      /\ exclusive => /\ v.sql <= generated /\ v.guarded <= generated /\ Once
                      /\ \A s \in Statements : s > generated => executions[s] = 0
                      /\ ~ckpt.interrupted
  BY <1>1, AtNode
<1>3. /\ Commit(c, u, "guard_sql") /\ UNCHANGED <<log, executions>> /\ UNCHANGED environment
      /\ generated' = generated + 1 /\ generated + 1 \in Statements
  BY DEF GenerateSql, Room
<1>4. generated \in Nat /\ v.attempts \in Nat /\ v.guarded \in Nat
  BY <1>2, ShapesOf DEF RunInv, Shape
<1>5. /\ u \in Shape /\ u.sql = generated + 1 /\ u.guarded = v.guarded /\ u.risk = v.risk
      /\ u.intent = v.intent
  <2>1. u = [v EXCEPT !.sql = generated + 1, !.attempts = v.attempts + 1, !.error = "none"]
    BY <1>2 DEF Shape
  <2>2. generated + 1 \in Nat /\ v.attempts + 1 \in Nat
    BY <1>4
  <2> HIDE DEF u
  <2> QED
    BY <1>2, <2>1, <2>2 DEF Shape, Errors
<1>6. Grows
  BY <1>3, SameGrows DEF RunInv
<1> HIDE DEF u
<1>7. Sound(question, "guard_sql", u, log')
  BY <1>2, <1>3, <1>5 DEF Sound, Nodes
<1>8. exclusive => /\ u.sql <= generated' /\ u.guarded <= generated' /\ executions'[u.sql] = 0
                   /\ \A s \in Statements : s > generated' => executions'[s] = 0
  BY <1>2, <1>3, <1>4, <1>5 DEF Statements
<1>9. exclusive => Once'
  BY <1>2, <1>3 DEF Once
<1>10. Advance(c, u, "guard_sql")
  BY <1>2, <1>3, <1>5, <1>6, <1>7, <1>8, <1>9 DEF Advance, Nodes
<1> QED
  BY <1>10

\* What the guard lets pass, or leaves to an approval, is the last statement generated.
LEMMA GuardSqlAdvances ==
  ASSUME RunInv, NEW c \in Calls, GuardSql(c)
  PROVE  \E v, next : Advance(c, v, next)
<1> DEFINE v == call[c].vals
           bad == [v EXCEPT !.risk = "repair", !.error = "GUARD"]
           good(r) == [v EXCEPT !.risk = r, !.guarded = v.sql, !.error = "none"]
<1>1. At(c, "guard_sql") /\ "guard_sql" \in Nodes
  BY DEF GuardSql, Nodes
<1>2. /\ v \in Shape /\ call[c].pc = "node" /\ Sound(question, "guard_sql", v, log)
      /\ exclusive => /\ v.sql <= generated /\ v.guarded <= generated /\ Once
                      /\ \A s \in Statements : s > generated => executions[s] = 0
                      /\ ~ckpt.interrupted /\ executions[v.sql] = 0
  BY <1>1, AtNode
<1>3. UNCHANGED <<generated, executions>> /\ UNCHANGED environment
  BY DEF GuardSql
<1>4. v.sql \in Statements /\ v.intent = question /\ question # "blocked" /\ v.risk # "blocked"
  BY <1>2 DEF Sound, Nodes
<1>5. CASE Commit(c, bad, AfterGuard(bad)) /\ UNCHANGED log
  <2>1. /\ bad \in Shape /\ bad.risk = "repair" /\ bad.error = "GUARD" /\ bad.sql = v.sql
        /\ bad.guarded = v.guarded /\ bad.intent = v.intent
    BY <1>2 DEF Shape, Risks, Errors
  <2> HIDE DEF bad
  <2>2. AfterGuard(bad) \in {"generate_sql", "END"}
    BY <2>1 DEF AfterGuard
  <2>3. Grows
    BY <1>5, SameGrows DEF RunInv
  <2>4. Status(bad, FALSE) = "FAILED"
    BY <2>1 DEF Status
  <2>5. Sound(question, AfterGuard(bad), bad, log')
    BY <1>4, <2>1, <2>2, <2>4 DEF Sound, Nodes, Final
  <2>6. exclusive => Once'
    BY <1>2, <1>3, <1>5 DEF Once
  <2>7. Advance(c, bad, AfterGuard(bad))
    BY <1>2, <1>3, <1>5, <2>1, <2>2, <2>3, <2>5, <2>6 DEF Advance, Nodes
  <2> QED
    BY <2>7
<1>6. ASSUME NEW r \in {"approval", "safe"}, Commit(c, good(r), AfterGuard(good(r))),
             Grows, exclusive => Once'
      PROVE  \E u, next : Advance(c, u, next)
  <2> DEFINE u == good(r)
  <2>1. /\ u \in Shape /\ u.risk = r /\ u.sql = v.sql /\ u.guarded = v.sql /\ u.intent = v.intent
    BY <1>2 DEF Shape, Risks, Errors
  <2>2. Commit(c, u, AfterGuard(u))
    BY <1>6
  <2> HIDE DEF u
  <2>3. AfterGuard(u) \in {"request_approval", "execute_sql"}
    BY <2>1 DEF AfterGuard
  <2>4. Sound(question, AfterGuard(u), u, log')
    BY <1>4, <2>1, <2>3 DEF Sound, Nodes
  <2>5. Advance(c, u, AfterGuard(u))
    BY <1>2, <1>3, <1>6, <2>1, <2>2, <2>3, <2>4 DEF Advance, Nodes
  <2> QED
    BY <2>5
<1>7. CASE \E r \in {"approval", "safe"} :
             /\ Commit(c, good(r), AfterGuard(good(r)))
             /\ IF r = "safe" THEN Mark(v.sql, "safe") ELSE UNCHANGED log
  <2>1. PICK r \in {"approval", "safe"} :
             /\ Commit(c, good(r), AfterGuard(good(r)))
             /\ IF r = "safe" THEN Mark(v.sql, "safe") ELSE UNCHANGED log
    BY <1>7
  <2>2. v.sql \in Nat
    BY <1>2 DEF Shape
  <2>3. Grows
    BY <2>1, <2>2, MarkGrows, SameGrows DEF RunInv, Marks
  <2>4. exclusive => Once'
    <3>1. \A s \in Statements : "approved" \in log'[s] => "approved" \in log[s]
      BY <1>4, <2>1 DEF Mark, RunInv, Inv, Shapes
    <3> QED
      BY <1>2, <1>3, <2>3, <3>1 DEF Once, Grows
  <2> QED
    BY <1>6, <2>1, <2>3, <2>4
<1> QED
  BY <1>5, <1>7 DEF GuardSql

\* A decision is about the statement that was shown.
LEMMA DecideAdvances ==
  ASSUME RunInv, NEW c \in Calls, Decide(c)
  PROVE  \E v, next : Advance(c, v, next)
<1> DEFINE v == call[c].vals
           d == call[c].decision
           no == [v EXCEPT !.decision = d, !.error = "APPROVAL_REJECTED"]
           yes == [v EXCEPT !.decision = d, !.error = "none"]
<1>1. At(c, "request_approval") /\ "request_approval" \in Nodes
  BY DEF Decide, Nodes
<1>2. /\ v \in Shape /\ call[c].pc = "node" /\ Sound(question, "request_approval", v, log)
      /\ exclusive => /\ v.sql <= generated /\ v.guarded <= generated /\ Once
                      /\ \A s \in Statements : s > generated => executions[s] = 0
                      /\ executions[v.guarded] = 0 /\ (d # "none" => Shown(v.guarded))
  BY <1>1, AtNode
<1>3. UNCHANGED <<generated, executions>> /\ UNCHANGED environment /\ d # "none"
  BY DEF Decide
<1>4. /\ v.sql \in Statements /\ v.guarded = v.sql /\ v.intent = question /\ question # "blocked"
      /\ v.risk # "blocked" /\ d \in Decisions
  BY <1>2, <1>3, ShapesOf DEF Sound, Nodes, RunInv
<1>5. CASE Commit(c, no, "END") /\ UNCHANGED log
  <2>1. /\ no \in Shape /\ no.error = "APPROVAL_REJECTED" /\ no.sql = v.sql /\ no.guarded = v.guarded
        /\ no.risk = v.risk
    BY <1>2, <1>4 DEF Shape, Errors
  <2> HIDE DEF no
  <2>2. Status(no, FALSE) = "REJECTED"
    BY <2>1 DEF Status
  <2>3. Grows /\ Sound(question, "END", no, log')
    BY <1>4, <1>5, <2>1, <2>2, SameGrows DEF RunInv, Sound, Nodes, Final
  <2>4. exclusive => Once'
    BY <1>2, <1>3, <1>5 DEF Once
  <2>5. Advance(c, no, "END")
    BY <1>2, <1>3, <1>5, <2>1, <2>2, <2>3, <2>4 DEF Advance
  <2> QED
    BY <2>5
<1>6. CASE Commit(c, yes, "execute_sql") /\ Mark(v.guarded, "approved")
  <2>1. yes \in Shape /\ yes.sql = v.sql /\ yes.guarded = v.guarded /\ yes.risk = v.risk /\ yes.intent = v.intent
    BY <1>2, <1>4 DEF Shape, Errors
  <2>2. Grows
    <3>1. v.guarded \in Nat
      BY <1>2 DEF Shape
    <3> QED
      BY <1>6, <3>1, MarkGrows DEF RunInv, Marks
  <2> HIDE DEF yes
  <2>3. Sound(question, "execute_sql", yes, log')
    BY <1>4, <2>1 DEF Sound, Nodes
  <2>4. exclusive => Once'
    <3>1. \A s \in Statements : "approved" \in log'[s] => "approved" \in log[s] \/ s = v.guarded
      BY <1>4, <1>6 DEF Mark, RunInv, Inv, Shapes
    <3> QED
      BY <1>2, <1>3, <2>2, <3>1 DEF Once, Grows, Shown
  <2>5. Advance(c, yes, "execute_sql")
    BY <1>2, <1>3, <1>6, <2>1, <2>2, <2>3, <2>4 DEF Advance, Nodes
  <2> QED
    BY <2>5
<1> QED
  BY <1>5, <1>6 DEF Decide

\* One more execution of a statement that was not executed and exists.
LEMMA ExecutedOnce ==
  ASSUME RunInv, NEW s \in Statements, executions[s] = 0, s <= generated, Once, UNCHANGED log,
         \A t \in Statements : t > generated => executions[t] = 0,
         executions' \in {executions, Executed(s)}
  PROVE  Once' /\ \A t \in Statements : t > generated => executions'[t] = 0
<1>1. executions \in [Statements -> Nat] /\ s \in Nat /\ generated \in Nat
  BY DEF RunInv, Inv, Shapes, Statements
<1>2. \A t \in Statements : executions'[t] = executions[t] \/ (t = s /\ executions'[t] = 1)
  BY <1>1 DEF Executed
<1> QED
  BY <1>1, <1>2 DEF Once, Statements

\* execute_sql executes the last statement generated, for the first time.
LEMMA ExecuteSqlAdvances ==
  ASSUME RunInv, NEW c \in Calls, ExecuteSql(c)
  PROVE  \E v, next : Advance(c, v, next)
<1> DEFINE v == call[c].vals
           u == [v EXCEPT !.rows = v.guarded, !.error = "none"]
<1>1. At(c, "execute_sql") /\ "execute_sql" \in Nodes
  BY DEF ExecuteSql, Nodes
<1>2. /\ v \in Shape /\ call[c].pc = "node" /\ Sound(question, "execute_sql", v, log)
      /\ exclusive => /\ v.sql <= generated /\ v.guarded <= generated /\ Once
                      /\ \A s \in Statements : s > generated => executions[s] = 0
                      /\ executions[v.guarded] = 0 /\ ~ckpt.interrupted
  BY <1>1, AtNode
<1>3. /\ Commit(c, u, "verify") /\ executions' = Executed(v.guarded)
      /\ UNCHANGED <<generated, log>> /\ UNCHANGED environment
  BY DEF ExecuteSql
<1>4. /\ v.sql \in Statements /\ v.guarded = v.sql /\ v.intent = question /\ question # "blocked"
      /\ v.risk # "blocked"
  BY <1>2 DEF Sound, Nodes
<1>5. /\ u \in Shape /\ u.sql = v.sql /\ u.guarded = v.guarded /\ u.rows = v.guarded
      /\ u.risk = v.risk /\ u.intent = v.intent
  BY <1>2 DEF Shape, Errors
<1> HIDE DEF u
<1>6. Grows /\ Sound(question, "verify", u, log')
  BY <1>3, <1>4, <1>5, SameGrows DEF RunInv, Sound, Nodes
<1>7. exclusive => Once' /\ \A t \in Statements : t > generated => executions'[t] = 0
  BY <1>2, <1>3, <1>4, ExecutedOnce
<1>8. Advance(c, u, "verify")
  BY <1>2, <1>3, <1>5, <1>6, <1>7 DEF Advance, Nodes
<1> QED
  BY <1>8

\* A result goes to compose without an error only when it was verified.
LEMMA VerifyAdvances ==
  ASSUME RunInv, NEW c \in Calls, Verify(c)
  PROVE  \E v, next : Advance(c, v, next)
<1> DEFINE v == call[c].vals
           good == [v EXCEPT !.error = "none"]
           bad == [v EXCEPT !.error = "COLUMNS"]
           n == IF v.attempts < MaxRepairs + 1 THEN "generate_sql" ELSE "compose"
<1>1. At(c, "verify") /\ "verify" \in Nodes
  BY DEF Verify, Nodes
<1>2. /\ v \in Shape /\ call[c].pc = "node" /\ Sound(question, "verify", v, log)
      /\ exclusive => /\ v.sql <= generated /\ v.guarded <= generated /\ Once
                      /\ \A s \in Statements : s > generated => executions[s] = 0
                      /\ ~ckpt.interrupted
  BY <1>1, AtNode
<1>3. UNCHANGED <<generated, executions>> /\ UNCHANGED environment
  BY DEF Verify
<1>4. /\ v.sql \in Statements /\ v.rows = v.sql /\ v.intent = question /\ question # "blocked"
      /\ v.risk # "blocked" /\ v.sql \in Nat
  BY <1>2 DEF Sound, Nodes, Shape
<1>5. CASE Commit(c, good, "compose") /\ Mark(v.rows, "verified")
  <2>1. /\ good \in Shape /\ good.sql = v.sql /\ good.guarded = v.guarded /\ good.rows = v.rows
        /\ good.risk = v.risk /\ good.intent = v.intent /\ good.error = "none"
    BY <1>2 DEF Shape, Errors
  <2>2. Grows /\ "verified" \in log'[v.sql]
    BY <1>4, <1>5, MarkGrows DEF RunInv, Marks
  <2> HIDE DEF good
  <2>3. Sound(question, "compose", good, log')
    BY <1>4, <2>1, <2>2 DEF Sound, Nodes, Answered
  <2>4. exclusive => Once'
    <3>1. \A s \in Statements : "approved" \in log'[s] => "approved" \in log[s]
      BY <1>4, <1>5 DEF Mark, RunInv, Inv, Shapes
    <3> QED
      BY <1>2, <1>3, <2>2, <3>1 DEF Once, Grows
  <2>5. Advance(c, good, "compose")
    BY <1>2, <1>3, <1>5, <2>1, <2>2, <2>3, <2>4 DEF Advance, Nodes
  <2> QED
    BY <2>5
<1>6. CASE Commit(c, bad, n) /\ UNCHANGED log
  <2>1. /\ bad \in Shape /\ bad.sql = v.sql /\ bad.guarded = v.guarded
        /\ bad.risk = v.risk /\ bad.intent = v.intent /\ bad.error = "COLUMNS"
    BY <1>2 DEF Shape, Errors
  <2>2. n \in {"generate_sql", "compose"}
    OBVIOUS
  <2> HIDE DEF bad, n
  <2>3. Grows /\ Sound(question, n, bad, log')
    BY <1>4, <1>6, <2>1, <2>2, SameGrows DEF RunInv, Sound, Nodes
  <2>4. exclusive => Once'
    BY <1>2, <1>3, <1>6 DEF Once
  <2>5. Advance(c, bad, n)
    BY <1>2, <1>3, <1>6, <2>1, <2>2, <2>3, <2>4 DEF Advance, Nodes
  <2> QED
    BY <2>5
<1> QED
  BY <1>5, <1>6 DEF Verify

\* compose gives an answer exactly when there is no error but missing evidence.
LEMMA ComposeAdvances ==
  ASSUME RunInv, NEW c \in Calls, Compose(c)
  PROVE  \E v, next : Advance(c, v, next)
<1> DEFINE v == call[c].vals
           b == v.error \in {"none", "EVIDENCE"}
           e == IF v.error = "EVIDENCE" THEN "none" ELSE v.error
           u == [v EXCEPT !.answer = b, !.error = e]
<1>1. At(c, "compose") /\ "compose" \in Nodes
  BY DEF Compose, Nodes
<1>2. /\ v \in Shape /\ call[c].pc = "node" /\ Sound(question, "compose", v, log)
      /\ exclusive => /\ v.sql <= generated /\ v.guarded <= generated /\ Once
                      /\ \A s \in Statements : s > generated => executions[s] = 0
                      /\ ~ckpt.interrupted
  BY <1>1, AtNode
<1>3. /\ Commit(c, u, "END") /\ UNCHANGED <<generated, log, executions>> /\ UNCHANGED environment
  <2>1. u = [v EXCEPT !.answer = v.error \in {"none", "EVIDENCE"},
                      !.error = IF @ = "EVIDENCE" THEN "none" ELSE @]
    BY <1>2 DEF Shape
  <2> HIDE DEF u
  <2> QED
    BY <2>1 DEF Compose, history
<1>4. b \in BOOLEAN /\ e \in Errors /\ (e = "none" <=> b) /\ (e = "none" => v.error \in {"none", "EVIDENCE"})
  BY <1>2 DEF Shape, Errors
<1> HIDE DEF b, e
<1>5. /\ u \in Shape /\ u.answer = b /\ u.error = e /\ u.sql = v.sql /\ u.guarded = v.guarded
      /\ u.rows = v.rows /\ u.risk = v.risk
  BY <1>2, <1>4 DEF Shape
<1> HIDE DEF u
<1>6. u.risk # "blocked"
  BY <1>2, <1>5 DEF Sound, Nodes
<1>7. /\ Status(u, FALSE) \in Final
      /\ Status(u, FALSE) = "COMPLETED" => v.error \in {"none", "EVIDENCE"}
  BY <1>4, <1>5, <1>6 DEF Status, Final
<1>8. Status(u, FALSE) = "COMPLETED" /\ question = "hybrid" => Answered(u, log')
  BY <1>2, <1>3, <1>5, <1>7 DEF Sound, Answered
<1>9. Grows /\ Sound(question, "END", u, log')
  BY <1>3, <1>6, <1>7, <1>8, SameGrows DEF RunInv, Sound, Nodes
<1>10. exclusive => Once'
  BY <1>2, <1>3 DEF Once
<1>11. Advance(c, u, "END")
  BY <1>2, <1>3, <1>5, <1>9, <1>10 DEF Advance
<1> QED
  BY <1>11

----------------------------------------------------------------------------
(* Requests, pauses and failures *)

\* A step of one request that is not a commit keeps the invariant when it keeps its own
\* part of it.
LEMMA RequestKeeps ==
  ASSUME RunInv, NEW c \in Calls, NEW a \in CallShape, call' = [call EXCEPT ![c] = a],
         Grows, UNCHANGED environment,
         Sound(question, ckpt'.next, ckpt'.vals, log'),
         a.pc \in {"node", "pause"} => Sound(question, a.node, a.vals, log'),
         exclusive => /\ \A d \in Calls \ {c} : call[d].pc = "idle"
                      /\ Agrees(c)' /\ Unspent' /\ Once'
                      /\ ckpt'.interrupted => ckpt'.next = "request_approval"
                      /\ ckpt'.next = "none" => ckpt' = NoCheckpoint
  PROVE  AllSound' /\ (exclusive => Serial)'
<1>1. call'[c] = a /\ \A d \in Calls \ {c} : call'[d] = call[d]
  BY ShapesOf DEF RunInv
<1>2. question' = question /\ exclusive' = exclusive
  BY DEF environment
<1>3. ASSUME NEW d \in Calls, AtWork(d)' PROVE Sound(question, call'[d].node, call'[d].vals, log')
  <2>1. CASE d = c
    BY <1>1, <1>3, <2>1 DEF AtWork
  <2>2. CASE d # c
    <3>1. call'[d] = call[d] /\ AtWork(d)
      BY <1>1, <1>3, <2>2 DEF AtWork
    <3>2. Sound(question, call[d].node, call[d].vals, log) /\ call[d].vals \in Shape
      BY <3>1, ShapesOf DEF RunInv, AllSound
    <3>3. Sound(question, call[d].node, call[d].vals, log')
      BY <3>2, SoundStays DEF Grows
    <3> QED
      BY <3>1, <3>3
  <2> QED
    BY <2>1, <2>2
<1>4. AllSound'
  BY <1>2, <1>3 DEF AllSound
<1>5. ASSUME exclusive PROVE Serial'
  <2>1. \A d \in Calls \ {c} : call'[d].pc = "idle"
    BY <1>1, <1>5
  <2>2. \A d \in Calls : Alone(d)'
    BY <2>1 DEF Alone
  <2>3. \A d \in Calls \ {c} : Agrees(d)'
    BY <2>1 DEF Agrees, AtWork
  <2> QED
    BY <1>5, <2>2, <2>3 DEF Serial
<1> QED
  BY <1>2, <1>4, <1>5

\* What is ahead stays unspent when nothing is executed and no run comes to life.
LEMMA UnspentStays ==
  ASSUME Unspent, UNCHANGED <<generated, executions>>, ckpt'.next = ckpt.next,
         ckpt'.vals = ckpt.vals, Live' => Live
  PROVE  Unspent'
BY DEF Unspent

\* Without a commit the checkpoint stays sound.
LEMMA CheckpointSound ==
  ASSUME RunInv, Grows, ckpt'.next = ckpt.next, ckpt'.vals = ckpt.vals
  PROVE  Sound(question, ckpt'.next, ckpt'.vals, log')
<1>1. Sound(question, ckpt.next, ckpt.vals, log) /\ ckpt.vals \in Shape
  BY ShapesOf DEF RunInv, AllSound
<1>2. Sound(question, ckpt.next, ckpt.vals, log')
  BY <1>1, SoundStays DEF Grows
<1> QED
  BY <1>2

\* A run whose checkpoint does not change stays where it is.
LEMMA SameRun == ASSUME UNCHANGED ckpt PROVE Moves
BY DEF Moves, RunState, Exists

\* What arriving means when requests do not overlap.
LEMMA ArrivesAlone ==
  ASSUME RunInv, NEW c \in Calls, Arrives(c), exclusive
  PROVE  /\ Serial /\ (\A d \in Calls : call[d].pc = "idle") /\ (Live => ckpt.interrupted)
BY DEF RunInv, Arrives, Live, AtWork

\* start does not invoke a run that exists.
LEMMA StartRuns ==
  ASSUME RunInv, NEW c \in Calls, Start(c)
  PROVE  AllSound' /\ (exclusive => Serial)' /\ Moves
<1> DEFINE a == IF Exists THEN [NoCall EXCEPT !.reply = Inspect] ELSE [NoCall EXCEPT !.pc = "invoke"]
<1>0. Inv
  BY DEF RunInv
<1>1. /\ a \in CallShape /\ a.pc \in {"idle", "invoke"} /\ (a.pc = "invoke" => ~Exists)
      /\ a.decision = "none"
  BY <1>0, InspectType, NoValuesShape DEF NoCall, CallShape, Replies
<1>2. /\ call' = [call EXCEPT ![c] = a] /\ UNCHANGED <<ckpt, head, generated, log, executions>>
      /\ UNCHANGED environment /\ Arrives(c)
  BY DEF Start, history
<1> HIDE DEF a
<1>3. Grows
  BY <1>0, <1>2, SameGrows
<1>4. Sound(question, ckpt'.next, ckpt'.vals, log')
  BY <1>2, <1>3, CheckpointSound
<1>5. call'[c] = a /\ \A d \in Calls \ {c} : call'[d] = call[d]
  BY <1>0, <1>2, ShapesOf
<1>6. ASSUME exclusive
      PROVE  /\ \A d \in Calls \ {c} : call[d].pc = "idle"
             /\ Agrees(c)' /\ Unspent' /\ Once'
             /\ ckpt'.interrupted => ckpt'.next = "request_approval"
             /\ ckpt'.next = "none" => ckpt' = NoCheckpoint
  <2>1. Serial /\ \A d \in Calls : call[d].pc = "idle"
    BY <1>2, <1>6, ArrivesAlone
  <2>2. Agrees(c)'
    BY <1>1, <1>2, <1>5, <2>1 DEF Agrees, AtWork, Serial, Exists
  <2>3. Live' => Live
    BY <1>1, <1>2, <1>5, <2>1 DEF Live, AtWork
  <2>4. Unspent' /\ Once'
    BY <1>2, <2>1, <2>3, UnspentStays DEF Serial, Once
  <2> QED
    BY <1>2, <2>1, <2>2, <2>4 DEF Serial
<1> QED
  BY <1>1, <1>2, <1>3, <1>4, <1>6, RequestKeeps, SameRun

\* resume shows the statement that waits, and is admitted only while it waits.
LEMMA ResumeRuns ==
  ASSUME RunInv, NEW c \in Calls, NEW d \in Decisions, Resume(c, d)
  PROVE  AllSound' /\ (exclusive => Serial)' /\ Moves
<1> DEFINE yes == [NoCall EXCEPT !.op = "resume", !.pc = "resume", !.decision = d]
           no == [NoCall EXCEPT !.op = "resume", !.reply = "conflict"]
<1>0. Inv /\ ckpt.vals.guarded \in Nat
  BY DEF RunInv, Inv, Shapes, Shape
<1>1. /\ yes \in CallShape /\ no \in CallShape /\ yes.pc = "resume" /\ no.pc = "idle"
      /\ yes.decision = d
  BY NoValuesShape DEF NoCall, CallShape, Replies
<1>2. /\ UNCHANGED <<ckpt, head, generated, executions>> /\ UNCHANGED environment /\ Arrives(c)
      /\ \/ /\ ckpt.interrupted /\ call' = [call EXCEPT ![c] = yes]
            /\ Mark(ckpt.vals.guarded, "shown")
         \/ call' = [call EXCEPT ![c] = no] /\ UNCHANGED log
  BY DEF Resume
<1> HIDE DEF yes, no
<1>3. PICK a \in CallShape : /\ call' = [call EXCEPT ![c] = a] /\ a.pc \in {"idle", "resume"}
                             /\ a.pc = "resume" => /\ ckpt.interrupted /\ a.decision = d
                                                   /\ Mark(ckpt.vals.guarded, "shown")
  BY <1>1, <1>2
<1>4. Grows /\ \A s \in Statements : "approved" \in log'[s] => "approved" \in log[s]
  <2>1. CASE Mark(ckpt.vals.guarded, "shown")
    <3>1. Grows
      BY <1>0, <2>1, MarkGrows DEF Marks
    <3>2. \A s \in Statements : "approved" \in log'[s] => "approved" \in log[s]
      BY <1>0, <2>1 DEF Mark, Inv, Shapes
    <3> QED
      BY <3>1, <3>2
  <2>2. CASE UNCHANGED log
    BY <1>0, <2>2, SameGrows
  <2> QED
    BY <1>2, <2>1, <2>2
<1>5. Sound(question, ckpt'.next, ckpt'.vals, log')
  BY <1>2, <1>4, CheckpointSound
<1>6. call'[c] = a /\ \A e \in Calls \ {c} : call'[e] = call[e]
  BY <1>0, <1>3, ShapesOf
<1>7. ASSUME exclusive
      PROVE  /\ \A e \in Calls \ {c} : call[e].pc = "idle"
             /\ Agrees(c)' /\ Unspent' /\ Once'
             /\ ckpt'.interrupted => ckpt'.next = "request_approval"
             /\ ckpt'.next = "none" => ckpt' = NoCheckpoint
  <2>1. Serial /\ \A e \in Calls : call[e].pc = "idle"
    BY <1>2, <1>7, ArrivesAlone
  <2>2. a.pc = "resume" => Shown(ckpt.vals.guarded)'
    BY <1>0, <1>2, <1>3, MarkGrows DEF Shown, Marks
  <2>3. Agrees(c)'
    BY <1>2, <1>3, <1>6, <2>2 DEF Agrees, AtWork, Decisions
  <2>4. Live' => Live
    BY <1>2, <1>3, <1>6, <2>1 DEF Live, AtWork
  <2>5. Unspent' /\ Once'
    BY <1>2, <1>4, <2>1, <2>4, UnspentStays DEF Serial, Once, Grows
  <2> QED
    BY <1>2, <2>1, <2>3, <2>5 DEF Serial
<1> QED
  BY <1>2, <1>3, <1>4, <1>5, <1>7, RequestKeeps, SameRun

\* A first invocation begins the run.
LEMMA InvokeRuns ==
  ASSUME RunInv, NEW c \in Calls, Invoke(c)
  PROVE  AllSound' /\ (exclusive => Serial)' /\ Moves
<1> DEFINE b == Begin(ckpt.vals)
           a == [call[c] EXCEPT !.pc = "node", !.node = "classify", !.vals = b]
<1>0. Inv /\ call[c] \in CallShape /\ ckpt.vals \in Shape
  BY ShapesOf DEF RunInv
<1>1. /\ b \in Shape /\ b.risk = ckpt.vals.risk /\ b.sql = ckpt.vals.sql /\ b.guarded = ckpt.vals.guarded
  BY <1>0 DEF Begin, Shape, Errors
<1>2. /\ call' = [call EXCEPT ![c] = a] /\ UNCHANGED <<generated, log, executions>>
      /\ ckpt' = [NoCheckpoint EXCEPT !.next = "classify", !.vals = b]
      /\ head' = {c} /\ UNCHANGED environment /\ call[c].pc = "invoke"
  BY DEF Invoke, history
<1> HIDE DEF b
<1>3. /\ a \in CallShape /\ a.pc = "node" /\ a.node = "classify" /\ a.vals = b
      /\ a.decision = call[c].decision
  BY <1>0, <1>1 DEF CallShape, Nodes
<1> HIDE DEF a
<1>4. ckpt'.next = "classify" /\ ckpt'.vals = b /\ ~ckpt'.interrupted /\ ~ckpt'.error
  BY <1>2 DEF NoCheckpoint
<1>5. Grows
  BY <1>0, <1>2, SameGrows
<1>6. Sound(question, "classify", b, log')
  BY <1>1 DEF RunInv, AllSound, Sound
<1>7. call'[c] = a /\ \A d \in Calls \ {c} : call'[d] = call[d]
  BY <1>0, <1>2, ShapesOf
<1>8. ASSUME exclusive
      PROVE  /\ \A d \in Calls \ {c} : call[d].pc = "idle"
             /\ Agrees(c)' /\ Unspent' /\ Once' /\ ckpt = NoCheckpoint
  <2>1. Serial /\ Alone(c) /\ Agrees(c)
    BY <1>8 DEF RunInv, Serial
  <2>2. \A d \in Calls \ {c} : call[d].pc = "idle"
    BY <1>2, <2>1 DEF Alone
  <2>3. ckpt = NoCheckpoint /\ call[c].decision = "none"
    BY <1>2, <2>1 DEF Agrees
  <2>4. Agrees(c)'
    BY <1>2, <1>3, <1>4, <1>7, <2>3 DEF Agrees, AtWork, Nodes
  <2>5. Unspent' /\ Once'
    BY <1>1, <1>2, <1>4, <2>1 DEF Serial, Unspent, Once
  <2> QED
    BY <2>2, <2>3, <2>4, <2>5
<1>9. Moves
  <2> SUFFICES ASSUME exclusive PROVE RunState = "none" /\ RunState' = "running"
    BY DEF Moves
  <2>0. ckpt.next = "none" /\ ~ckpt.interrupted
    BY <1>8 DEF NoCheckpoint
  <2>1. RunState = "none"
    BY <2>0 DEF RunState, Exists, Nodes
  <2>2. RunState' = "running"
    BY <1>4 DEF RunState, Exists, Nodes
  <2> QED
    BY <2>1, <2>2
<1>10. AllSound' /\ (exclusive => Serial)'
  BY <1>2, <1>3, <1>4, <1>5, <1>6, <1>8, RequestKeeps
<1> QED
  BY <1>9, <1>10

\* A resumed request goes on from the checkpoint, with the decision for its pause.
LEMMA InvokeResumeRuns ==
  ASSUME RunInv, NEW c \in Calls, InvokeResume(c)
  PROVE  AllSound' /\ (exclusive => Serial)' /\ Moves
<1> DEFINE r == Status(ckpt.vals, FALSE)
           d == IF ckpt.interrupted THEN call[c].decision ELSE "none"
           b == [call[c] EXCEPT !.pc = "node", !.node = ckpt.next, !.vals = ckpt.vals, !.decision = d]
           a == IF ckpt.next = "END" THEN Answer(c, r) ELSE b
<1>0. /\ Inv /\ call[c] \in CallShape /\ ckpt.vals \in Shape /\ ckpt.next \in Nodes \cup {"none", "END"}
      /\ call[c].decision \in Decisions \cup {"none"}
  BY ShapesOf DEF RunInv
<1>1. Answer(c, r) \in CallShape /\ Answer(c, r).pc = "idle"
  BY <1>0, StatusType, AnswerShape
<1>2. /\ call' = [call EXCEPT ![c] = a] /\ UNCHANGED <<ckpt, generated, log, executions>>
      /\ UNCHANGED environment /\ call[c].pc = "resume"
      /\ ckpt.next # "END" => head' = head \cup {c}
  BY <1>0 DEF InvokeResume, history, CallShape
<1>3. d \in Decisions \cup {"none"} /\ (ckpt.interrupted => d = call[c].decision)
  BY <1>0
<1> HIDE DEF r, d
<1>4. ckpt.next # "END" => /\ b \in CallShape /\ b.pc = "node" /\ b.node = ckpt.next /\ b.vals = ckpt.vals
                           /\ b.decision = d
  BY <1>0, <1>3 DEF CallShape
<1> HIDE DEF b
<1>5. /\ a \in CallShape /\ a.pc \in {"idle", "node"}
      /\ a.pc = "node" => a.node = ckpt.next /\ a.vals = ckpt.vals
      /\ ckpt.next # "END" => a.pc = "node" /\ a.decision = d
  BY <1>1, <1>4
<1> HIDE DEF a
<1>6. Grows
  BY <1>0, <1>2, SameGrows
<1>7. Sound(question, ckpt'.next, ckpt'.vals, log')
  BY <1>2, <1>6, CheckpointSound
<1>8. call'[c] = a
  BY <1>0, <1>2, ShapesOf
<1>9. ASSUME exclusive
      PROVE  /\ \A e \in Calls \ {c} : call[e].pc = "idle"
             /\ Agrees(c)' /\ Unspent' /\ Once'
             /\ ckpt'.interrupted => ckpt'.next = "request_approval"
             /\ ckpt'.next = "none" => ckpt' = NoCheckpoint
  <2>1. Serial /\ Alone(c) /\ Agrees(c)
    BY <1>9 DEF RunInv, Serial
  <2>2. \A e \in Calls \ {c} : call[e].pc = "idle"
    BY <1>2, <2>1 DEF Alone
  <2>3. /\ ckpt.interrupted /\ call[c].decision # "none" /\ Shown(ckpt.vals.guarded)
        /\ ckpt.next = "request_approval"
    BY <1>2, <2>1 DEF Agrees, Serial
  <2>4. Shown(ckpt.vals.guarded)'
    BY <1>2, <2>3 DEF Shown
  <2>5. Agrees(c)'
    BY <1>2, <1>3, <1>5, <1>8, <2>3, <2>4 DEF Agrees, AtWork, Nodes
  <2>6. Unspent' /\ Once'
    BY <1>2, <2>1, <2>3, UnspentStays DEF Serial, Once, Live
  <2> QED
    BY <1>2, <2>1, <2>2, <2>5, <2>6 DEF Serial
<1>10. AllSound' /\ (exclusive => Serial)'
  BY <1>2, <1>5, <1>6, <1>7, <1>9, RequestKeeps
<1> QED
  BY <1>2, <1>10, SameRun

\* Asking changes only the request.
LEMMA AskRuns ==
  ASSUME RunInv, NEW c \in Calls, Ask(c)
  PROVE  AllSound' /\ (exclusive => Serial)' /\ Moves
<1> DEFINE a == [call[c] EXCEPT !.pc = "pause"]
<1>0. Inv /\ call[c] \in CallShape /\ call[c].pc = "node" /\ call[c].node = "request_approval" /\ AtWork(c)
  BY ShapesOf DEF RunInv, Ask, At, AtWork
<1>1. /\ a \in CallShape /\ a.pc = "pause" /\ a.node = call[c].node /\ a.vals = call[c].vals
      /\ a.decision = "none"
  BY <1>0 DEF CallShape, Ask
<1>2. /\ call' = [call EXCEPT ![c] = a] /\ UNCHANGED <<ckpt, head, generated, log, executions>>
      /\ UNCHANGED environment /\ call[c].decision = "none"
  BY DEF Ask, history
<1> HIDE DEF a
<1>3. Grows
  BY <1>0, <1>2, SameGrows
<1>4. Sound(question, ckpt'.next, ckpt'.vals, log')
  BY <1>2, <1>3, CheckpointSound
<1>5. Sound(question, a.node, a.vals, log')
  BY <1>0, <1>1, <1>2 DEF RunInv, AllSound
<1>6. call'[c] = a /\ \A d \in Calls \ {c} : call'[d] = call[d]
  BY <1>0, <1>2, ShapesOf
<1>7. ASSUME exclusive
      PROVE  /\ \A d \in Calls \ {c} : call[d].pc = "idle"
             /\ Agrees(c)' /\ Unspent' /\ Once'
             /\ ckpt'.interrupted => ckpt'.next = "request_approval"
             /\ ckpt'.next = "none" => ckpt' = NoCheckpoint
  <2>1. Serial /\ Alone(c) /\ Agrees(c)
    BY <1>7 DEF RunInv, Serial
  <2>2. \A d \in Calls \ {c} : call[d].pc = "idle"
    BY <1>0, <2>1 DEF Alone
  <2>3. /\ c \in head /\ call[c].node = ckpt.next /\ call[c].vals = ckpt.vals /\ ckpt.next \in Nodes
        /\ ~ckpt.interrupted /\ ~ckpt.error
    BY <1>0, <1>2, <2>1 DEF Agrees
  <2>4. Agrees(c)'
    BY <1>0, <1>1, <1>2, <1>6, <2>3 DEF Agrees, AtWork
  <2>5. Live
    BY <1>0 DEF Live
  <2>6. Unspent' /\ Once'
    BY <1>2, <2>1, <2>5, UnspentStays DEF Serial, Once
  <2> QED
    BY <1>2, <2>1, <2>2, <2>4, <2>6 DEF Serial
<1>8. AllSound' /\ (exclusive => Serial)'
  BY <1>1, <1>2, <1>3, <1>4, <1>5, <1>7, RequestKeeps
<1> QED
  BY <1>2, <1>8, SameRun

\* The pause is recorded with the statement that waits, not executed yet.
LEMMA InterruptRuns ==
  ASSUME RunInv, NEW c \in Calls, Interrupt(c)
  PROVE  AllSound' /\ (exclusive => Serial)' /\ Moves
<1> DEFINE a == Answer(c, "WAITING_APPROVAL")
<1>0. Inv /\ call[c] \in CallShape /\ call[c].pc = "pause" /\ AtWork(c)
  BY ShapesOf DEF RunInv, Interrupt, AtWork
<1>1. a \in CallShape /\ a.pc = "idle"
  BY <1>0, AnswerShape DEF Replies
<1>2. /\ call' = [call EXCEPT ![c] = a] /\ UNCHANGED <<head, generated, log, executions>>
      /\ UNCHANGED environment
  BY DEF Interrupt, history
<1>3. /\ ckpt'.next = ckpt.next /\ ckpt'.vals = ckpt.vals
      /\ c \in head => ckpt'.interrupted /\ ~ckpt'.error
  BY ShapesOf DEF Interrupt, RunInv
<1> HIDE DEF a
<1>4. Grows
  BY <1>0, <1>2, SameGrows
<1>5. Sound(question, ckpt'.next, ckpt'.vals, log')
  BY <1>3, <1>4, CheckpointSound
<1>6. call'[c] = a
  BY <1>0, <1>2, ShapesOf
<1>7. ASSUME exclusive
      PROVE  /\ \A d \in Calls \ {c} : call[d].pc = "idle"
             /\ Agrees(c)' /\ Unspent' /\ Once'
             /\ ckpt.next = "request_approval" /\ c \in head /\ ~ckpt.interrupted /\ ~ckpt.error
  <2>1. Serial /\ Alone(c) /\ Agrees(c)
    BY <1>7 DEF RunInv, Serial
  <2>2. \A d \in Calls \ {c} : call[d].pc = "idle"
    BY <1>0, <2>1 DEF Alone
  <2>3. ckpt.next = "request_approval" /\ c \in head /\ ~ckpt.interrupted /\ ~ckpt.error
    BY <1>0, <2>1 DEF Agrees
  <2>4. Agrees(c)'
    BY <1>1, <1>6 DEF Agrees, AtWork
  <2>5. Live
    BY <1>0 DEF Live
  <2>6. Unspent' /\ Once'
    BY <1>2, <1>3, <2>1, <2>5, UnspentStays DEF Serial, Once
  <2> QED
    BY <2>2, <2>3, <2>4, <2>6
<1>8. Moves
  <2> SUFFICES ASSUME exclusive PROVE RunState = "running" /\ RunState' = "waiting"
    BY DEF Moves
  <2>1. RunState = "running"
    BY <1>7 DEF RunState, Exists, Nodes
  <2>2. RunState' = "waiting"
    BY <1>3, <1>7 DEF RunState, Exists, Nodes
  <2> QED
    BY <2>1, <2>2
<1>9. ckpt.next # "none" => ckpt'.next # "none"
  BY <1>3
<1>10. AllSound' /\ (exclusive => Serial)'
  BY <1>1, <1>2, <1>3, <1>4, <1>5, <1>7, <1>9, RequestKeeps
<1> QED
  BY <1>8, <1>10

\* A node that fails after it executed leaves a run that nobody continues.
LEMMA NodeFailsRuns ==
  ASSUME RunInv, NEW c \in Calls, NodeFails(c)
  PROVE  AllSound' /\ (exclusive => Serial)' /\ Moves
<1> DEFINE r == IF call[c].op = "start" /\ ckpt'.error THEN Inspect' ELSE "error"
           a == Answer(c, r)
<1>0. Inv /\ call[c] \in CallShape /\ AtWork(c)
  BY ShapesOf DEF RunInv, NodeFails, AtWork
<1>1. /\ ckpt' \in [next: Nodes \cup {"none", "END"}, vals: Shape, error: BOOLEAN, interrupted: BOOLEAN]
      /\ ckpt'.next = ckpt.next /\ ckpt'.vals = ckpt.vals /\ ckpt'.interrupted = ckpt.interrupted
      /\ c \in head => ckpt'.error
      /\ c \notin head => ckpt' = ckpt
  BY ShapesOf DEF NodeFails, RunInv
<1>2. r \in Replies
  <2>1. Status(ckpt'.vals, ckpt'.interrupted) \in Replies
    BY <1>1, StatusType
  <2>2. Inspect' \in Replies
    BY <2>1 DEF Inspect, Replies, Final
  <2> QED BY <2>2 DEF Replies
<1>3. /\ call' = [call EXCEPT ![c] = a] /\ UNCHANGED <<head, generated, log>> /\ UNCHANGED environment
      /\ executions' \in IF At(c, "execute_sql") THEN {executions, Executed(call[c].vals.guarded)}
                         ELSE {executions}
  BY DEF NodeFails
<1> HIDE DEF r
<1>4. a \in CallShape /\ a.pc = "idle"
  BY <1>0, <1>2, AnswerShape
<1> HIDE DEF a
<1>5. Grows
  BY <1>0, <1>3, SameGrows
<1>6. Sound(question, ckpt'.next, ckpt'.vals, log')
  BY <1>1, <1>5, CheckpointSound
<1>7. call'[c] = a /\ \A d \in Calls \ {c} : call'[d] = call[d]
  BY <1>0, <1>3, ShapesOf
<1>8. ASSUME exclusive
      PROVE  /\ \A d \in Calls \ {c} : call[d].pc = "idle"
             /\ Agrees(c)' /\ Unspent' /\ Once'
             /\ ckpt.interrupted => ckpt.next = "request_approval"
             /\ ckpt.next \in Nodes /\ c \in head /\ (~ckpt.interrupted => ~ckpt.error)
  <2>1. Serial /\ Alone(c) /\ Agrees(c)
    BY <1>8 DEF RunInv, Serial
  <2>2. \A d \in Calls \ {c} : call[d].pc = "idle"
    BY <1>0, <2>1 DEF Alone, AtWork
  <2>3. /\ ckpt.next \in Nodes /\ c \in head /\ (~ckpt.interrupted => ~ckpt.error)
        /\ ckpt.interrupted => ckpt.next = "request_approval"
    BY <1>0, <2>1 DEF Agrees, Serial
  <2>4. Agrees(c)'
    BY <1>4, <1>7 DEF Agrees, AtWork
  <2>5. Live' => ckpt.interrupted
    BY <1>1, <1>4, <1>7, <2>2 DEF Live, AtWork
  <2>6. CASE executions' = executions
    <3>1. Live' => Live
      BY <2>5 DEF Live
    <3>2. Unspent' /\ Once'
      BY <1>1, <1>3, <2>1, <2>6, <3>1, UnspentStays DEF Serial, Once
    <3> QED
      BY <2>2, <2>3, <2>4, <3>2
  <2>7. CASE At(c, "execute_sql") /\ executions' = Executed(call[c].vals.guarded)
    <3>1. /\ Sound(question, "execute_sql", call[c].vals, log) /\ call[c].vals.guarded <= generated
          /\ \A s \in Statements : s > generated => executions[s] = 0
          /\ executions[call[c].vals.guarded] = 0 /\ Once /\ ~ckpt.interrupted
      BY <1>8, <2>7, AtNode DEF Nodes
    <3>2. call[c].vals.guarded \in Statements
      BY <3>1 DEF Sound
    <3>3. Once' /\ \A t \in Statements : t > generated => executions'[t] = 0
      BY <1>3, <2>7, <3>1, <3>2, ExecutedOnce
    <3>4. ~Live'
      BY <2>5, <3>1
    <3>5. Unspent'
      BY <1>1, <1>3, <2>1, <3>3, <3>4 DEF Unspent, Serial
    <3> QED
      BY <2>2, <2>3, <2>4, <3>3, <3>5
  <2> QED
    BY <1>3, <2>6, <2>7
<1>9. Moves
  <2> SUFFICES ASSUME exclusive
               PROVE  RunState' = RunState \/ (RunState = "running" /\ RunState' = "FAILED")
    BY DEF Moves, Final
  <2>1. CASE ckpt.interrupted
    <3>1. RunState = "waiting" /\ RunState' = "waiting"
      BY <1>1, <1>8, <2>1 DEF RunState, Exists, Nodes
    <3> QED
      BY <3>1
  <2>2. CASE ~ckpt.interrupted
    <3>1. RunState = "running"
      BY <1>8, <2>2 DEF RunState, Exists, Nodes
    <3>2. RunState' = "FAILED"
      BY <1>1, <1>8, <2>2 DEF RunState, Exists, Nodes
    <3> QED
      BY <3>1, <3>2
  <2> QED
    BY <2>1, <2>2
<1>10. ckpt.next \in Nodes => ckpt'.next # "none"
  BY <1>1 DEF Nodes
<1>11. AllSound' /\ (exclusive => Serial)'
  BY <1>1, <1>3, <1>4, <1>5, <1>6, <1>8, <1>10, RequestKeeps
<1> QED
  BY <1>9, <1>11

\* A crash leaves the checkpoint, and no request that works on it.
LEMMA CrashRuns ==
  ASSUME RunInv, Crash
  PROVE  AllSound' /\ (exclusive => Serial)' /\ Moves
<1>0. Inv
  BY DEF RunInv
<1>1. \A c \in Calls : Answer(c, "error").pc = "idle"
  BY <1>0, AnswerShape DEF Replies
<1>2. /\ call' = [c \in Calls |-> IF call[c].pc = "idle" THEN call[c] ELSE Answer(c, "error")]
      /\ UNCHANGED <<question, exclusive, ckpt, generated, log, executions>>
  BY DEF Crash, environment, history
<1>3. \A c \in Calls : call'[c].pc = "idle"
  BY <1>1, <1>2
<1>4. AllSound'
  BY <1>2, <1>3 DEF RunInv, AllSound, AtWork
<1>5. ASSUME exclusive PROVE Serial'
  <2>1. Serial
    BY <1>5 DEF RunInv
  <2>2. \A c \in Calls : Alone(c)' /\ Agrees(c)'
    BY <1>3 DEF Alone, Agrees, AtWork
  <2>3. Live' => Live
    BY <1>2, <1>3 DEF Live, AtWork
  <2>4. Unspent' /\ Once'
    BY <1>2, <2>1, <2>3, UnspentStays DEF Serial, Once
  <2> QED
    BY <1>2, <2>1, <2>2, <2>4 DEF Serial
<1> QED
  BY <1>2, <1>4, <1>5, SameRun

----------------------------------------------------------------------------
(* The theorems *)

\* Initially there is no run and no request.
LEMMA InitRunInv == Init => RunInv
<1> SUFFICES ASSUME Init PROVE RunInv
  OBVIOUS
<1>1. Inv
  <2>1. ckpt.next = "none" /\ \A c \in Calls : call[c].pc = "idle"
    BY DEF Init, NoCheckpoint, NoCall
  <2>2. NoCall \in CallShape
    BY NoValuesShape DEF NoCall, CallShape, Replies
  <2>3. NoCheckpoint \in [next: Nodes \cup {"none", "END"}, vals: Shape, error: BOOLEAN,
                         interrupted: BOOLEAN]
    BY NoValuesShape DEF NoCheckpoint
  <2>4. Shapes
    BY <2>2, <2>3 DEF Init, Shapes
  <2> QED BY <2>1, <2>4 DEF Init, Inv, AboutToExecute, At, AllClear
<1>2. /\ ckpt = NoCheckpoint /\ ckpt.next = "none" /\ ckpt.vals = NoValues /\ ~ckpt.interrupted
      /\ \A c \in Calls : call[c].pc = "idle"
  BY DEF Init, NoCheckpoint, NoCall
<1>3. AllSound
  <2>1. ckpt.vals.risk = "none" /\ "none" \notin Nodes
    BY <1>2 DEF NoValues, Nodes
  <2> QED
    BY <1>2, <2>1 DEF AllSound, AtWork, Sound
<1>4. Unspent /\ Once
  BY <1>2 DEF Init, Unspent, Once, Live, AtWork, NoValues
<1>5. \A c \in Calls : Alone(c) /\ Agrees(c)
  BY <1>2 DEF Alone, Agrees, AtWork
<1> QED
  BY <1>1, <1>2, <1>3, <1>4, <1>5 DEF RunInv, Serial, Init

\* Every step keeps the invariant and moves the run forward.
LEMMA NextRunInv == ASSUME RunInv, Room, [Next]_vars PROVE RunInv' /\ Moves
<1>1. Inv'
  BY NextKeeps DEF RunInv
<1>2. ASSUME NEW c \in Calls, NEW v, NEW next, Advance(c, v, next)
      PROVE  AllSound' /\ (exclusive => Serial)' /\ Moves
  <2>1. exclusive' = exclusive
    BY <1>2 DEF Advance, environment
  <2> QED
    BY <1>2, <2>1, AdvanceSound, AdvanceSerial, AdvanceMoves
<1>3. ASSUME NEW c \in Calls, GraphStep(c) PROVE AllSound' /\ (exclusive => Serial)' /\ Moves
  <2>1. CASE Invoke(c) \/ InvokeResume(c) \/ Ask(c) \/ Interrupt(c)
    BY <2>1, InvokeRuns, InvokeResumeRuns, AskRuns, InterruptRuns
  <2>2. CASE \/ Classify(c) \/ RetrieveMetrics(c) \/ SelectSchema(c) \/ GenerateSql(c) \/ GuardSql(c)
             \/ Decide(c) \/ ExecuteSql(c) \/ Verify(c) \/ Compose(c)
    <3>1. \E v, next : Advance(c, v, next)
      BY <2>2, ClassifyAdvances, RetrieveMetricsAdvances, SelectSchemaAdvances, GenerateSqlAdvances,
         GuardSqlAdvances, DecideAdvances, ExecuteSqlAdvances, VerifyAdvances, ComposeAdvances
    <3> QED
      BY <1>2, <3>1
  <2> QED
    BY <1>3, <2>1, <2>2 DEF GraphStep
<1>4. ASSUME NEW c \in Calls, Start(c) \/ NodeFails(c) \/ \E d \in Decisions : Resume(c, d)
      PROVE  AllSound' /\ (exclusive => Serial)' /\ Moves
  BY <1>4, StartRuns, NodeFailsRuns, ResumeRuns
<1>5. ASSUME UNCHANGED vars PROVE AllSound' /\ (exclusive => Serial)' /\ Moves
  <2>1. UNCHANGED <<question, exclusive, ckpt, call, head, generated, log, executions>>
    BY <1>5 DEF vars, environment, history
  <2>2. AllSound'
    BY <2>1 DEF RunInv, AllSound, AtWork
  <2>3. exclusive => Serial'
    BY <2>1 DEF RunInv, Serial, Alone, Agrees, AtWork, Shown, Unspent, Once, Live
  <2> QED
    BY <2>1, <2>2, <2>3, SameRun
<1>6. ASSUME Crash PROVE AllSound' /\ (exclusive => Serial)' /\ Moves
  BY <1>6, CrashRuns, SMTT(30)
<1>7. exclusive' = exclusive
  BY DEF Next, vars, environment, GraphStep, Start, Invoke, InvokeResume, Classify, RetrieveMetrics,
         SelectSchema, GenerateSql, GuardSql, Ask, Interrupt, Decide, ExecuteSql, Verify, Compose,
         NodeFails, Resume, Crash
<1> QED
  BY <1>1, <1>3, <1>4, <1>5, <1>6, <1>7 DEF Next, RunInv

----------------------------------------------------------------------------
(* How often requests that overlap execute *)

\* A request that will begin, or is on its way with statement s, may still execute it.
AheadOf(a, s) == \/ a.pc \in {"invoke", "resume"}
                 \/ /\ a.pc \in {"node", "pause"} /\ a.vals.sql = s
                    /\ a.node \in {"guard_sql", "request_approval", "execute_sql"}

Works(a) == a.pc \in {"node", "pause"}

\* What a request may still generate.
LeftOf(a) == IF a.pc \in {"invoke", "resume"} THEN MaxRepairs + 1
             ELSE IF Works(a) THEN MaxRepairs + 1 - a.vals.attempts ELSE 0

LeftIn(cl) == [d \in Calls |-> LeftOf(cl[d])]

AheadIn(cl, s) == {d \in Calls : AheadOf(cl[d], s)}
BusyIn(cl) == {d \in Calls : cl[d].pc # "idle"}

\* A statement was executed, and can still be, by no more requests than arrived, and the
\* requests generated, and still can, no more than their attempts.
Counts(cl, ex, n, g) ==
  /\ \A s \in Statements : ex[s] + Cardinality(AheadIn(cl, s)) <= n
  /\ Cardinality(BusyIn(cl)) <= n
  /\ \A s \in Statements : s > g => ex[s] = 0
  /\ g + Sum(LeftIn(cl), Calls) <= n * (MaxRepairs + 1)

Early == {"classify", "retrieve_metrics", "select_schema", "generate_sql"}

\* Node n finds a state within its bounds: an attempt is left where one is made.
Fits(n, v, g) ==
  v \in Values /\ v.sql <= g /\ (n \in Early => v.attempts <= MaxRepairs)

Checkpoint == [next: Nodes \cup {"none", "END"}, vals: Values, error: BOOLEAN, interrupted: BOOLEAN]

Bounds ==
  /\ ckpt \in Checkpoint /\ Fits(ckpt.next, ckpt.vals, generated)
  /\ call \in [Calls -> Call]
  /\ \A c \in Calls : AtWork(c) => Fits(call[c].node, call[c].vals, generated)
  /\ head \subseteq Calls /\ generated \in Statements \cup {0}
  /\ calls \in 0..MaxCalls /\ faults \in 0..MaxFaults

CountInv == RunInv /\ Bounds /\ Counts(call, executions, calls, generated)

\* The sets that are counted are finite.
LEMMA Counted ==
  ASSUME NEW S \in SUBSET Calls
  PROVE  /\ IsFiniteSet(S) /\ Cardinality(S) \in Nat
         /\ \A T \in SUBSET S : Cardinality(T) <= Cardinality(S)
         /\ \A c \in S : Cardinality(S \ {c}) = Cardinality(S) - 1
         /\ \A c : Cardinality(S \cup {c}) <= Cardinality(S) + 1
<1>1. IsFiniteSet(S)
  BY WorkflowAssumption, FS_Subset
<1>2. Cardinality(S) \in Nat
  BY <1>1, FS_CardinalityType
<1>3. \A T \in SUBSET S : Cardinality(T) <= Cardinality(S)
  BY <1>1, FS_Subset
<1>4. \A c \in S : Cardinality(S \ {c}) = Cardinality(S) - 1
  BY <1>1, FS_RemoveElement
<1>5. \A c : Cardinality(S \cup {c}) <= Cardinality(S) + 1
  <2> SUFFICES ASSUME NEW c PROVE Cardinality(S \cup {c}) <= Cardinality(S) + 1
    OBVIOUS
  <2>1. CASE c \in S
    <3>1. S \cup {c} = S
      BY <2>1
    <3>. QED BY <1>2, <3>1
  <2>2. CASE c \notin S
    <3>1. Cardinality(S \cup {c}) = Cardinality(S) + 1
      BY <1>1, <2>2, FS_AddElement
    <3>. QED BY <1>2, <3>1
  <2>. QED BY <2>1, <2>2
<1>. QED BY <1>1, <1>2, <1>3, <1>4, <1>5

\* A request has a number of attempts left.
LEMMA LeftType == ASSUME NEW a \in Call PROVE LeftOf(a) \in Nat /\ LeftOf(a) <= MaxRepairs + 1
<1>1. a.vals.attempts \in 0..MaxRepairs + 1
  BY DEF Call, Values
<1>. QED BY <1>1, WorkflowAssumption DEF LeftOf

\* What a step of one request changes of the attempts that are left in all.
LEMMA LeftChanges ==
  ASSUME NEW cl \in [Calls -> Call], NEW c \in Calls, NEW a \in Call
  PROVE  LET new == [cl EXCEPT ![c] = a]
         IN  /\ Sum(LeftIn(cl), Calls) \in Nat /\ Sum(LeftIn(new), Calls) \in Nat
             /\ LeftOf(cl[c]) \in Nat /\ LeftOf(cl[c]) <= Sum(LeftIn(cl), Calls)
             /\ Sum(LeftIn(new), Calls) + LeftOf(cl[c]) = Sum(LeftIn(cl), Calls) + LeftOf(a)
<1> DEFINE new == [cl EXCEPT ![c] = a]
           v == LeftIn(cl)
           w == LeftIn(new)
           R == Calls \ {c}
<1>1. /\ v[c] = LeftOf(cl[c]) /\ w[c] = LeftOf(a)
      /\ \A d \in R : v[d] = w[d]
  BY DEF LeftIn
<1>2. \A d \in Calls : v[d] \in Nat /\ w[d] \in Nat
  BY LeftType DEF LeftIn
<1>3. IsFiniteSet(Calls) /\ IsFiniteSet(R)
  BY WorkflowAssumption, FS_RemoveElement, FS_Subset
<1>. HIDE DEF new, v, w
<1>4. Sum(v, Calls) = v[c] + Sum(v, R) /\ Sum(w, Calls) = w[c] + Sum(w, R)
  BY <1>2, <1>3, SumRemove
<1>5. Sum(v, R) = Sum(w, R)
  BY <1>1, <1>3, SumSame
<1>6. Sum(v, R) \in Nat
  BY <1>2, <1>3, SumType
<1>7. v[c] \in Nat /\ w[c] \in Nat
  BY <1>2
<1>8. PICK x \in Nat, y \in Nat, z \in Nat : x = v[c] /\ y = w[c] /\ z = Sum(v, R)
  BY <1>6, <1>7
<1>9. Sum(v, Calls) = x + z /\ Sum(w, Calls) = y + z /\ LeftOf(cl[c]) = x /\ LeftOf(a) = y
  BY <1>1, <1>4, <1>5, <1>8
<1>10. x + z \in Nat /\ y + z \in Nat /\ x <= x + z /\ (y + z) + x = (x + z) + y
  OBVIOUS
<1>. QED BY <1>8, <1>9, <1>10 DEF new, v, w

\* The attempts of n requests.
LEMMA Scale ==
  ASSUME NEW n \in Nat
  PROVE  /\ n * (MaxRepairs + 1) \in Nat
         /\ (n + 1) * (MaxRepairs + 1) = n * (MaxRepairs + 1) + (MaxRepairs + 1)
         /\ \A m \in Nat : n <= m => n * (MaxRepairs + 1) <= m * (MaxRepairs + 1)
<1>1. MaxRepairs = 0 \/ MaxRepairs = 1 \/ MaxRepairs = 2
  BY WorkflowAssumption
<1>. QED BY <1>1

\* The attempts that are left pay for what a step generates.
LEMMA LeftPays ==
  ASSUME NEW cl \in [Calls -> Call], NEW n \in Nat, NEW m \in Nat, NEW g \in Nat, NEW h \in Nat,
         NEW c \in Calls, NEW a \in Call, g + Sum(LeftIn(cl), Calls) <= n * (MaxRepairs + 1),
         \/ m = n /\ h + LeftOf(a) <= g + LeftOf(cl[c])
         \/ m = n + 1 /\ h = g
  PROVE  h + Sum(LeftIn([cl EXCEPT ![c] = a]), Calls) <= m * (MaxRepairs + 1)
<1> DEFINE new == [cl EXCEPT ![c] = a]
<1>1. PICK x \in Nat, y \in Nat, i \in Nat, j \in Nat, k \in Nat, o \in Nat :
        /\ x = Sum(LeftIn(cl), Calls) /\ y = Sum(LeftIn(new), Calls)
        /\ i = LeftOf(cl[c]) /\ j = LeftOf(a)
        /\ k = n * (MaxRepairs + 1) /\ o = m * (MaxRepairs + 1)
  BY LeftChanges, LeftType, Scale
<1>2. y + i = x + j /\ g + x <= k /\ j <= MaxRepairs + 1
  BY <1>1, LeftChanges, LeftType
<1>3. CASE m = n /\ h + LeftOf(a) <= g + LeftOf(cl[c])
  <2>1. h + j <= g + i /\ o = k
    BY <1>1, <1>3
  <2>2. h + y <= o
    BY <1>2, <2>1
  <2>. QED BY <1>1, <2>2
<1>4. CASE m = n + 1 /\ h = g
  <2>1. o = k + (MaxRepairs + 1) /\ h = g
    BY <1>1, <1>4, Scale
  <2>2. h + y <= o
    BY <1>2, <2>1, WorkflowAssumption
  <2>. QED BY <1>1, <2>2
<1>. QED BY <1>3, <1>4

\* A request that goes on is ahead of no more statements than it was.
LEMMA CountKeeps ==
  ASSUME NEW cl \in [Calls -> Call], NEW ex \in [Statements -> Nat], NEW n \in Nat, NEW g \in Nat,
         NEW c \in Calls, NEW a \in Call, Counts(cl, ex, n, g), cl[c].pc # "idle",
         \A s \in Statements : AheadOf(a, s) => AheadOf(cl[c], s),
         LeftOf(a) <= LeftOf(cl[c])
  PROVE  Counts([cl EXCEPT ![c] = a], ex, n, g)
<1>0. g + Sum(LeftIn([cl EXCEPT ![c] = a]), Calls) <= n * (MaxRepairs + 1)
  <2>1. LeftOf(a) \in Nat /\ LeftOf(cl[c]) \in Nat
    BY LeftType
  <2>2. g + LeftOf(a) <= g + LeftOf(cl[c])
    BY <2>1
  <2>3. g + Sum(LeftIn(cl), Calls) <= n * (MaxRepairs + 1)
    BY DEF Counts
  <2>. QED BY <2>2, <2>3, LeftPays
<1> DEFINE next == [cl EXCEPT ![c] = a]
<1>1. next[c] = a /\ \A d \in Calls \ {c} : next[d] = cl[d]
  OBVIOUS
<1>. HIDE DEF next
<1>2. BusyIn(next) \in SUBSET BusyIn(cl) /\ BusyIn(cl) \in SUBSET Calls
  BY <1>1 DEF BusyIn
<1>3. Cardinality(BusyIn(next)) <= n
  <2>1. Cardinality(BusyIn(next)) \in Nat /\ Cardinality(BusyIn(cl)) \in Nat
    BY <1>2, Counted
  <2>2. Cardinality(BusyIn(next)) <= Cardinality(BusyIn(cl)) /\ Cardinality(BusyIn(cl)) <= n
    BY <1>2, Counted DEF Counts
  <2>. QED BY <2>1, <2>2
<1>4. ASSUME NEW s \in Statements PROVE ex[s] + Cardinality(AheadIn(next, s)) <= n
  <2>1. AheadIn(next, s) \in SUBSET AheadIn(cl, s) /\ AheadIn(cl, s) \in SUBSET Calls
    BY <1>1 DEF AheadIn
  <2>2. PICK x \in Nat, y \in Nat, e \in Nat :
          x = Cardinality(AheadIn(next, s)) /\ y = Cardinality(AheadIn(cl, s)) /\ e = ex[s]
    BY <2>1, Counted
  <2>3. x <= y /\ e + y <= n
    BY <2>1, <2>2, Counted DEF Counts
  <2>4. e + x <= n
    BY <2>3
  <2>. QED BY <2>2, <2>4
<1>. QED BY <1>0, <1>3, <1>4 DEF Counts, next

\* A request arrives.
LEMMA CountArrives ==
  ASSUME NEW cl \in [Calls -> Call], NEW ex \in [Statements -> Nat], NEW n \in Nat, NEW g \in Nat,
         NEW c \in Calls, NEW a \in Call, Counts(cl, ex, n, g)
  PROVE  Counts([cl EXCEPT ![c] = a], ex, n + 1, g)
<1>0. g + Sum(LeftIn([cl EXCEPT ![c] = a]), Calls) <= (n + 1) * (MaxRepairs + 1)
  <2>1. n + 1 \in Nat /\ g + Sum(LeftIn(cl), Calls) <= n * (MaxRepairs + 1)
    BY DEF Counts
  <2>. QED BY <2>1, LeftPays
<1> DEFINE next == [cl EXCEPT ![c] = a]
<1>1. \A d \in Calls \ {c} : next[d] = cl[d]
  OBVIOUS
<1>. HIDE DEF next
<1>2. ASSUME NEW S \in SUBSET Calls, NEW T \in SUBSET Calls, T \in SUBSET (S \cup {c}), NEW e \in Nat,
             e + Cardinality(S) <= n
      PROVE  e + Cardinality(T) <= n + 1
  <2>1. S \cup {c} \in SUBSET Calls
    OBVIOUS
  <2>2. PICK x \in Nat, y \in Nat, z \in Nat :
          x = Cardinality(S) /\ y = Cardinality(T) /\ z = Cardinality(S \cup {c})
    BY <2>1, Counted
  <2>3. y <= z /\ z <= x + 1
    BY <1>2, <2>1, <2>2, Counted
  <2>4. e + x <= n => e + y <= n + 1
    BY <2>3
  <2>. QED BY <1>2, <2>2, <2>4
<1>3. /\ BusyIn(cl) \in SUBSET Calls /\ BusyIn(next) \in SUBSET Calls
      /\ BusyIn(next) \in SUBSET (BusyIn(cl) \cup {c})
  BY <1>1 DEF BusyIn
<1>4. Cardinality(BusyIn(next)) <= n + 1
  <2>1. Cardinality(BusyIn(cl)) \in Nat /\ Cardinality(BusyIn(next)) \in Nat
    BY <1>3, Counted
  <2>2. 0 + Cardinality(BusyIn(cl)) <= n
    BY <2>1 DEF Counts
  <2>3. 0 + Cardinality(BusyIn(next)) <= n + 1
    BY <1>2, <1>3, <2>2
  <2>. QED BY <2>1, <2>3
<1>5. ASSUME NEW s \in Statements PROVE ex[s] + Cardinality(AheadIn(next, s)) <= n + 1
  <2>1. /\ AheadIn(cl, s) \in SUBSET Calls /\ AheadIn(next, s) \in SUBSET Calls
        /\ AheadIn(next, s) \in SUBSET (AheadIn(cl, s) \cup {c})
    BY <1>1 DEF AheadIn
  <2>2. ex[s] \in Nat /\ ex[s] + Cardinality(AheadIn(cl, s)) <= n
    BY DEF Counts
  <2>. QED BY <1>2, <2>1, <2>2
<1>. QED BY <1>0, <1>4, <1>5 DEF Counts, next

\* A request executes its statement, and is not ahead of it any more.
LEMMA CountExecutes ==
  ASSUME NEW cl \in [Calls -> Call], NEW ex \in [Statements -> Nat], NEW n \in Nat, NEW g \in Nat,
         NEW c \in Calls, NEW a \in Call, Counts(cl, ex, n, g),
         NEW s0 \in Statements, s0 <= g, AheadOf(cl[c], s0), \A s \in Statements : ~AheadOf(a, s),
         LeftOf(a) <= LeftOf(cl[c])
  PROVE  Counts([cl EXCEPT ![c] = a], [ex EXCEPT ![s0] = @ + 1], n, g)
<1> DEFINE next == [cl EXCEPT ![c] = a]
           more == [ex EXCEPT ![s0] = @ + 1]
<1>0. cl[c].pc # "idle" /\ \A s \in Statements : AheadOf(a, s) => AheadOf(cl[c], s)
  BY DEF AheadOf
<1>1. Counts(next, ex, n, g)
  BY <1>0, CountKeeps
<1>2. next[c] = a /\ \A d \in Calls \ {c} : next[d] = cl[d]
  OBVIOUS
<1>3. more[s0] = ex[s0] + 1 /\ \A s \in Statements \ {s0} : more[s] = ex[s]
  OBVIOUS
<1>. HIDE DEF next, more
<1>4. more[s0] + Cardinality(AheadIn(next, s0)) <= n
  <2>1. /\ AheadIn(cl, s0) \in SUBSET Calls /\ c \in AheadIn(cl, s0)
        /\ AheadIn(next, s0) \in SUBSET (AheadIn(cl, s0) \ {c})
    BY <1>2 DEF AheadIn
  <2>2. AheadIn(cl, s0) \ {c} \in SUBSET Calls /\ AheadIn(next, s0) \in SUBSET Calls
    BY <2>1
  <2>3. PICK x \in Nat, y \in Nat, z \in Nat, e \in Nat :
          /\ x = Cardinality(AheadIn(cl, s0)) /\ y = Cardinality(AheadIn(next, s0))
          /\ z = Cardinality(AheadIn(cl, s0) \ {c}) /\ e = ex[s0]
    BY <2>1, <2>2, Counted
  <2>4. y <= z /\ z = x - 1
    BY <2>1, <2>2, <2>3, Counted
  <2>5. e + x <= n
    BY <2>3 DEF Counts
  <2>6. (e + 1) + y <= n
    BY <2>4, <2>5
  <2>. QED BY <1>3, <2>3, <2>6
<1>5. \A s \in Statements : more[s] + Cardinality(AheadIn(next, s)) <= n
  BY <1>1, <1>3, <1>4 DEF Counts
<1>6. ASSUME NEW s \in Statements, s > g PROVE more[s] = 0
  <2>1. s # s0
    BY <1>6 DEF Statements
  <2>. QED BY <1>1, <1>3, <1>6, <2>1 DEF Counts
<1>7. Cardinality(BusyIn(next)) <= n
  BY <1>1 DEF Counts
<1>8. g + Sum(LeftIn(next), Calls) <= n * (MaxRepairs + 1)
  BY <1>1 DEF Counts
<1>. QED BY <1>5, <1>6, <1>7, <1>8 DEF Counts, next, more

\* A request generates a statement that no one else can know.
LEMMA CountGenerates ==
  ASSUME NEW cl \in [Calls -> Call], NEW ex \in [Statements -> Nat], NEW n \in Nat, NEW g \in Nat,
         NEW c \in Calls, NEW a \in Call, Counts(cl, ex, n, g), cl[c].pc # "idle", a.pc = "node",
         g + 1 \in Statements, a.vals.sql = g + 1, LeftOf(a) + 1 <= LeftOf(cl[c])
  PROVE  Counts([cl EXCEPT ![c] = a], ex, n, g + 1)
<1>0. (g + 1) + Sum(LeftIn([cl EXCEPT ![c] = a]), Calls) <= n * (MaxRepairs + 1)
  <2>1. LeftOf(a) \in Nat /\ LeftOf(cl[c]) \in Nat
    BY LeftType
  <2>2. (g + 1) + LeftOf(a) <= g + LeftOf(cl[c])
    BY <2>1
  <2>3. g + 1 \in Nat /\ g + Sum(LeftIn(cl), Calls) <= n * (MaxRepairs + 1)
    BY DEF Counts
  <2>. QED BY <2>2, <2>3, LeftPays
<1> DEFINE next == [cl EXCEPT ![c] = a]
           s0 == g + 1
<1>1. next[c] = a /\ \A d \in Calls \ {c} : next[d] = cl[d]
  OBVIOUS
<1>. HIDE DEF next
<1>2. BusyIn(next) = BusyIn(cl) /\ BusyIn(cl) \in SUBSET Calls
  BY <1>1 DEF BusyIn
<1>3. Cardinality(BusyIn(next)) <= n /\ Cardinality(BusyIn(next)) \in Nat
  BY <1>2, Counted DEF Counts
<1>4. ASSUME NEW s \in Statements PROVE ex[s] + Cardinality(AheadIn(next, s)) <= n
  <2>1. CASE s = s0
    <3>1. ex[s] = 0
      <4>1. s > g
        BY <2>1
      <4>. QED BY <4>1 DEF Counts
    <3>2. AheadIn(next, s) \in SUBSET BusyIn(next) /\ BusyIn(next) \in SUBSET Calls
      BY <1>2 DEF AheadIn, BusyIn, AheadOf
    <3>3. PICK x \in Nat, y \in Nat : x = Cardinality(AheadIn(next, s)) /\ y = Cardinality(BusyIn(next))
      BY <3>2, Counted
    <3>4. x <= y /\ y <= n
      BY <1>3, <3>2, <3>3, Counted
    <3>5. 0 + x <= n
      BY <3>4
    <3>. QED BY <3>1, <3>3, <3>5
  <2>2. CASE s # s0
    <3>1. AheadIn(next, s) \in SUBSET AheadIn(cl, s) /\ AheadIn(cl, s) \in SUBSET Calls
      BY <1>1, <2>2 DEF AheadIn, AheadOf
    <3>2. PICK x \in Nat, y \in Nat, e \in Nat :
            x = Cardinality(AheadIn(next, s)) /\ y = Cardinality(AheadIn(cl, s)) /\ e = ex[s]
      BY <3>1, Counted
    <3>3. x <= y /\ e + y <= n
      BY <3>1, <3>2, Counted DEF Counts
    <3>4. e + x <= n
      BY <3>3
    <3>. QED BY <3>2, <3>4
  <2>. QED BY <2>1, <2>2
<1>5. ASSUME NEW s \in Statements, s > s0 PROVE ex[s] = 0
  <2>1. s > g
    BY <1>5 DEF Statements
  <2>. QED BY <2>1 DEF Counts
<1>. QED BY <1>0, <1>3, <1>4, <1>5 DEF Counts, next

\* A request goes on as a, within the bounds.
StepsTo(c, a) ==
  /\ a \in Call /\ call' = [call EXCEPT ![c] = a]
  /\ Works(a) => Fits(a.node, a.vals, generated')
  /\ ckpt' \in Checkpoint /\ Fits(ckpt'.next, ckpt'.vals, generated')
  /\ head' \subseteq Calls /\ generated' \in Statements \cup {0} /\ generated <= generated'
  /\ calls' \in 0..MaxCalls /\ faults' \in 0..MaxFaults

\* What the invariant says of the numbers.
LEMMA BoundsOf ==
  ASSUME CountInv
  PROVE  /\ Inv /\ generated \in Nat /\ generated \in Statements \cup {0}
         /\ calls \in Nat /\ calls \in 0..MaxCalls /\ faults \in 0..MaxFaults /\ head \subseteq Calls
         /\ ckpt \in Checkpoint /\ Fits(ckpt.next, ckpt.vals, generated) /\ ckpt.vals \in Values
         /\ ckpt.next \in Nodes \cup {"none", "END"}
         /\ call \in [Calls -> Call] /\ executions \in [Statements -> Nat]
         /\ Counts(call, executions, calls, generated)
         /\ \A c \in Calls : /\ call[c] \in Call /\ call[c].vals \in Values
                             /\ Works(call[c]) => Fits(call[c].node, call[c].vals, generated)
BY WorkflowAssumption DEF CountInv, RunInv, Inv, Shapes, Bounds, Checkpoint, Call, AtWork, Works

\* The requests generated no more than their attempts, and what one of them has left comes
\* on top.
LEMMA GeneratedAtMost ==
  ASSUME CountInv
  PROVE  /\ generated <= calls * (MaxRepairs + 1)
         /\ \A c \in Calls : generated + LeftOf(call[c]) <= calls * (MaxRepairs + 1)
<1>1. generated + Sum(LeftIn(call), Calls) <= calls * (MaxRepairs + 1)
  BY BoundsOf DEF Counts
<1>2. Sum(LeftIn(call), Calls) \in Nat
  <2>1. \A d \in Calls : LeftIn(call)[d] \in Nat
    BY BoundsOf, LeftType DEF LeftIn
  <2>. QED BY <2>1, WorkflowAssumption, SumType
<1>3. PICK x \in Nat, k \in Nat, g \in Nat :
        x = Sum(LeftIn(call), Calls) /\ k = calls * (MaxRepairs + 1) /\ g = generated
  BY <1>2, Scale, BoundsOf
<1>4. g <= k
  BY <1>1, <1>3
<1>5. ASSUME NEW c \in Calls PROVE generated + LeftOf(call[c]) <= calls * (MaxRepairs + 1)
  <2>1. LeftOf(call[c]) \in Nat /\ LeftOf(call[c]) <= x
    BY <1>3, BoundsOf, LeftChanges
  <2>2. g + LeftOf(call[c]) <= k
    BY <1>1, <1>3, <2>1
  <2>. QED BY <1>3, <2>2
<1>. QED BY <1>3, <1>4, <1>5

\* There is always a statement left for generate_sql.
LEMMA HasRoom == ASSUME CountInv PROVE Room
<1>. SUFFICES ASSUME NEW c \in Calls, At(c, "generate_sql") PROVE generated + 1 \in Statements
  BY DEF Room
<1>1. call[c].vals.attempts \in 0..MaxRepairs + 1 /\ call[c].vals.attempts <= MaxRepairs
  BY BoundsOf DEF At, Works, Fits, Early, Values
<1>2. LeftOf(call[c]) >= 1 /\ LeftOf(call[c]) \in Nat
  BY <1>1, WorkflowAssumption DEF LeftOf, Works, At
<1>3. PICK k \in Nat, m \in Nat, g \in Nat, l \in Nat :
        /\ k = calls * (MaxRepairs + 1) /\ m = MaxCalls * (MaxRepairs + 1) /\ g = generated
        /\ l = LeftOf(call[c])
  BY <1>2, Scale, BoundsOf, WorkflowAssumption
<1>4. g + l <= k /\ l >= 1
  BY <1>2, <1>3, GeneratedAtMost
<1>5. k <= m
  BY <1>3, Scale, BoundsOf, WorkflowAssumption
<1>6. g + 1 \in 1..m
  BY <1>4, <1>5
<1>. QED BY <1>3, <1>6 DEF Statements

\* What fits keeps fitting while statements are generated.
LEMMA FitsStays ==
  ASSUME NEW n, NEW v, NEW g \in Nat, NEW h \in Nat, g <= h, Fits(n, v, g)
  PROVE  Fits(n, v, h)
<1>1. v.sql \in Nat
  BY DEF Fits, Values, Statements
<1>. QED BY <1>1 DEF Fits

\* A request that goes on within the bounds keeps them for all.
LEMMA StepBounds ==
  ASSUME CountInv, NEW c \in Calls, NEW a, StepsTo(c, a)
  PROVE  Bounds'
<1>1. generated \in Nat /\ generated' \in Nat /\ generated <= generated' /\ call \in [Calls -> Call]
  BY BoundsOf DEF StepsTo, Statements
<1>2. ASSUME NEW d \in Calls, AtWork(d)' PROVE Fits(call'[d].node, call'[d].vals, generated')
  <2>1. CASE d = c
    <3>1. call'[d] = a
      BY <1>1, <2>1 DEF StepsTo
    <3>. QED BY <1>2, <3>1 DEF StepsTo, AtWork, Works
  <2>2. CASE d # c
    <3>1. call'[d] = call[d]
      BY <1>1, <2>2 DEF StepsTo
    <3>2. Fits(call[d].node, call[d].vals, generated)
      BY <1>2, <3>1, BoundsOf DEF AtWork, Works
    <3>. QED BY <1>1, <3>1, <3>2, FitsStays
  <2>. QED BY <2>1, <2>2
<1>3. call' \in [Calls -> Call]
  BY <1>1 DEF StepsTo
<1>. QED BY <1>2, <1>3 DEF Bounds, StepsTo

\* It keeps the counts as well when it is ahead of nothing new and executes nothing.
LEMMA StepKeeps ==
  ASSUME CountInv, NEW c \in Calls, NEW a, StepsTo(c, a), call[c].pc # "idle",
         UNCHANGED <<executions, calls, generated>>,
         \A s \in Statements : AheadOf(a, s) => AheadOf(call[c], s),
         LeftOf(a) <= LeftOf(call[c])
  PROVE  (Bounds /\ Counts(call, executions, calls, generated))'
<1>1. Counts([call EXCEPT ![c] = a], executions, calls, generated)
  BY BoundsOf, CountKeeps DEF StepsTo
<1>2. Counts(call', executions', calls', generated')
  BY <1>1 DEF StepsTo
<1>. QED BY <1>2, StepBounds

\* The answer of a request is within the bounds and ahead of nothing.
LEMMA AnswerFits ==
  ASSUME CountInv, NEW c \in Calls, NEW r \in Replies
  PROVE  /\ Answer(c, r) \in Call /\ ~Works(Answer(c, r))
         /\ \A s : ~AheadOf(Answer(c, r), s)
         /\ LeftOf(Answer(c, r)) <= LeftOf(call[c])
<1>1. call[c].op \in {"start", "resume"}
  BY BoundsOf DEF Call
<1>2. NoValues \in Values
  BY WorkflowAssumption DEF NoValues, Values, Risks, Decisions, Errors
<1>. HIDE DEF NoValues
<1>. DEFINE a == Answer(c, r)
<1>3. a \in Call /\ a.pc = "idle"
  BY <1>1, <1>2 DEF Answer, NoCall, Call
<1>. HIDE DEF a
<1>4. a \in Call /\ ~Works(a) /\ \A s : ~AheadOf(a, s)
  BY <1>3 DEF Works, AheadOf
<1>5. LeftOf(a) = 0 /\ LeftOf(call[c]) \in Nat
  BY <1>3, LeftType, BoundsOf DEF LeftOf, Works
<1>. QED BY <1>4, <1>5 DEF a

\* The values of a state within the bounds have their shape.
LEMMA ValuesShape == Values \subseteq Shape
<1>1. ASSUME NEW v \in Values PROVE v \in Shape
  <2>1. v.attempts \in Nat /\ v.sql \in Nat /\ v.guarded \in Nat /\ v.rows \in Nat
    BY WorkflowAssumption DEF Values, Statements
  <2>. QED BY <2>1 DEF Values, Shape
<1>. QED BY <1>1

\* A node commits a state that fits the next one.
LEMMA CommitSteps ==
  ASSUME CountInv, NEW c \in Calls, call[c].pc = "node", NEW v, NEW next \in Nodes \cup {"END"},
         Commit(c, v, next), Fits(next, v, generated'),
         generated' \in Statements \cup {0}, generated <= generated', UNCHANGED <<calls, faults>>
  PROVE  \E a \in Call : /\ StepsTo(c, a)
                         /\ next = "END" => a.pc = "idle"
                         /\ next # "END" => a.pc = "node" /\ a.node = next /\ a.vals = v
<1>1. v \in Values /\ call[c] \in Call
  BY BoundsOf DEF Fits
<1>2. ckpt' \in Checkpoint /\ ckpt'.next = next /\ ckpt'.vals = v /\ head' = {c}
  BY <1>1 DEF Commit, Checkpoint
<1>. DEFINE r == Status(v, FALSE)
            on == [call[c] EXCEPT !.node = next, !.vals = v, !.decision = "none"]
            a == IF next = "END" THEN Answer(c, r) ELSE on
<1>3. r \in Replies
  BY <1>1, ValuesShape, StatusType
<1>4. call' = [call EXCEPT ![c] = a]
  BY DEF Commit
<1>. HIDE DEF r
<1>5. next # "END" => on \in Call /\ on.pc = "node" /\ on.node = next /\ on.vals = v
  BY <1>1 DEF Call
<1>6. Answer(c, r) \in Call /\ ~Works(Answer(c, r)) /\ Answer(c, r).pc = "idle"
  BY <1>3, AnswerFits DEF Answer, NoCall
<1>. HIDE DEF on
<1>7. /\ a \in Call
      /\ Works(a) => Fits(a.node, a.vals, generated')
      /\ next = "END" => a.pc = "idle"
      /\ next # "END" => a.pc = "node" /\ a.node = next /\ a.vals = v
  BY <1>5, <1>6
<1>. HIDE DEF a
<1>8. StepsTo(c, a)
  BY <1>2, <1>4, <1>7, BoundsOf DEF StepsTo
<1>. QED BY <1>7, <1>8

\* The nodes that have a statement before them.
Late == {"guard_sql", "request_approval", "execute_sql"}

\* A node that generates and executes nothing.
LEMMA CommitCounts ==
  ASSUME CountInv, NEW c \in Calls, call[c].pc = "node", NEW v, NEW next \in Nodes \cup {"END"},
         Commit(c, v, next), Fits(next, v, generated),
         UNCHANGED <<generated, executions, calls, faults>>,
         v.attempts = call[c].vals.attempts,
         next \in Late => call[c].node \in Late /\ v.sql = call[c].vals.sql
  PROVE  (Bounds /\ Counts(call, executions, calls, generated))'
<1>1. generated' \in Statements \cup {0} /\ generated <= generated' /\ Fits(next, v, generated')
  BY BoundsOf
<1>2. PICK a \in Call : /\ StepsTo(c, a)
                        /\ next = "END" => a.pc = "idle"
                        /\ next # "END" => a.pc = "node" /\ a.node = next /\ a.vals = v
  BY <1>1, CommitSteps
<1>3. \A s \in Statements : AheadOf(a, s) => AheadOf(call[c], s)
  BY <1>2 DEF AheadOf, Late
<1>4. LeftOf(a) <= LeftOf(call[c])
  <2>1. LeftOf(call[c]) \in Nat
    BY LeftType, BoundsOf
  <2>2. LeftOf(a) = 0 \/ LeftOf(a) = LeftOf(call[c])
    BY <1>2 DEF LeftOf, Works
  <2>. QED BY <2>1, <2>2
<1>. QED BY <1>2, <1>3, <1>4, StepKeeps

\* The state of a request at a node.
LEMMA ValuesAt ==
  ASSUME CountInv, NEW c \in Calls, NEW n, At(c, n)
  PROVE  /\ call[c].pc = "node" /\ call[c].node = n /\ call[c].vals \in Values
         /\ Fits(n, call[c].vals, generated) /\ call[c].vals.attempts \in Nat
         /\ call[c].vals.attempts <= MaxRepairs + 1 /\ call[c].vals.sql <= generated
         /\ n \in Early => call[c].vals.attempts <= MaxRepairs
<1>1. /\ call[c].pc = "node" /\ call[c].node = n /\ call[c].vals \in Values
      /\ Fits(n, call[c].vals, generated)
  BY BoundsOf DEF At, Works
<1>2. call[c].vals.attempts \in 0..MaxRepairs + 1
  BY <1>1 DEF Values
<1>. QED BY <1>1, <1>2, WorkflowAssumption DEF Fits

----------------------------------------------------------------------------
(* The counts and bounds, node by node *)

\* classify.
LEMMA ClassifyCounts ==
  ASSUME CountInv, NEW c \in Calls, Classify(c)
  PROVE  (Bounds /\ Counts(call, executions, calls, generated))'
<1> DEFINE v == call[c].vals
           u == IF question = "blocked" THEN [v EXCEPT !.risk = "blocked", !.error = "QUESTION"]
                ELSE [v EXCEPT !.intent = question, !.error = "none"]
           n == IF u.risk = "blocked" THEN "END" ELSE "retrieve_metrics"
<1>1. /\ call[c].pc = "node" /\ v \in Values /\ v.attempts <= MaxRepairs /\ v.sql <= generated
      /\ question \in {"blocked", "knowledge", "hybrid"}
  BY ValuesAt DEF Classify, Early, CountInv, RunInv, Inv, Shapes
<1>2. u \in Values /\ u.attempts = v.attempts /\ u.sql = v.sql
  BY <1>1 DEF Values, Risks, Errors
<1>3. n \in Nodes \cup {"END"} /\ n \notin Late
  BY DEF Nodes, Late
<1>4. Commit(c, u, n) /\ UNCHANGED <<generated, executions, calls, faults>>
  BY DEF Classify, history
<1>. HIDE DEF u, n
<1>5. Fits(n, u, generated)
  BY <1>1, <1>2 DEF Fits
<1>. QED BY <1>1, <1>2, <1>3, <1>4, <1>5, CommitCounts

\* retrieve_metrics.
LEMMA RetrieveMetricsCounts ==
  ASSUME CountInv, NEW c \in Calls, RetrieveMetrics(c)
  PROVE  (Bounds /\ Counts(call, executions, calls, generated))'
<1> DEFINE v == call[c].vals
           n == IF v.intent = "knowledge" THEN "compose" ELSE "select_schema"
<1>1. call[c].pc = "node" /\ v \in Values /\ v.attempts <= MaxRepairs /\ v.sql <= generated
  BY ValuesAt DEF RetrieveMetrics, Early
<1>2. PICK e \in {"none", "EVIDENCE"} : Commit(c, [v EXCEPT !.error = e], n)
  BY DEF RetrieveMetrics, history
<1> DEFINE u == [v EXCEPT !.error = e]
<1>3. u \in Values /\ u.attempts = v.attempts /\ u.sql = v.sql
  BY <1>1 DEF Values, Errors
<1>4. n \in Nodes \cup {"END"} /\ n \notin Late
  BY DEF Nodes, Late
<1>5. Commit(c, u, n) /\ UNCHANGED <<generated, executions, calls, faults>>
  BY <1>2 DEF RetrieveMetrics, history
<1>. HIDE DEF u, n
<1>6. Fits(n, u, generated)
  BY <1>1, <1>3 DEF Fits
<1>. QED BY <1>1, <1>3, <1>4, <1>5, <1>6, CommitCounts

\* select_schema.
LEMMA SelectSchemaCounts ==
  ASSUME CountInv, NEW c \in Calls, SelectSchema(c)
  PROVE  (Bounds /\ Counts(call, executions, calls, generated))'
<1>1. /\ call[c].pc = "node" /\ Fits("generate_sql", call[c].vals, generated)
      /\ "generate_sql" \in Nodes \cup {"END"} /\ "generate_sql" \notin Late
  BY ValuesAt DEF SelectSchema, Early, Fits, Nodes, Late
<1>2. Commit(c, call[c].vals, "generate_sql") /\ UNCHANGED <<generated, executions, calls, faults>>
  BY DEF SelectSchema, history
<1>. QED BY <1>1, <1>2, CommitCounts

\* generate_sql uses an attempt that is left.
LEMMA GenerateSqlCounts ==
  ASSUME CountInv, NEW c \in Calls, GenerateSql(c)
  PROVE  (Bounds /\ Counts(call, executions, calls, generated))'
<1> DEFINE v == call[c].vals
           u == [v EXCEPT !.sql = generated + 1, !.attempts = v.attempts + 1, !.error = "none"]
<1>1. /\ call[c].pc = "node" /\ v \in Values /\ v.attempts <= MaxRepairs /\ v.attempts \in Nat
      /\ generated \in Nat /\ generated + 1 \in Statements
  BY ValuesAt, BoundsOf, HasRoom DEF GenerateSql, Early, Room
<1>2. v.attempts + 1 \in 0..MaxRepairs + 1
  BY <1>1, WorkflowAssumption
<1>3. u \in Values /\ u.sql = generated + 1 /\ u.attempts = v.attempts + 1
  BY <1>1, <1>2 DEF Values, Errors
<1>4. Commit(c, u, "guard_sql") /\ UNCHANGED <<executions, calls, faults>> /\ generated' = generated + 1
  BY <1>1 DEF GenerateSql, Values
<1>. HIDE DEF u
<1>5. Fits("guard_sql", u, generated')
  BY <1>1, <1>3, <1>4 DEF Fits, Early
<1>6. generated' \in Statements \cup {0} /\ generated <= generated' /\ "guard_sql" \in Nodes \cup {"END"}
  BY <1>1, <1>4 DEF Nodes
<1>7. PICK a \in Call : StepsTo(c, a) /\ a.pc = "node" /\ a.vals = u
  BY <1>1, <1>4, <1>5, <1>6, CommitSteps
<1>8. LeftOf(a) + 1 <= LeftOf(call[c])
  <2>1. LeftOf(a) = MaxRepairs + 1 - (v.attempts + 1) /\ LeftOf(call[c]) = MaxRepairs + 1 - v.attempts
    BY <1>1, <1>3, <1>7 DEF LeftOf, Works
  <2>. QED BY <1>1, <2>1, WorkflowAssumption
<1>9. Counts([call EXCEPT ![c] = a], executions, calls, generated + 1)
  BY <1>1, <1>3, <1>7, <1>8, BoundsOf, CountGenerates
<1>10. Counts(call', executions', calls', generated')
  BY <1>4, <1>7, <1>9 DEF StepsTo
<1>. QED BY <1>7, <1>10, StepBounds

\* guard_sql goes back only while an attempt is left.
LEMMA GuardSqlCounts ==
  ASSUME CountInv, NEW c \in Calls, GuardSql(c)
  PROVE  (Bounds /\ Counts(call, executions, calls, generated))'
<1> DEFINE v == call[c].vals
           bad == [v EXCEPT !.risk = "repair", !.error = "GUARD"]
           good(r) == [v EXCEPT !.risk = r, !.guarded = v.sql, !.error = "none"]
<1>1. /\ call[c].pc = "node" /\ call[c].node \in Late /\ v \in Values /\ v.attempts \in Nat
      /\ v.sql <= generated
  BY ValuesAt DEF GuardSql, Late
<1>2. UNCHANGED <<generated, executions, calls, faults>>
  BY DEF GuardSql
<1>3. PICK u \in {bad, good("approval"), good("safe")} : Commit(c, u, AfterGuard(u))
  BY DEF GuardSql
<1>4. u \in Values /\ u.attempts = v.attempts /\ u.sql = v.sql
  BY <1>1 DEF Values, Risks, Errors
<1>. HIDE DEF bad, good
<1>5. /\ AfterGuard(u) \in Nodes \cup {"END"}
      /\ AfterGuard(u) \in Early => v.attempts < MaxRepairs + 1
  BY <1>4 DEF AfterGuard, Nodes, Early, Values, Risks
<1>6. Fits(AfterGuard(u), u, generated)
  BY <1>1, <1>4, <1>5, WorkflowAssumption DEF Fits
<1>. QED BY <1>1, <1>2, <1>3, <1>4, <1>5, <1>6, CommitCounts

\* request_approval with a decision.
LEMMA DecideCounts ==
  ASSUME CountInv, NEW c \in Calls, Decide(c)
  PROVE  (Bounds /\ Counts(call, executions, calls, generated))'
<1> DEFINE v == call[c].vals
           d == call[c].decision
           no == [v EXCEPT !.decision = d, !.error = "APPROVAL_REJECTED"]
           yes == [v EXCEPT !.decision = d, !.error = "none"]
<1>1. /\ call[c].pc = "node" /\ call[c].node \in Late /\ v \in Values /\ v.sql <= generated
      /\ d \in Decisions \cup {"none"}
  BY ValuesAt, BoundsOf DEF Decide, Late, Call
<1>2. UNCHANGED <<generated, executions, calls, faults>>
  BY DEF Decide
<1>3. Commit(c, no, "END") \/ Commit(c, yes, "execute_sql")
  BY DEF Decide
<1>4. /\ no \in Values /\ no.sql = v.sql /\ no.attempts = v.attempts
      /\ yes \in Values /\ yes.sql = v.sql /\ yes.attempts = v.attempts
  BY <1>1 DEF Values, Errors
<1>. HIDE DEF no, yes
<1>5. /\ Fits("END", no, generated) /\ Fits("execute_sql", yes, generated)
      /\ "END" \notin Late /\ "execute_sql" \in Nodes
  BY <1>1, <1>4 DEF Fits, Early, Nodes, Late
<1>. QED BY <1>1, <1>2, <1>3, <1>4, <1>5, CommitCounts

\* The statement that a request at execute_sql executes is the one it generated.
LEMMA ExecutesOwn ==
  ASSUME CountInv, NEW c \in Calls, At(c, "execute_sql")
  PROVE  LET s == call[c].vals.guarded
         IN  s \in Statements /\ s <= generated /\ AheadOf(call[c], s)
<1>1. /\ call[c].pc = "node" /\ call[c].node = "execute_sql" /\ call[c].vals.sql <= generated
  BY ValuesAt
<1>2. Sound(question, "execute_sql", call[c].vals, log)
  BY <1>1 DEF CountInv, RunInv, AllSound, AtWork
<1>3. call[c].vals.guarded = call[c].vals.sql /\ call[c].vals.sql \in Statements
  BY <1>2 DEF Sound
<1>. QED BY <1>1, <1>3 DEF AheadOf

\* execute_sql executes what the request was ahead of.
LEMMA ExecuteSqlCounts ==
  ASSUME CountInv, NEW c \in Calls, ExecuteSql(c)
  PROVE  (Bounds /\ Counts(call, executions, calls, generated))'
<1> DEFINE v == call[c].vals
           s == v.guarded
           u == [v EXCEPT !.rows = v.guarded, !.error = "none"]
<1>1. call[c].pc = "node" /\ v \in Values /\ v.sql <= generated
  BY ValuesAt DEF ExecuteSql
<1>2. u \in Values /\ u.sql = v.sql /\ u.attempts = v.attempts
  BY <1>1 DEF Values, Errors
<1>3. /\ Commit(c, u, "verify") /\ UNCHANGED <<generated, calls, faults>>
      /\ executions' = [executions EXCEPT ![s] = @ + 1]
  BY DEF ExecuteSql, Executed
<1>4. s \in Statements /\ s <= generated /\ AheadOf(call[c], s)
  BY ExecutesOwn DEF ExecuteSql
<1>. HIDE DEF u, s
<1>5. /\ Fits("verify", u, generated') /\ "verify" \in Nodes \cup {"END"}
      /\ generated' \in Statements \cup {0} /\ generated <= generated'
  BY <1>1, <1>2, <1>3, BoundsOf DEF Fits, Early, Nodes
<1>6. PICK a \in Call : StepsTo(c, a) /\ a.pc = "node" /\ a.node = "verify" /\ a.vals = u
  BY <1>1, <1>3, <1>5, CommitSteps
<1>7. (\A t \in Statements : ~AheadOf(a, t)) /\ LeftOf(a) <= LeftOf(call[c])
  <2>1. LeftOf(a) = LeftOf(call[c]) /\ LeftOf(a) \in Nat
    BY <1>1, <1>2, <1>6, LeftType DEF LeftOf, Works
  <2>. QED BY <1>6, <2>1 DEF AheadOf
<1>8. Counts([call EXCEPT ![c] = a], [executions EXCEPT ![s] = @ + 1], calls, generated)
  BY <1>4, <1>7, BoundsOf, CountExecutes
<1>9. Counts(call', executions', calls', generated')
  BY <1>3, <1>6, <1>8 DEF StepsTo
<1>. QED BY <1>6, <1>9, StepBounds

\* verify goes back only while an attempt is left.
LEMMA VerifyCounts ==
  ASSUME CountInv, NEW c \in Calls, Verify(c)
  PROVE  (Bounds /\ Counts(call, executions, calls, generated))'
<1> DEFINE v == call[c].vals
           good == [v EXCEPT !.error = "none"]
           bad == [v EXCEPT !.error = "COLUMNS"]
           n == IF v.attempts < MaxRepairs + 1 THEN "generate_sql" ELSE "compose"
<1>1. call[c].pc = "node" /\ v \in Values /\ v.attempts \in Nat /\ v.sql <= generated
  BY ValuesAt DEF Verify
<1>2. UNCHANGED <<generated, executions, calls, faults>>
  BY DEF Verify
<1>3. Commit(c, good, "compose") \/ Commit(c, bad, n)
  BY DEF Verify
<1>4. /\ good \in Values /\ good.sql = v.sql /\ good.attempts = v.attempts
      /\ bad \in Values /\ bad.sql = v.sql /\ bad.attempts = v.attempts
  BY <1>1 DEF Values, Errors
<1>5. /\ n \in Nodes /\ n \notin Late /\ "compose" \in Nodes /\ "compose" \notin Late
      /\ n \in Early => v.attempts <= MaxRepairs
  BY <1>1, WorkflowAssumption DEF Nodes, Late, Early
<1>. HIDE DEF good, bad, n
<1>6. Fits("compose", good, generated) /\ Fits(n, bad, generated)
  BY <1>1, <1>4, <1>5 DEF Fits, Early
<1>. QED BY <1>1, <1>2, <1>3, <1>4, <1>5, <1>6, CommitCounts

\* compose.
LEMMA ComposeCounts ==
  ASSUME CountInv, NEW c \in Calls, Compose(c)
  PROVE  (Bounds /\ Counts(call, executions, calls, generated))'
<1> DEFINE v == call[c].vals
           b == v.error \in {"none", "EVIDENCE"}
           e == IF v.error = "EVIDENCE" THEN "none" ELSE v.error
           u == [v EXCEPT !.answer = b, !.error = e]
<1>1. call[c].pc = "node" /\ v \in Values /\ v.sql <= generated
  BY ValuesAt DEF Compose
<1>2. b \in BOOLEAN /\ e \in Errors
  BY <1>1 DEF Values, Errors
<1>3. Commit(c, u, "END") /\ UNCHANGED <<generated, executions, calls, faults>>
  BY <1>1 DEF Compose, Values, history
<1>. HIDE DEF b, e
<1>4. u \in Values /\ u.sql = v.sql /\ u.attempts = v.attempts
  BY <1>1, <1>2 DEF Values
<1>. HIDE DEF u
<1>5. Fits("END", u, generated) /\ "END" \notin Late
  BY <1>1, <1>4 DEF Fits, Early, Late
<1>. QED BY <1>1, <1>3, <1>4, <1>5, CommitCounts

----------------------------------------------------------------------------
(* The counts and bounds of requests, pauses and failures *)

\* A request that arrives, within the bounds.
LEMMA ArrivalCounts ==
  ASSUME CountInv, NEW c \in Calls, NEW a \in Call, Arrives(c), call' = [call EXCEPT ![c] = a],
         ~Works(a), UNCHANGED <<ckpt, head, generated, executions, faults>>
  PROVE  (Bounds /\ Counts(call, executions, calls, generated))'
<1>1. calls' = calls + 1 /\ calls' \in 0..MaxCalls
  BY BoundsOf, WorkflowAssumption DEF Arrives
<1>2. StepsTo(c, a)
  BY <1>1, BoundsOf DEF StepsTo
<1>3. Counts([call EXCEPT ![c] = a], executions, calls + 1, generated)
  BY BoundsOf, CountArrives
<1>4. Counts(call', executions', calls', generated')
  BY <1>1, <1>3
<1>. QED BY <1>2, <1>4, StepBounds

\* The empty state is within the bounds.
LEMMA NoValuesFits == NoValues \in Values /\ \A g \in Nat : \A n : Fits(n, NoValues, g)
<1>1. NoValues \in Values /\ NoValues.sql = 0 /\ NoValues.attempts = 0
  BY WorkflowAssumption DEF NoValues, Values, Risks, Decisions, Errors
<1>. QED BY <1>1, WorkflowAssumption DEF Fits

\* start.
LEMMA StartCounts ==
  ASSUME CountInv, NEW c \in Calls, Start(c)
  PROVE  (Bounds /\ Counts(call, executions, calls, generated))'
<1> DEFINE a == IF Exists THEN [NoCall EXCEPT !.reply = Inspect] ELSE [NoCall EXCEPT !.pc = "invoke"]
<1>1. Inspect \in Replies
  BY BoundsOf, InspectType
<1>2. a \in Call /\ a.pc \in {"idle", "invoke"}
  BY <1>1, NoValuesFits DEF NoCall, Call, Replies
<1>3. /\ Arrives(c) /\ call' = [call EXCEPT ![c] = a]
      /\ UNCHANGED <<ckpt, head, generated, executions, faults>>
  BY DEF Start, history
<1>. HIDE DEF a
<1>4. ~Works(a)
  BY <1>2 DEF Works
<1>. QED BY <1>2, <1>3, <1>4, ArrivalCounts

\* resume.
LEMMA ResumeCounts ==
  ASSUME CountInv, NEW c \in Calls, NEW d \in Decisions, Resume(c, d)
  PROVE  (Bounds /\ Counts(call, executions, calls, generated))'
<1> DEFINE yes == [NoCall EXCEPT !.op = "resume", !.pc = "resume", !.decision = d]
           no == [NoCall EXCEPT !.op = "resume", !.reply = "conflict"]
<1>1. yes \in Call /\ yes.pc = "resume" /\ no \in Call /\ no.pc = "idle"
  BY NoValuesFits DEF NoCall, Call, Replies
<1>2. PICK a \in {yes, no} :
        /\ Arrives(c) /\ call' = [call EXCEPT ![c] = a]
        /\ UNCHANGED <<ckpt, head, generated, executions, faults>>
  BY DEF Resume
<1>. HIDE DEF yes, no
<1>3. a \in Call /\ ~Works(a)
  BY <1>1 DEF Works
<1>. QED BY <1>2, <1>3, ArrivalCounts

\* A new invocation, with all its attempts before it.
LEMMA InvokeCounts ==
  ASSUME CountInv, NEW c \in Calls, Invoke(c)
  PROVE  (Bounds /\ Counts(call, executions, calls, generated))'
<1> DEFINE b == Begin(ckpt.vals)
           a == [call[c] EXCEPT !.pc = "node", !.node = "classify", !.vals = b]
           k == [NoCheckpoint EXCEPT !.next = "classify", !.vals = b]
<1>1. ckpt.vals \in Values /\ ckpt.vals.sql <= generated /\ call[c] \in Call
  BY BoundsOf DEF Fits
<1>2. b \in Values /\ b.attempts = 0 /\ b.sql = ckpt.vals.sql
  <2>1. 0 \in 0..MaxRepairs + 1
    BY WorkflowAssumption
  <2>. QED BY <1>1, <2>1 DEF Begin, Values, Errors
<1>3. /\ call[c].pc = "invoke" /\ call' = [call EXCEPT ![c] = a] /\ ckpt' = k /\ head' = {c}
      /\ UNCHANGED <<executions, calls, generated, faults>>
  BY DEF Invoke, history
<1>. HIDE DEF b
<1>4. a \in Call /\ a.node = "classify" /\ a.vals = b
  BY <1>1, <1>2 DEF Call, Nodes
<1>5. k \in Checkpoint /\ k.next = "classify" /\ k.vals = b
  BY <1>2 DEF NoCheckpoint, Checkpoint, Nodes
<1>6. Fits("classify", b, generated)
  BY <1>1, <1>2, WorkflowAssumption DEF Fits
<1>. HIDE DEF a, k
<1>7. StepsTo(c, a)
  BY <1>3, <1>4, <1>5, <1>6, BoundsOf DEF StepsTo
<1>8. \A s \in Statements : AheadOf(call[c], s)
  BY <1>3 DEF AheadOf
<1>9. LeftOf(a) <= LeftOf(call[c])
  BY <1>3, <1>4, LeftType DEF LeftOf
<1>. QED BY <1>3, <1>7, <1>8, <1>9, StepKeeps

\* A resumed request goes on from the checkpoint.
LEMMA InvokeResumeCounts ==
  ASSUME CountInv, NEW c \in Calls, InvokeResume(c)
  PROVE  (Bounds /\ Counts(call, executions, calls, generated))'
<1> DEFINE r == Status(ckpt.vals, FALSE)
           d == IF ckpt.interrupted THEN call[c].decision ELSE "none"
           on == [call[c] EXCEPT !.pc = "node", !.node = ckpt.next, !.vals = ckpt.vals, !.decision = d]
           a == IF ckpt.next = "END" THEN Answer(c, r) ELSE on
<1>1. /\ ckpt.vals \in Values /\ call[c] \in Call /\ ckpt.next \in Nodes \cup {"none", "END"}
      /\ ckpt \in Checkpoint /\ Fits(ckpt.next, ckpt.vals, generated)
  BY BoundsOf
<1>2. r \in Replies
  BY <1>1, ValuesShape, StatusType
<1>3. d \in Decisions \cup {"none"}
  BY <1>1 DEF Call
<1>4. Answer(c, r) \in Call /\ ~Works(Answer(c, r))
  BY <1>2, AnswerFits
<1>5. /\ call[c].pc = "resume" /\ call' = [call EXCEPT ![c] = a] /\ head' \subseteq Calls
      /\ UNCHANGED <<ckpt, executions, calls, generated, faults>>
  BY <1>1, BoundsOf DEF InvokeResume, history, Call
<1>. HIDE DEF r, d
<1>6. ckpt.next # "END" => on \in Call /\ on.node = ckpt.next /\ on.vals = ckpt.vals
  BY <1>1, <1>3 DEF Call
<1>. HIDE DEF on
<1>7. /\ a \in Call
      /\ Works(a) => Fits(a.node, a.vals, generated)
  BY <1>1, <1>4, <1>6
<1>. HIDE DEF a
<1>8. StepsTo(c, a)
  BY <1>1, <1>5, <1>7, BoundsOf DEF StepsTo
<1>9. \A s \in Statements : AheadOf(call[c], s)
  BY <1>5 DEF AheadOf
<1>10. LeftOf(a) <= LeftOf(call[c])
  BY <1>5, <1>7, LeftType DEF LeftOf
<1>. QED BY <1>5, <1>8, <1>9, <1>10, StepKeeps

\* Asking for the approval.
LEMMA AskCounts ==
  ASSUME CountInv, NEW c \in Calls, Ask(c)
  PROVE  (Bounds /\ Counts(call, executions, calls, generated))'
<1> DEFINE a == [call[c] EXCEPT !.pc = "pause"]
<1>1. /\ call[c] \in Call /\ call[c].pc = "node"
      /\ Fits(call[c].node, call[c].vals, generated)
  BY BoundsOf DEF Ask, At, Works
<1>2. a \in Call /\ a.pc = "pause" /\ a.node = call[c].node /\ a.vals = call[c].vals
  BY <1>1 DEF Call
<1>3. /\ call' = [call EXCEPT ![c] = a]
      /\ UNCHANGED <<ckpt, head, executions, calls, generated, faults>>
  BY DEF Ask, history
<1>. HIDE DEF a
<1>4. StepsTo(c, a)
  BY <1>1, <1>2, <1>3, BoundsOf DEF StepsTo
<1>5. \A s \in Statements : AheadOf(a, s) => AheadOf(call[c], s)
  BY <1>1, <1>2 DEF AheadOf
<1>6. LeftOf(a) <= LeftOf(call[c])
  <2>1. LeftOf(a) = LeftOf(call[c]) /\ LeftOf(a) \in Nat
    BY <1>1, <1>2, LeftType DEF LeftOf, Works
  <2>. QED BY <2>1
<1>. QED BY <1>1, <1>3, <1>4, <1>5, <1>6, StepKeeps

\* The pause.
LEMMA InterruptCounts ==
  ASSUME CountInv, NEW c \in Calls, Interrupt(c)
  PROVE  (Bounds /\ Counts(call, executions, calls, generated))'
<1> DEFINE a == Answer(c, "WAITING_APPROVAL")
<1>1. a \in Call /\ ~Works(a) /\ (\A s : ~AheadOf(a, s)) /\ LeftOf(a) <= LeftOf(call[c])
  BY AnswerFits DEF Replies
<1>2. ckpt' \in Checkpoint /\ ckpt'.next = ckpt.next /\ ckpt'.vals = ckpt.vals
  BY BoundsOf DEF Interrupt, Checkpoint
<1>3. /\ call[c].pc = "pause" /\ call' = [call EXCEPT ![c] = a]
      /\ UNCHANGED <<head, executions, calls, generated, faults>>
  BY DEF Interrupt, history
<1>. HIDE DEF a
<1>4. StepsTo(c, a)
  BY <1>1, <1>2, <1>3, BoundsOf DEF StepsTo
<1>. QED BY <1>1, <1>3, <1>4, StepKeeps

\* A node that fails answers its request; execute_sql may have executed.
LEMMA NodeFailsCounts ==
  ASSUME CountInv, NEW c \in Calls, NodeFails(c)
  PROVE  (Bounds /\ Counts(call, executions, calls, generated))'
<1> DEFINE r == IF call[c].op = "start" /\ ckpt'.error THEN Inspect' ELSE "error"
           a == Answer(c, r)
<1>1. ckpt' \in Checkpoint /\ ckpt'.next = ckpt.next /\ ckpt'.vals = ckpt.vals
  BY BoundsOf DEF NodeFails, Checkpoint
<1>2. r \in Replies
  <2>1. ckpt'.vals \in Shape /\ ckpt'.interrupted \in BOOLEAN
    BY <1>1, ValuesShape DEF Checkpoint
  <2>2. Status(ckpt'.vals, ckpt'.interrupted) \in Replies
    BY <2>1, StatusType
  <2>3. Inspect' \in Replies
    BY <2>2 DEF Inspect, Replies, Final
  <2>. QED BY <2>3 DEF Replies
<1>3. /\ call' = [call EXCEPT ![c] = a] /\ call[c].pc # "idle"
      /\ UNCHANGED <<head, generated, calls>> /\ faults < MaxFaults /\ faults' = faults + 1
  BY DEF NodeFails
<1>. HIDE DEF r
<1>4. a \in Call /\ ~Works(a) /\ (\A s : ~AheadOf(a, s)) /\ LeftOf(a) <= LeftOf(call[c])
  BY <1>2, AnswerFits
<1>. HIDE DEF a
<1>5. faults' \in 0..MaxFaults
  BY <1>3, BoundsOf, WorkflowAssumption
<1>6. StepsTo(c, a)
  BY <1>1, <1>3, <1>4, <1>5, BoundsOf DEF StepsTo
<1>7. CASE UNCHANGED executions
  BY <1>3, <1>4, <1>6, <1>7, StepKeeps
<1>8. CASE At(c, "execute_sql") /\ executions' = Executed(call[c].vals.guarded)
  <2> DEFINE s == call[c].vals.guarded
  <2>1. s \in Statements /\ s <= generated /\ AheadOf(call[c], s)
    BY <1>8, ExecutesOwn
  <2>2. executions' = [executions EXCEPT ![s] = @ + 1]
    BY <1>8 DEF Executed
  <2>. HIDE DEF s
  <2>3. Counts([call EXCEPT ![c] = a], [executions EXCEPT ![s] = @ + 1], calls, generated)
    BY <1>4, <2>1, BoundsOf, CountExecutes
  <2>4. Counts(call', executions', calls', generated')
    BY <1>3, <2>2, <2>3
  <2>. QED BY <1>6, <2>4, StepBounds
<1>. QED BY <1>7, <1>8 DEF NodeFails

\* With no request alive only what was executed counts.
LEMMA CountIdle ==
  ASSUME NEW cl, \A d \in Calls : cl[d].pc = "idle", NEW n \in Nat, NEW ex \in [Statements -> Nat],
         NEW g \in Nat, g <= n * (MaxRepairs + 1),
         \A s \in Statements : ex[s] <= n /\ (s > g => ex[s] = 0)
  PROVE  Counts(cl, ex, n, g)
<1>1. BusyIn(cl) = {} /\ \A s : AheadIn(cl, s) = {}
  BY DEF BusyIn, AheadIn, AheadOf
<1>2. Cardinality({}) = 0
  BY FS_EmptySet
<1>3. Sum(LeftIn(cl), Calls) = 0
  <2>1. \A d \in Calls : LeftIn(cl)[d] = 0
    BY DEF LeftIn, LeftOf, Works
  <2>. QED BY <2>1, WorkflowAssumption, SumZero
<1>. QED BY <1>1, <1>2, <1>3 DEF Counts

\* What was executed counts.
LEMMA ExecutedAtMost == ASSUME CountInv PROVE \A s \in Statements : executions[s] <= calls
<1>. SUFFICES ASSUME NEW s \in Statements PROVE executions[s] <= calls
  OBVIOUS
<1>1. AheadIn(call, s) \in SUBSET Calls
  BY DEF AheadIn
<1>2. PICK x \in Nat, e \in Nat : x = Cardinality(AheadIn(call, s)) /\ e = executions[s]
  BY <1>1, Counted, BoundsOf
<1>3. e + x <= calls /\ calls \in Nat
  BY <1>2, BoundsOf DEF Counts
<1>4. e <= calls
  BY <1>3
<1>. QED BY <1>2, <1>4

\* A crash ends the requests.
LEMMA CrashCounts ==
  ASSUME CountInv, Crash
  PROVE  (Bounds /\ Counts(call, executions, calls, generated))'
<1>1. \A c \in Calls : Answer(c, "error") \in Call /\ Answer(c, "error").pc = "idle"
  BY AnswerFits DEF Replies, Answer, NoCall
<1>2. /\ call' = [c \in Calls |-> IF call[c].pc = "idle" THEN call[c] ELSE Answer(c, "error")]
      /\ head' = {} /\ faults < MaxFaults /\ faults' = faults + 1
      /\ UNCHANGED <<ckpt, generated, executions, calls>>
  BY DEF Crash, history
<1>3. \A c \in Calls : call'[c] \in Call /\ call'[c].pc = "idle"
  BY <1>1, <1>2, BoundsOf
<1>4. call' \in [Calls -> Call] /\ \A c \in Calls : ~AtWork(c)'
  BY <1>2, <1>3 DEF AtWork
<1>5. faults' \in 0..MaxFaults
  BY <1>2, BoundsOf, WorkflowAssumption
<1>6. Bounds'
  BY <1>2, <1>4, <1>5, BoundsOf DEF Bounds
<1>7. \A s \in Statements : executions[s] <= calls /\ (s > generated => executions[s] = 0)
  BY ExecutedAtMost, BoundsOf DEF Counts
<1>8. generated <= calls * (MaxRepairs + 1)
  BY GeneratedAtMost
<1>9. Counts(call', executions, calls, generated)
  BY <1>3, <1>7, <1>8, BoundsOf, CountIdle
<1>. QED BY <1>2, <1>6, <1>9

\* The counts hold initially.
LEMMA InitCounts == Init => Bounds /\ Counts(call, executions, calls, generated)
<1>. SUFFICES ASSUME Init PROVE Bounds /\ Counts(call, executions, calls, generated)
  OBVIOUS
<1>1. NoCall \in Call /\ NoCall.pc = "idle"
  BY NoValuesFits DEF NoCall, Call, Replies
<1>2. NoCheckpoint \in Checkpoint /\ NoCheckpoint.next = "none" /\ NoCheckpoint.vals = NoValues
  BY NoValuesFits DEF NoCheckpoint, Checkpoint
<1>3. /\ call = [c \in Calls |-> NoCall] /\ ckpt = NoCheckpoint /\ head = {} /\ generated = 0
      /\ calls = 0 /\ faults = 0 /\ executions = [s \in Statements |-> 0]
  BY DEF Init
<1>4. call \in [Calls -> Call] /\ \A c \in Calls : call[c].pc = "idle"
  BY <1>1, <1>3
<1>5. Bounds
  BY <1>2, <1>3, <1>4, NoValuesFits, WorkflowAssumption DEF Bounds, AtWork
<1>6. 0 <= 0 * (MaxRepairs + 1)
  BY Scale
<1>7. Counts(call, executions, calls, generated)
  BY <1>3, <1>4, <1>6, CountIdle
<1>. QED BY <1>5, <1>7

\* Every step keeps the counts.
LEMMA NextCounts == ASSUME CountInv, [Next]_vars PROVE CountInv'
<1>1. RunInv'
  BY NextRunInv, HasRoom DEF CountInv
<1>2. ASSUME NEW c \in Calls, GraphStep(c)
      PROVE  (Bounds /\ Counts(call, executions, calls, generated))'
  BY <1>2, InvokeCounts, InvokeResumeCounts, ClassifyCounts, RetrieveMetricsCounts, SelectSchemaCounts,
     GenerateSqlCounts, GuardSqlCounts, AskCounts, InterruptCounts, DecideCounts, ExecuteSqlCounts,
     VerifyCounts, ComposeCounts DEF GraphStep
<1>3. ASSUME NEW c \in Calls, Start(c) \/ NodeFails(c) \/ \E d \in Decisions : Resume(c, d)
      PROVE  (Bounds /\ Counts(call, executions, calls, generated))'
  BY <1>3, StartCounts, NodeFailsCounts, ResumeCounts
<1>4. ASSUME UNCHANGED vars PROVE (Bounds /\ Counts(call, executions, calls, generated))'
  <2>1. UNCHANGED <<ckpt, call, head, generated, executions, calls, faults>>
    BY <1>4 DEF vars, history
  <2>2. Bounds'
    BY <2>1 DEF CountInv, Bounds, AtWork
  <2>3. Counts(call', executions', calls', generated')
    BY <2>1 DEF CountInv
  <2>. QED BY <2>2, <2>3
<1>. QED BY <1>1, <1>2, <1>3, <1>4, CrashCounts DEF Next, CountInv

\* The invariant holds throughout.
LEMMA CountInductive == Spec => []CountInv
<1>1. Init => CountInv
  BY InitRunInv, InitCounts DEF CountInv
<1>2. CountInv /\ [Next]_vars => CountInv'
  BY NextCounts
<1>. QED BY <1>1, <1>2, PTL DEF Spec

----------------------------------------------------------------------------
(* The theorems *)

\* For every number of requests, repairs and faults: a graph that reached END has a final
\* status, and a COMPLETED answer to a data question is about the last statement generated,
\* whose columns verify found to be the expected ones.
THEOREM EndsFinal == Spec => []EndIsFinal
<1>1. CountInv => EndIsFinal
  BY DEF CountInv, RunInv, AllSound, Sound, Answered, EndIsFinal
<1> QED
  BY <1>1, CountInductive, PTL

\* Requests that do not overlap execute every statement at most once, whatever fails or
\* crashes between the execution and its checkpoint, and approve only what a resume found
\* waiting.
THEOREM ExecutesOnce == Spec => []SerialCallsExecuteOnce
<1>1. CountInv => SerialCallsExecuteOnce
  BY DEF CountInv, RunInv, Serial, Once, SerialCallsExecuteOnce
<1> QED
  BY <1>1, CountInductive, PTL

\* Requests that do not overlap take a run neither out of a final state nor out of its
\* pause without a decision: what JobExecution assumes of its run variable.
THEOREM RunsMoveForward == Spec => RunMovesForward
<1>1. CountInv /\ [Next]_vars => [Moves]_vars
  BY NextRunInv, HasRoom DEF CountInv
<1> QED
  BY <1>1, CountInductive, PTL DEF Spec, RunMovesForward, Moves

\* For every number of requests, repairs and faults, and however requests overlap: no
\* statement is executed more often than requests arrived, no run uses more attempts than
\* the repairs allow, and the state of the run, of its requests and of its checkpoint keep
\* their types.
THEOREM RunIsWellFormed == Spec => []TypeOK
<1>1. CountInv => TypeOK
  <2>. SUFFICES ASSUME CountInv PROVE TypeOK
    OBVIOUS
  <2>1. \A s \in Statements : executions[s] \in 0..MaxCalls
    BY ExecutedAtMost, BoundsOf, WorkflowAssumption
  <2>2. executions \in [Statements -> 0..MaxCalls]
    BY <2>1, BoundsOf
  <2>. QED BY <2>2, BoundsOf DEF CountInv, RunInv, Inv, Shapes, Bounds, Checkpoint, TypeOK
<1>. QED BY <1>1, CountInductive, PTL
=============================================================================
