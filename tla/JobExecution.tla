---------------------------- MODULE JobExecution ----------------------------
(***************************************************************************)
(* How an accepted analysis job is executed: the platform's dispatcher     *)
(* (bounded pool, recovery at start-up), its workers (Redis lease, three   *)
(* short transactions around a retried call of the agent service), the     *)
(* approval transactions, and the agent service as the platform sees it    *)
(* (one durable run per job, advanced by HTTP invocations that outlive the *)
(* client that made them).                                                 *)
(*                                                                         *)
(* Every database transaction that reads a job and later writes it is two  *)
(* steps: the read remembers status and @Version, the write is refused     *)
(* when the version has moved.                                             *)
(***************************************************************************)
EXTENDS JobStateMachine, Naturals, Sequences, FiniteSets

CONSTANTS
  Jobs,           \* jobs that clients may submit
  Risky,          \* those whose SQL the guard may send to an approval
  Workers,        \* threads of the pool: max-pool-size of them
  CoreSize,       \* core-pool-size
  QueueCapacity,  \* queue-capacity
  MaxAttempts,    \* max-attempts of one dispatch
  Invocations,    \* bound: graph invocations alive at once in the agent service
  FaultKinds,     \* the faults that may happen
  MaxFaults,      \* bound: how many faults happen
  None            \* no owner, no client, no value

AllFaults == {"crash", "agentCrash", "timeout", "redis", "expiry", "node",
              "callback", "dataSource"}

ASSUME Assumption ==
  /\ CoreSize \in Nat \ {0}
  /\ QueueCapacity \in Nat \ {0}
  /\ MaxAttempts \in Nat \ {0}
  /\ MaxFaults \in Nat
  /\ FaultKinds \subseteq AllFaults
  /\ Risky \subseteq Jobs
  /\ Workers \cap Jobs = {}
  /\ None \notin Workers \cup Jobs \cup {"orphan"}
  /\ "orphan" \notin Workers
  /\ IsFiniteSet(Workers)

VARIABLES
  status,    \* PostgreSQL: analysis_jobs.status, "NONE" before the insert
  version,   \* PostgreSQL: analysis_jobs.version (@Version)
  approval,  \* PostgreSQL: approvals.status of the job's only approval
  lease,     \* Redis: owner of analysis:dispatch:<job>
  phase,     \* the platform process
  queue,     \* its executor queue
  recovery,  \* jobs the start-up recovery still has to enqueue
  worker,    \* its pool threads
  decider,   \* the transaction that holds the job's approval row, if any
  run,       \* agent service: the checkpointed run of the job
  inv,       \* agent service: live graph invocations
  executed,  \* jobs whose SQL went to the business database after an approval
  faults     \* faults so far

dbVars       == <<status, version, approval>>
platformVars == <<phase, queue, recovery>>
agentVars    == <<run, inv, executed>>
vars == <<dbVars, lease, platformVars, worker, decider, agentVars, faults>>

ApprovalStatus == {"NONE", "PENDING", "APPROVED", "REJECTED"}
Decisions      == {"APPROVED", "REJECTED"}
\* What the agent service can answer (WorkflowResult.status)
Results        == {"PLANNING", "WAITING_APPROVAL", "COMPLETED", "FAILED", "REJECTED"}
RunStates      == {"none", "running", "waiting", "COMPLETED", "FAILED", "REJECTED"}

\* A worker holds the lease (or believes it may go on) from prepare to release.
Holding == {"prepare", "preparing", "call", "wait", "result", "persisting",
            "fail", "failing", "release"}
WorkerPc == {"absent", "idle", "acquire"} \cup Holding

Worker == [pc: WorkerPc, job: Jobs \cup {None}, attempt: 0..MaxAttempts,
           st: Status \cup {"NONE"}, ver: Nat, res: Results \cup {"none"},
           lost: BOOLEAN]
Thread(pc, j) == [pc |-> pc, job |-> j, attempt |-> 0, st |-> "NONE", ver |-> 0,
                  res |-> "none", lost |-> FALSE]
Resting(pc) == Thread(pc, None)

Decider == [pc: {"idle", "call", "wait", "commit"}, decision: Decisions \cup {"none"},
            st: Status \cup {"NONE"}, ver: Nat, res: Results \cup {"none"}]
NoDecider == [pc |-> "idle", decision |-> "none", st |-> "NONE", ver |-> 0,
              res |-> "none"]

\* "new": the handler found no checkpoint and is about to invoke the graph;
\* "graph": nodes of a run that has had no decision; "asked": the approval request
\* is committed, interrupt() comes next; "reask": resumed, request_approval runs
\* again from its first line; "approved": the decision is checkpointed and the
\* nodes after it run.
InvPhase == {"free", "new", "graph", "asked", "reask", "approved"}
Invocation == [ph: InvPhase, job: Jobs \cup {None}, client: Workers \cup Jobs \cup {None},
               decision: Decisions \cup {"none"}]
NoInvocation == [ph |-> "free", job |-> None, client |-> None, decision |-> "none"]

TypeOK ==
  /\ status \in [Jobs -> Status \cup {"NONE"}]
  /\ version \in [Jobs -> Nat]
  /\ approval \in [Jobs -> ApprovalStatus]
  /\ lease \in [Jobs -> Workers \cup {None, "orphan"}]
  /\ phase \in {"down", "starting", "recovering", "ready"}
  /\ queue \in Seq(Jobs)
  /\ recovery \subseteq Jobs
  /\ worker \in [Workers -> Worker]
  /\ decider \in [Jobs -> Decider]
  /\ run \in [Jobs -> RunStates]
  /\ inv \in [Invocations -> Invocation]
  /\ executed \subseteq Jobs
  /\ faults \in Nat

Init ==
  /\ status = [j \in Jobs |-> "NONE"]
  /\ version = [j \in Jobs |-> 0]
  /\ approval = [j \in Jobs |-> "NONE"]
  /\ lease = [j \in Jobs |-> None]
  /\ phase = "starting"
  /\ queue = <<>>
  /\ recovery = {}
  /\ worker = [w \in Workers |-> Resting("absent")]
  /\ decider = [j \in Jobs |-> NoDecider]
  /\ run = [j \in Jobs |-> "none"]
  /\ inv = [i \in Invocations |-> NoInvocation]
  /\ executed = {}
  /\ faults = 0

Fault(kind) == kind \in FaultKinds /\ faults < MaxFaults /\ faults' = faults + 1

Up == phase # "down"
Dead(j) == status[j] \in Terminal \cup {"NONE"}

----------------------------------------------------------------------------
(* Submission and the bounded pool *)

Live == {w \in Workers : worker[w].pc # "absent"}

\* ThreadPoolExecutor.execute: below the core size a new thread, otherwise the
\* queue, a further thread only when the queue is full, otherwise AbortPolicy.
Spawn(j) ==
  /\ Cardinality(Live) < CoreSize \/ Len(queue) = QueueCapacity
  /\ \E w \in Workers \ Live :
       worker' = [worker EXCEPT ![w] = Thread("acquire", j)]
  /\ UNCHANGED queue

Enqueue(j) ==
  /\ Cardinality(Live) >= CoreSize
  /\ Len(queue) < QueueCapacity
  /\ queue' = Append(queue, j)
  /\ UNCHANGED worker

Saturated == /\ Cardinality(Live) >= CoreSize
             /\ Len(queue) = QueueCapacity
             /\ Live = Workers

\* create() commits the row, then its AFTER_COMMIT listener enqueues.  When the
\* pool rejects the task, worker.reject runs inside that listener: its transaction
\* template joins the already committed transaction, so the FAILED status it sets
\* on the entity is never flushed and the row stays CREATED.
Create(j) ==
  /\ Up
  /\ status[j] = "NONE"
  /\ status' = [status EXCEPT ![j] = "CREATED"]
  /\ \/ Spawn(j)
     \/ Enqueue(j)
     \/ Saturated /\ UNCHANGED <<worker, queue>>
  /\ UNCHANGED <<version, approval, lease, phase, recovery, decider, agentVars, faults>>

\* A pool thread takes the next task.
Take(w) ==
  /\ worker[w].pc = "idle"
  /\ queue # <<>>
  /\ worker' = [worker EXCEPT ![w] = Thread("acquire", Head(queue))]
  /\ queue' = Tail(queue)
  /\ UNCHANGED <<dbVars, lease, phase, recovery, decider, agentVars, faults>>

\* Threads above the core size end after their keep-alive.
Retire(w) ==
  /\ worker[w].pc = "idle"
  /\ queue = <<>>
  /\ Cardinality(Live) > CoreSize
  /\ worker' = [worker EXCEPT ![w] = Resting("absent")]
  /\ UNCHANGED <<dbVars, lease, platformVars, decider, agentVars, faults>>

----------------------------------------------------------------------------
(* Crash, restart and recovery of the platform process *)

\* Open transactions roll back, leases stay in Redis with an owner nobody is,
\* invocations go on in the agent service without a client.
Crash ==
  /\ Up
  /\ Fault("crash")
  /\ phase' = "down"
  /\ queue' = <<>>
  /\ recovery' = {}
  /\ worker' = [w \in Workers |-> Resting("absent")]
  /\ decider' = [j \in Jobs |-> NoDecider]
  /\ lease' = [j \in Jobs |-> IF lease[j] = None THEN None ELSE "orphan"]
  /\ inv' = [i \in Invocations |-> [inv[i] EXCEPT !.client = None]]
  /\ UNCHANGED <<dbVars, run, executed>>

Restart ==
  /\ phase = "down"
  /\ phase' = "starting"
  /\ UNCHANGED <<dbVars, lease, queue, recovery, worker, decider, agentVars, faults>>

\* ApplicationReady: requests are already served when the list is read.
RecoverUnfinishedJobs ==
  /\ phase = "starting"
  /\ phase' = "recovering"
  /\ recovery' = {j \in Jobs : status[j] \in {"CREATED", "PLANNING"}}
  /\ UNCHANGED <<dbVars, lease, queue, worker, decider, agentVars, faults>>

\* Here a rejected task is failed in a transaction of its own.  If that transaction loses
\* a version race, its exception leaves the listener and ends the process with the rest
\* of the list: the Crash below, in this phase.
Recover(j) ==
  /\ phase = "recovering"
  /\ j \in recovery
  /\ recovery' = recovery \ {j}
  /\ \/ (Spawn(j) \/ Enqueue(j)) /\ UNCHANGED <<status, version>>
     \/ /\ Saturated
        /\ IF Dead(j) THEN UNCHANGED <<status, version>>
           ELSE /\ status' = [status EXCEPT ![j] = Transition(status[j], "FAILED")]
                /\ version' = [version EXCEPT ![j] = @ + 1]
        /\ UNCHANGED <<worker, queue>>
  /\ UNCHANGED <<approval, lease, phase, decider, agentVars, faults>>

RecoveryDone ==
  /\ phase = "recovering"
  /\ recovery = {}
  /\ phase' = "ready"
  /\ UNCHANGED <<dbVars, lease, queue, recovery, worker, decider, agentVars, faults>>

----------------------------------------------------------------------------
(* The dispatch lease *)

\* Mutant: SET without NX.
MutAcquire(w) ==
  /\ worker[w].pc = "acquire"
  /\ lease' = [lease EXCEPT ![worker[w].job] = w]
  /\ worker' = [worker EXCEPT ![w].pc = "prepare"]
  /\ UNCHANGED <<dbVars, platformVars, decider, agentVars, faults>>

\* setIfAbsent; a Redis exception counts as acquired.
Acquire(w) ==
  LET j == worker[w].job IN
  /\ worker[w].pc = "acquire"
  /\ \/ /\ lease[j] = None
        /\ lease' = [lease EXCEPT ![j] = w]
        /\ worker' = [worker EXCEPT ![w].pc = "prepare"]
        /\ UNCHANGED faults
     \/ /\ lease[j] # None
        /\ worker' = [worker EXCEPT ![w] = Resting("idle")]
        /\ UNCHANGED <<lease, faults>>
     \/ /\ Fault("redis")
        /\ worker' = [worker EXCEPT ![w] = [@ EXCEPT !.pc = "prepare", !.lost = TRUE]]
        /\ UNCHANGED lease
  /\ UNCHANGED <<dbVars, platformVars, decider, agentVars>>

\* Mutant: DEL without comparing the owner.
MutAfterRelease(j, w) == None

\* RELEASE_SCRIPT: delete the key only when it still holds this owner.
AfterRelease(j, w) == IF lease[j] = w THEN None ELSE lease[j]

\* Mutant: the thread dies with its task and is not replaced.
MutRelease(w) ==
  /\ worker[w].pc = "release"
  /\ worker' = [worker EXCEPT ![w] = Resting("absent")]
  /\ lease' = [lease EXCEPT ![worker[w].job] = AfterRelease(worker[w].job, w)]
  /\ UNCHANGED <<dbVars, platformVars, decider, agentVars, faults>>

\* A failed release leaves the key to its TTL; its owner id is never used again.
Release(w) ==
  LET j == worker[w].job IN
  /\ worker[w].pc = "release"
  /\ worker' = [worker EXCEPT ![w] = Resting("idle")]
  /\ \/ /\ lease' = [lease EXCEPT ![j] = AfterRelease(j, w)]
        /\ UNCHANGED faults
     \/ /\ Fault("redis")
        /\ lease' = [lease EXCEPT ![j] = IF @ = w THEN "orphan" ELSE @]
  /\ UNCHANGED <<dbVars, platformVars, decider, agentVars>>

\* Timing: the agent's handler gets from its empty checkpoint read to its
\* invocation (two consecutive statements) within a lease duration of minutes.
HandlersPrompt(j) == \A i \in Invocations : inv[i].job = j => inv[i].ph # "new"

\* The TTL ends: always for a key nobody releases, and as a fault (a stalled
\* worker, a lost key) for one whose owner is still at work.
Expire(j) ==
  /\ lease[j] # None
  /\ lease' = [lease EXCEPT ![j] = None]
  /\ IF lease[j] = "orphan" THEN HandlersPrompt(j) /\ UNCHANGED <<worker, faults>>
     ELSE /\ Fault("expiry")
          /\ worker' = [worker EXCEPT ![lease[j]].lost = TRUE]
  /\ UNCHANGED <<dbVars, platformVars, decider, agentVars>>

----------------------------------------------------------------------------
(* The worker's transactions *)

Goto(w, pc) == worker' = [worker EXCEPT ![w].pc = pc]

\* findById: the status and version the rest of the transaction works on.
ReadJob(w, pc) ==
  worker' = [worker EXCEPT ![w] = [@ EXCEPT !.pc = pc, !.st = status[worker[w].job],
                                            !.ver = version[worker[w].job]]]

\* Mutant: no optimistic locking, the last writer wins.
MutCurrent(w) == TRUE

Current(w) == version[worker[w].job] = worker[w].ver

WriteJob(j, st) == /\ status' = [status EXCEPT ![j] = st]
                   /\ version' = [version EXCEPT ![j] = @ + 1]
                   /\ UNCHANGED approval

\* prepare: nothing to do, an unusable data source, a CREATED job that must be
\* written, or a job that goes to the agent as it is.
Prepare(w) ==
  LET s == status[worker[w].job] IN
  /\ worker[w].pc = "prepare"
  /\ \/ /\ Dead(worker[w].job) \/ s = "WAITING_APPROVAL"
        /\ Goto(w, "release") /\ UNCHANGED faults
     \/ /\ ~Dead(worker[w].job) /\ s # "WAITING_APPROVAL"
        /\ \/ Fault("dataSource") /\ Goto(w, "fail")
           \/ /\ UNCHANGED faults
              /\ IF s = "CREATED" THEN ReadJob(w, "preparing")
                 ELSE worker' = [worker EXCEPT ![w] = [@ EXCEPT !.pc = "call", !.attempt = 1]]
  /\ UNCHANGED <<dbVars, lease, platformVars, decider, agentVars>>

CommitPrepare(w) ==
  /\ worker[w].pc = "preparing"
  /\ \/ /\ Current(w)
        /\ WriteJob(worker[w].job, Transition(worker[w].st, "PLANNING"))
        /\ worker' = [worker EXCEPT ![w] = [@ EXCEPT !.pc = "call", !.attempt = 1]]
     \/ /\ ~Current(w)
        /\ Goto(w, "fail")
        /\ UNCHANGED dbVars
  /\ UNCHANGED <<lease, platformVars, decider, agentVars, faults>>

\* persistResult: a terminal job keeps what it has, a result the state machine
\* does not allow is an exception.
PersistResult(w) ==
  LET s == status[worker[w].job] IN
  /\ worker[w].pc = "result"
  /\ \/ s \in Terminal /\ Goto(w, "release")
     \/ /\ s \notin Terminal
        /\ IF Advance(s, worker[w].res) = Invalid THEN Goto(w, "fail")
           ELSE ReadJob(w, "persisting")
  /\ UNCHANGED <<dbVars, lease, platformVars, decider, agentVars, faults>>

\* A result equal to what the row holds leaves the entity clean: no UPDATE.
CommitResult(w) ==
  LET target == Advance(worker[w].st, worker[w].res) IN
  /\ worker[w].pc = "persisting"
  /\ \/ /\ Current(w)
        /\ WriteJob(worker[w].job, target)
        /\ Goto(w, "release")
     \/ /\ target = worker[w].st
        /\ Goto(w, "release") /\ UNCHANGED dbVars
     \/ /\ ~Current(w)
        /\ Goto(w, "fail") /\ UNCHANGED dbVars
  /\ UNCHANGED <<lease, platformVars, decider, agentVars, faults>>

\* Mutant: the exception is logged and the job forgotten.
MutFail(w) ==
  /\ worker[w].pc = "fail"
  /\ Goto(w, "release")
  /\ UNCHANGED <<dbVars, lease, platformVars, decider, agentVars, faults>>

\* fail: its own transaction; an exception in it is not caught again.
Fail(w) ==
  /\ worker[w].pc = "fail"
  /\ IF Dead(worker[w].job) THEN Goto(w, "release") ELSE ReadJob(w, "failing")
  /\ UNCHANGED <<dbVars, lease, platformVars, decider, agentVars, faults>>

CommitFail(w) ==
  /\ worker[w].pc = "failing"
  /\ Goto(w, "release")
  /\ IF Current(w) THEN WriteJob(worker[w].job, Transition(worker[w].st, "FAILED"))
     ELSE UNCHANGED dbVars
  /\ UNCHANGED <<lease, platformVars, decider, agentVars, faults>>

----------------------------------------------------------------------------
(* The worker's call of the agent service *)

\* callAgent: one attempt failed; try again or give up.
AttemptFailed(r) == IF r.attempt < MaxAttempts
                    THEN [r EXCEPT !.pc = "call", !.attempt = @ + 1]
                    ELSE [r EXCEPT !.pc = "fail"]

\* What start() or inspect() reads from the checkpoint of a run.  A run in
\* progress also looks FAILED while a repairable error code is in its state.
Inspect(j) == CASE run[j] = "waiting" -> {"WAITING_APPROVAL"}
                [] run[j] = "running" -> {"PLANNING", "FAILED"}
                [] OTHER              -> {run[j]}

\* POST /internal/v1/runs: lost on the way, answered from the checkpoint, or an
\* invocation because the handler found no checkpoint.
CallAgent(w) ==
  LET j == worker[w].job IN
  /\ worker[w].pc = "call"
  /\ \/ /\ Fault("timeout")
        /\ worker' = [worker EXCEPT ![w] = AttemptFailed(@)]
        /\ UNCHANGED inv
     \/ /\ run[j] # "none"
        /\ \E r \in Inspect(j) :
             worker' = [worker EXCEPT ![w] = [@ EXCEPT !.pc = "result", !.res = r]]
        /\ UNCHANGED <<inv, faults>>
     \/ /\ run[j] = "none"
        /\ \E i \in Invocations :
             /\ inv[i].ph = "free"
             /\ inv' = [inv EXCEPT ![i] = [ph |-> "new", job |-> j, client |-> w,
                                           decision |-> "none"]]
        /\ Goto(w, "wait")
        /\ UNCHANGED faults
  /\ UNCHANGED <<dbVars, lease, platformVars, decider, run, executed>>

\* The client's read timeout; the invocation does not notice.
GiveUp(i) ==
  LET c == inv[i].client IN
  /\ c # None
  /\ Fault("timeout")
  /\ inv' = [inv EXCEPT ![i].client = None]
  /\ worker' = IF c \in Workers THEN [worker EXCEPT ![c] = AttemptFailed(@)] ELSE worker
  /\ decider' = IF c \in Jobs THEN [decider EXCEPT ![c] = NoDecider] ELSE decider
  /\ UNCHANGED <<dbVars, lease, platformVars, run, executed>>

\* The agent process dies and comes back: every invocation is gone, the
\* checkpoints are not, waiting clients see a broken connection.
AgentCrash ==
  /\ Fault("agentCrash")
  /\ inv' = [i \in Invocations |-> NoInvocation]
  /\ worker' = [w \in Workers |-> IF worker[w].pc = "wait" THEN AttemptFailed(worker[w])
                                                            ELSE worker[w]]
  /\ decider' = [j \in Jobs |-> IF decider[j].pc = "wait" THEN NoDecider ELSE decider[j]]
  /\ UNCHANGED <<dbVars, lease, platformVars, run, executed>>

----------------------------------------------------------------------------
(* Graph invocations of the agent service *)

\* The HTTP answer of invocation i, for whoever still waits for it.
Reply(i, res) ==
  LET c == inv[i].client IN
  /\ worker' = IF c \in Workers
               THEN [worker EXCEPT ![c] = [@ EXCEPT !.pc = "result", !.res = res]] ELSE worker
  /\ decider' = IF c \in Jobs
                THEN [decider EXCEPT ![c] = [@ EXCEPT !.pc = "commit", !.res = res]] ELSE decider

\* An exception inside the graph: start() reports the recorded node error as a
\* FAILED result, resume() lets it become an HTTP error and decide() rolls back.
ReplyError(i) ==
  LET c == inv[i].client IN
  /\ worker' = IF c \in Workers
               THEN [worker EXCEPT ![c] = [@ EXCEPT !.pc = "result", !.res = "FAILED"]] ELSE worker
  /\ decider' = IF c \in Jobs THEN [decider EXCEPT ![c] = NoDecider] ELSE decider

Ends(i, state) == /\ run' = [run EXCEPT ![inv[i].job] = state]
                  /\ inv' = [inv EXCEPT ![i] = NoInvocation]

InGraph(i) == inv[i].ph \in {"graph", "approved"}

\* graph.invoke(initial_state): the first checkpoint of the run.
Begin(i) ==
  /\ inv[i].ph = "new"
  /\ run' = [run EXCEPT ![inv[i].job] = "running"]
  /\ inv' = [inv EXCEPT ![i].ph = "graph"]
  /\ UNCHANGED <<dbVars, lease, platformVars, worker, decider, executed, faults>>

\* The graph reaches END: an answer, an exhausted repair budget, or (only before
\* any SQL exists) a question the question guard blocks.
Finish(i) ==
  /\ InGraph(i)
  /\ Up
  /\ \E res \in {"COMPLETED", "FAILED", "REJECTED"} :
       /\ res = "REJECTED" => inv[i].ph = "graph"
       /\ Ends(i, res)
       /\ Reply(i, res)
  /\ UNCHANGED <<dbVars, lease, platformVars, executed, faults>>

\* Mutant: the state machine is not consulted.
MutRefused(j) == FALSE

\* ApprovalService.request in the transaction of the callback
Refused(j) == approval[j] = "NONE" /\ AdvanceToWaiting(status[j]) = Invalid

\* Mutant: the approval is saved, the job is not moved.
MutRequest(j) ==
  IF approval[j] # "NONE" THEN UNCHANGED dbVars
  ELSE /\ approval' = [approval EXCEPT ![j] = "PENDING"]
       /\ UNCHANGED <<status, version>>

Request(j) ==
  IF approval[j] # "NONE" THEN UNCHANGED dbVars
  ELSE /\ status' = [status EXCEPT ![j] = AdvanceToWaiting(status[j])]
       /\ version' = [version EXCEPT ![j] = @ + 1]
       /\ approval' = [approval EXCEPT ![j] = "PENDING"]

\* request_approval, first half: ensure_pending
Ask(i) ==
  /\ InGraph(i)
  /\ inv[i].job \in Risky
  /\ Up
  /\ ~Refused(inv[i].job)
  /\ Request(inv[i].job)
  /\ \/ /\ inv' = [inv EXCEPT ![i].ph = "asked"]
        /\ UNCHANGED <<run, worker, decider, faults>>
     \/ /\ Fault("callback")   \* committed, but the answer never arrives
        /\ Ends(i, "FAILED")
        /\ ReplyError(i)
  /\ UNCHANGED <<lease, platformVars, executed>>

\* request_approval, second half: the WAITING step is recorded, interrupt()
\* checkpoints the pause and the invocation answers.
Interrupt(i) ==
  /\ inv[i].ph = "asked"
  /\ Up
  /\ Ends(i, "waiting")
  /\ Reply(i, "WAITING_APPROVAL")
  /\ UNCHANGED <<dbVars, lease, platformVars, executed, faults>>

\* A node raises: a model, database or store error, a callback that is refused
\* or unanswered.  The error is checkpointed with the node.
NodeFails(i) ==
  /\ \/ InGraph(i) /\ Fault("node")
     \/ inv[i].ph = "asked" /\ Fault("callback")
     \/ /\ InGraph(i)
        /\ ~Up \/ (inv[i].job \in Risky /\ Refused(inv[i].job))
        /\ UNCHANGED faults
     \/ inv[i].ph = "asked" /\ ~Up /\ UNCHANGED faults
  /\ Ends(i, "FAILED")
  /\ ReplyError(i)
  /\ UNCHANGED <<dbVars, lease, platformVars, executed>>

\* request_approval after a resume: ensure_pending and both steps once more, then
\* the decision is checkpointed.  A rejection ends the graph; an approval goes on
\* to execute_sql.
Decided(i) ==
  /\ inv[i].ph = "reask"
  /\ Up
  /\ IF inv[i].decision = "REJECTED"
     THEN Ends(i, "REJECTED") /\ Reply(i, "REJECTED") /\ UNCHANGED executed
     ELSE /\ run' = [run EXCEPT ![inv[i].job] = "running"]
          /\ inv' = [inv EXCEPT ![i].ph = "approved"]
          /\ executed' = executed \cup {inv[i].job}
          /\ UNCHANGED <<worker, decider>>
  /\ UNCHANGED <<dbVars, lease, platformVars, faults>>

\* The repeated node fails before its decision is checkpointed: the interrupt
\* stays in the checkpoint, the run can be resumed again.
DecidedFails(i) ==
  /\ inv[i].ph = "reask"
  /\ \/ Fault("callback")
     \/ ~Up /\ UNCHANGED faults
  /\ inv' = [inv EXCEPT ![i] = NoInvocation]
  /\ ReplyError(i)
  /\ UNCHANGED <<dbVars, lease, platformVars, run, executed>>

----------------------------------------------------------------------------
(* ApprovalService.decide: one transaction around the remote resume *)

\* SELECT ... FOR UPDATE finds the approval PENDING; the job is read unlocked.
Decide(j, d) ==
  /\ Up
  /\ approval[j] = "PENDING"
  /\ decider[j].pc = "idle"
  /\ decider' = [decider EXCEPT ![j] = [pc |-> "call", decision |-> d, st |-> status[j],
                                         ver |-> version[j], res |-> "none"]]
  /\ UNCHANGED <<dbVars, lease, platformVars, worker, agentVars, faults>>

\* POST .../resume: lost, refused with 409 when nothing waits, or an invocation.
Resume(j) ==
  /\ decider[j].pc = "call"
  /\ \/ /\ Fault("timeout")
        /\ decider' = [decider EXCEPT ![j] = NoDecider]
        /\ UNCHANGED inv
     \/ /\ run[j] # "waiting"
        /\ decider' = [decider EXCEPT ![j] = NoDecider]
        /\ UNCHANGED <<inv, faults>>
     \/ /\ run[j] = "waiting"
        /\ \E i \in Invocations :
             /\ inv[i].ph = "free"
             /\ inv' = [inv EXCEPT ![i] = [ph |-> "reask", job |-> j, client |-> j,
                                           decision |-> decider[j].decision]]
        /\ decider' = [decider EXCEPT ![j].pc = "wait"]
        /\ UNCHANGED faults
  /\ UNCHANGED <<dbVars, lease, platformVars, worker, run, executed>>

\* The rest of the transaction; an illegal transition or a moved version rolls
\* the approval and the job back, not the resumed run.
CommitDecision(j) ==
  LET d == decider[j]
      target == AfterDecision(d.st, d.decision, d.res) IN
  /\ d.pc = "commit"
  /\ decider' = [decider EXCEPT ![j] = NoDecider]
  /\ IF target # Invalid /\ version[j] = d.ver
     THEN /\ status' = [status EXCEPT ![j] = target]
          /\ version' = [version EXCEPT ![j] = @ + 1]
          /\ approval' = [approval EXCEPT ![j] = d.decision]
     ELSE UNCHANGED dbVars
  /\ UNCHANGED <<lease, platformVars, worker, agentVars, faults>>

----------------------------------------------------------------------------
WorkerStep(w) ==
  \/ Take(w) \/ Acquire(w) \/ Release(w) \/ Prepare(w) \/ CommitPrepare(w)
  \/ CallAgent(w) \/ PersistResult(w) \/ CommitResult(w) \/ Fail(w) \/ CommitFail(w)

InvocationStep(i) ==
  \/ Begin(i) \/ Finish(i) \/ Ask(i) \/ Interrupt(i) \/ NodeFails(i)
  \/ Decided(i) \/ DecidedFails(i)

DeciderStep(j) == Resume(j) \/ CommitDecision(j)

RecoveryStep ==
  \/ Restart \/ RecoverUnfinishedJobs \/ RecoveryDone
  \/ \E j \in Jobs : Recover(j)

Next ==
  \/ \E j \in Jobs : \/ Create(j) \/ Expire(j) \/ DeciderStep(j)
                     \/ \E d \in Decisions : Decide(j, d)
  \/ \E w \in Workers : WorkerStep(w) \/ Retire(w)
  \/ \E i \in Invocations : InvocationStep(i) \/ GiveUp(i)
  \/ RecoveryStep
  \/ Crash
  \/ AgentCrash

Spec == Init /\ [][Next]_vars

\* Threads of a live process are scheduled, a restarted container runs its
\* start-up listeners, Redis drops a key at the end of its TTL, and a graph
\* invocation is a finite computation with bounded retries.  Submitting and
\* deciding are up to people, faults need never happen.
Fairness ==
  /\ \A w \in Workers : WF_vars(WorkerStep(w))
  /\ \A i \in Invocations : WF_vars(InvocationStep(i))
  /\ \A j \in Jobs : WF_vars(DeciderStep(j)) /\ WF_vars(Expire(j))
  /\ WF_vars(RecoveryStep)

FairSpec == Spec /\ Fairness

----------------------------------------------------------------------------
(* Correctness *)

\* The job table behaves like JobLifecycle whatever faults happen: no late
\* worker, retry, recovery or decision moves a job backwards or out of a
\* terminal status (transitionTo, @Version, the isTerminal checks).
Lifecycle == INSTANCE JobLifecycle
ImplementsLifecycle == Lifecycle!Spec

\* The approval row and the job row, written by different services, never
\* contradict each other: the job of a decided approval is where that decision
\* leads, a job that waits has an undecided approval, and only an approved job
\* is RUNNING (ApprovalService.request and decide, persistResult, fail).
ApprovalMatchesJob ==
  \A j \in Jobs :
    /\ approval[j] = "APPROVED" => status[j] \in {"RUNNING", "COMPLETED", "FAILED"}
    /\ approval[j] = "REJECTED" => status[j] = "REJECTED"
    /\ status[j] = "WAITING_APPROVAL" => approval[j] = "PENDING"
    /\ status[j] = "RUNNING" => approval[j] = "APPROVED"
    /\ status[j] \in {"NONE", "CREATED", "PLANNING"} => approval[j] = "NONE"

\* A worker that has not lost its lease to the TTL or to a Redis error is the
\* registered owner of its job until it releases it: no other worker's release
\* takes the key away (the compare-and-delete of RELEASE_SCRIPT).
HolderKeepsLease ==
  \A w \in Workers :
    worker[w].pc \in Holding /\ ~worker[w].lost => lease[worker[w].job] = w

\* A run is started once: a handler that found no checkpoint is the only one,
\* and the run still does not exist when it invokes the graph
\* (AgentWorkflowService.start reads and invokes in two steps; only the dispatch
\* lease keeps two workers apart).
RunStartedOnce ==
  \A i \in Invocations : inv[i].ph = "new" =>
    /\ run[inv[i].job] = "none"
    /\ \A k \in Invocations \ {i} : inv[k].job = inv[i].job => inv[k].ph # "new"

\* A job whose recorded decision is REJECTED had no SQL executed.
RejectedNeverExecuted == \A j \in executed : approval[j] # "REJECTED"

\* The workers keep at it: a job that is accepted or being planned reaches a
\* terminal status or waits for an administrator.
Settles ==
  \A j \in Jobs : status[j] \in {"CREATED", "PLANNING"}
                   ~> status[j] \in Terminal \cup {"WAITING_APPROVAL", "RUNNING"}

\* A task the pool accepted is worked off, however full the pool gets.
AtPool(j) == \/ \E n \in DOMAIN queue : queue[n] = j
             \/ \E w \in Workers : worker[w].job = j

ScheduledSettles ==
  \A j \in Jobs : status[j] \in {"CREATED", "PLANNING"} /\ AtPool(j)
                   ~> status[j] \in Terminal \cup {"WAITING_APPROVAL", "RUNNING"}

\* A decision that reached its run, on a waiting job that neither a worker nor the
\* start-up recovery is about to write, is recorded: decide() commits, whatever the
\* resumed graph does.
UncontestedDecisionLands ==
  \A j \in Jobs :
    /\ decider[j].pc = "wait" /\ decider[j].st = "WAITING_APPROVAL"
    /\ decider[j].ver = version[j]
    /\ j \notin recovery
    /\ \A w \in Workers : \/ worker[w].job # j
                          \/ worker[w].pc \in {"acquire", "prepare", "release"}
    ~> approval[j] \in Decisions
=============================================================================
