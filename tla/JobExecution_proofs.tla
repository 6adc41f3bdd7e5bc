------------------------ MODULE JobExecution_proofs ------------------------
(***************************************************************************)
(* Proofs about JobExecution for every number of jobs, threads, attempts,  *)
(* invocations and faults: its types, and the dispatch lease.              *)
(*                                                                         *)
(* Neither is inductive alone.  A result may only be delivered to a thread *)
(* that waits for it (Clients), a thread that writes a job has read a      *)
(* status the state machine lets it leave (Legal), and everything that is  *)
(* busy is busy with a job.                                                *)
(***************************************************************************)
EXTENDS JobExecution, TLAPS

\* Positions of a thread in which it has not read a job it is going to write.
Plain == Holding \ {"preparing", "persisting", "failing"}

Legal(r) ==
  /\ r.pc \notin {"absent", "idle"} => r.job \in Jobs
  /\ r.pc = "preparing" => r.st = "CREATED"
  /\ r.pc = "persisting" => Advance(r.st, r.res) # Invalid
  /\ r.pc = "failing" => r.st \notin Terminal \cup {"NONE"}

Rows == /\ status \in [Jobs -> Status \cup {"NONE"}]
        /\ version \in [Jobs -> Nat]
        /\ approval \in [Jobs -> ApprovalStatus]

Leases == lease \in [Jobs -> Workers \cup {None, "orphan"}]

Pool == /\ phase \in {"down", "starting", "recovering", "ready"}
        /\ queue \in Seq(Jobs)
        /\ recovery \subseteq Jobs

Threads == /\ worker \in [Workers -> Worker]
           /\ \A w \in Workers : Legal(worker[w])

\* A transaction that is under way has a decision to record.
Active(d) == d \in Decider /\ (d.pc # "idle" => d.decision \in Decisions)

Deciders == decider \in [Jobs -> Decider] /\ \A j \in Jobs : Active(decider[j])

Runs == /\ run \in [Jobs -> RunStates]
        /\ executed \subseteq Jobs
        /\ inv \in [Invocations -> Invocation]
        /\ \A i \in Invocations : inv[i].ph # "free" => inv[i].job \in Jobs

\* The client of an invocation is a thread or a decision that waits for it, and
\* for no other invocation.
Clients ==
  /\ \A i \in Invocations : inv[i].client \in Workers => worker[inv[i].client].pc = "wait"
  /\ \A i \in Invocations : inv[i].client \in Jobs => decider[inv[i].client].pc = "wait"
  /\ \A i, k \in Invocations : inv[i].client = inv[k].client /\ i # k => inv[i].client = None

IndInv == /\ Rows /\ Leases /\ Pool /\ Threads /\ Deciders /\ Runs
          /\ faults \in Nat
          /\ Clients
          /\ HolderKeepsLease

----------------------------------------------------------------------------
(* What a step does to the record of one thread *)

\* Thread record s continues the dispatch of r: same job, same lease.
Onward(r, s) == /\ s \in Worker /\ Legal(s) /\ s.pc \in Holding
                /\ s.job = r.job /\ s.lost = r.lost

Moves(w) == \E r \in Worker : Onward(worker[w], r) /\ worker' = [worker EXCEPT ![w] = r]

\* Moving to a position that writes nothing continues the dispatch.
LEMMA OnwardPc ==
  ASSUME NEW r \in Worker, r.job \in Jobs, NEW p \in Plain
  PROVE  Onward(r, [r EXCEPT !.pc = p])
BY DEF Onward, Worker, WorkerPc, Legal, Plain

\* Reading the job row (findById) continues the dispatch, when the status read is
\* one the transaction may go on with.
LEMMA OnwardRead ==
  ASSUME NEW r \in Worker, r.job \in Jobs, NEW p \in Holding,
         NEW s \in Status \cup {"NONE"}, NEW v \in Nat,
         p = "preparing" => s = "CREATED",
         p = "persisting" => Advance(s, r.res) # Invalid,
         p = "failing" => s \notin Terminal \cup {"NONE"}
  PROVE  Onward(r, [r EXCEPT !.pc = p, !.st = s, !.ver = v])
BY DEF Onward, Worker, WorkerPc, Legal

\* So does starting an attempt within the bound,
LEMMA OnwardAttempt ==
  ASSUME NEW r \in Worker, r.job \in Jobs, NEW p \in Plain, NEW n \in 0..MaxAttempts
  PROVE  Onward(r, [r EXCEPT !.pc = p, !.attempt = n])
BY DEF Onward, Worker, WorkerPc, Legal, Plain

\* and receiving an answer of the agent.
LEMMA OnwardResult ==
  ASSUME NEW r \in Worker, r.job \in Jobs, NEW p \in Plain, NEW x \in Results
  PROVE  Onward(r, [r EXCEPT !.pc = p, !.res = x])
BY DEF Onward, Worker, WorkerPc, Legal, Plain

\* callAgent's retry loop never counts past max-attempts.
LEMMA OnwardFailedAttempt ==
  ASSUME NEW r \in Worker, r.job \in Jobs
  PROVE  Onward(r, AttemptFailed(r))
<1>1. CASE r.attempt < MaxAttempts
  <2>1. r.attempt + 1 \in 0..MaxAttempts
    BY <1>1, Assumption DEF Worker
  <2> QED
    BY <1>1, <2>1, OnwardAttempt DEF AttemptFailed, Holding, Plain
<1>2. CASE ~(r.attempt < MaxAttempts)
  BY <1>2, OnwardPc DEF AttemptFailed, Holding, Plain
<1> QED
  BY <1>1, <1>2

\* A thread that starts a task, and one that has none, are legal.
LEMMA ThreadLegal ==
  /\ \A j \in Jobs : Thread("acquire", j) \in Worker /\ Legal(Thread("acquire", j))
  /\ \A p \in {"absent", "idle"} : Resting(p) \in Worker /\ Legal(Resting(p))
BY Assumption DEF Thread, Resting, Worker, WorkerPc, Holding, Legal

\* One record update that continues the dispatch is a move of its thread.
LEMMA RecordMoves ==
  ASSUME NEW w \in Workers, NEW r, Onward(worker[w], r),
         worker' = [worker EXCEPT ![w] = r]
  PROVE  Moves(w)
BY DEF Moves, Onward

\* The updates the worker's actions are made of are moves: a change of position,
LEMMA GotoMoves ==
  ASSUME Threads, NEW w \in Workers, worker[w].job \in Jobs, NEW p \in Plain, Goto(w, p)
  PROVE  Moves(w)
<1> DEFINE r == [worker[w] EXCEPT !.pc = p]
<1>1. Onward(worker[w], r)
  BY OnwardPc DEF Threads
<1>2. worker' = [worker EXCEPT ![w] = r]
  BY DEF Goto
<1> HIDE DEF r
<1> QED
  BY <1>1, <1>2, RecordMoves

\* a read of the job row,
LEMMA ReadMoves ==
  ASSUME Threads, Rows, NEW w \in Workers, worker[w].job \in Jobs, NEW p \in Holding,
         ReadJob(w, p),
         p = "preparing" => status[worker[w].job] = "CREATED",
         p = "persisting" => Advance(status[worker[w].job], worker[w].res) # Invalid,
         p = "failing" => status[worker[w].job] \notin Terminal \cup {"NONE"}
  PROVE  Moves(w)
<1> DEFINE r == [worker[w] EXCEPT !.pc = p, !.st = status[worker[w].job],
                                  !.ver = version[worker[w].job]]
<1>1. /\ status[worker[w].job] \in Status \cup {"NONE"}
      /\ version[worker[w].job] \in Nat
      /\ worker[w] \in Worker
  BY DEF Rows, Threads
<1>2. Onward(worker[w], r)
  BY <1>1, OnwardRead
<1>3. worker' = [worker EXCEPT ![w] = r]
  BY DEF ReadJob
<1> HIDE DEF r
<1> QED
  BY <1>2, <1>3, RecordMoves

\* the first attempt of callAgent,
LEMMA FirstAttemptMoves ==
  ASSUME Threads, NEW w \in Workers, worker[w].job \in Jobs,
         worker' = [worker EXCEPT ![w] = [@ EXCEPT !.pc = "call", !.attempt = 1]]
  PROVE  Moves(w)
<1> DEFINE r == [worker[w] EXCEPT !.pc = "call", !.attempt = 1]
<1>0. worker[w] \in Worker /\ 1 \in 0..MaxAttempts /\ "call" \in Plain
  BY Assumption DEF Threads, Plain, Holding
<1>1. Onward(worker[w], r)
  BY <1>0, OnwardAttempt
<1>2. worker' = [worker EXCEPT ![w] = r]
  OBVIOUS
<1> HIDE DEF r
<1> QED
  BY <1>1, <1>2, RecordMoves

\* an answer,
LEMMA ResultMoves ==
  ASSUME Threads, NEW w \in Workers, worker[w].job \in Jobs, NEW x \in Results,
         worker' = [worker EXCEPT ![w] = [@ EXCEPT !.pc = "result", !.res = x]]
  PROVE  Moves(w)
<1> DEFINE r == [worker[w] EXCEPT !.pc = "result", !.res = x]
<1>1. Onward(worker[w], r)
  BY OnwardResult DEF Threads, Plain, Holding
<1>2. worker' = [worker EXCEPT ![w] = r]
  OBVIOUS
<1> HIDE DEF r
<1> QED
  BY <1>1, <1>2, RecordMoves

\* and an attempt that failed.
LEMMA FailedAttemptMoves ==
  ASSUME Threads, NEW w \in Workers, worker[w].job \in Jobs,
         worker' = [worker EXCEPT ![w] = AttemptFailed(@)]
  PROVE  Moves(w)
<1> DEFINE r == AttemptFailed(worker[w])
<1>1. Onward(worker[w], r)
  BY OnwardFailedAttempt DEF Threads, Plain, Holding
<1>2. worker' = [worker EXCEPT ![w] = r]
  OBVIOUS
<1> HIDE DEF r
<1> QED
  BY <1>1, <1>2, RecordMoves

\* Every step a worker takes between acquiring and releasing its lease.
Dispatch(w) == \/ Prepare(w) \/ CommitPrepare(w) \/ CallAgent(w) \/ PersistResult(w)
               \/ CommitResult(w) \/ Fail(w) \/ CommitFail(w)

\* Between prepare and release every step of a worker is such a move, and no
\* step is taken while the worker waits for an answer.
LEMMA DispatchMoves ==
  ASSUME Threads, Rows, Runs, NEW w \in Workers, Dispatch(w)
  PROVE  Moves(w) /\ worker[w].pc \in Holding /\ worker[w].pc # "wait"
<1>1. worker[w].pc \in Holding /\ worker[w].pc # "wait"
  BY DEF Dispatch, Prepare, CommitPrepare, CallAgent, PersistResult, CommitResult, Fail,
         CommitFail, Holding
<1>2. worker[w].job \in Jobs /\ worker[w] \in Worker
  BY <1>1 DEF Threads, Legal, Holding
<1>5. CASE Prepare(w)
  BY <1>2, <1>5, GotoMoves, ReadMoves, FirstAttemptMoves DEF Prepare, Holding, Plain
<1>6. CASE CommitPrepare(w)
  BY <1>2, <1>6, GotoMoves, FirstAttemptMoves DEF CommitPrepare, Holding, Plain
<1>7. CASE CallAgent(w)
  <2>3. run[worker[w].job] # "none" => Inspect(worker[w].job) \subseteq Results
    BY <1>2 DEF Runs, Inspect, RunStates, Results
  <2> QED
    BY <1>2, <1>7, <2>3, GotoMoves, ResultMoves, FailedAttemptMoves DEF CallAgent, Holding, Plain
<1>8. CASE PersistResult(w)
  BY <1>2, <1>8, GotoMoves, ReadMoves DEF PersistResult, Holding, Plain
<1>9. CASE CommitResult(w)
  BY <1>2, <1>9, GotoMoves DEF CommitResult, Holding, Plain
<1>10. CASE Fail(w)
  BY <1>2, <1>10, GotoMoves, ReadMoves DEF Fail, Dead, Holding, Plain
<1>11. CASE CommitFail(w)
  BY <1>2, <1>11, GotoMoves DEF CommitFail, Holding, Plain
<1> QED
  BY <1>1, <1>5, <1>6, <1>7, <1>8, <1>9, <1>10, <1>11 DEF Dispatch

\* A thread that goes on keeps its job and its lease.
LEMMA MovesKeeps ==
  ASSUME Threads, Leases, HolderKeepsLease, NEW w \in Workers, Moves(w),
         worker[w].pc \in Holding, UNCHANGED lease
  PROVE  Threads' /\ HolderKeepsLease'
BY DEF Threads, Moves, Onward, HolderKeepsLease

\* A thread whose task is over keeps the pool well typed.
LEMMA RestsKeeps ==
  ASSUME Threads, NEW w \in Workers, NEW p \in {"absent", "idle"},
         worker' = [worker EXCEPT ![w] = Resting(p)]
  PROVE  Threads'
BY ThreadLegal DEF Threads

\* The step that delivers an answer, a failure or nothing to a waiting client.
LEMMA AnswerMoves ==
  ASSUME Threads, Runs, Clients, NEW i \in Invocations, inv[i].client \in Workers,
         NEW x \in Results,
         \/ worker' = [worker EXCEPT ![inv[i].client] = [@ EXCEPT !.pc = "result", !.res = x]]
         \/ worker' = [worker EXCEPT ![inv[i].client] = AttemptFailed(@)]
  PROVE  Moves(inv[i].client) /\ worker[inv[i].client].pc \in Holding
<1> DEFINE c == inv[i].client
<1>1. c \in Workers /\ worker[c].pc = "wait"
  BY DEF Clients
<1> HIDE DEF c
<1>2. worker[c] \in Worker /\ worker[c].job \in Jobs
  BY <1>1 DEF Threads, Legal
<1>3. Moves(c)
  BY <1>1, <1>2, ResultMoves, FailedAttemptMoves DEF c
<1> QED
  BY <1>1, <1>3 DEF Holding, c

----------------------------------------------------------------------------
(* The pool *)

\* A thread that takes a task does not hold its lease yet.
LEMMA StartKeeps ==
  ASSUME Threads, Leases, HolderKeepsLease, NEW w \in Workers, NEW j \in Jobs,
         worker' = [worker EXCEPT ![w] = Thread("acquire", j)], UNCHANGED lease
  PROVE  Threads' /\ HolderKeepsLease'
<1>1. Threads'
  BY ThreadLegal DEF Threads
<1>2. Thread("acquire", j).pc \notin Holding
  BY DEF Thread, Holding
<1> QED
  BY <1>1, <1>2 DEF Threads, HolderKeepsLease

\* No invocation has a thread as its client that is not waiting for it.
LEMMA OthersClients ==
  ASSUME Threads, Clients, NEW w \in Workers, worker[w].pc # "wait", NEW r,
         worker' = [worker EXCEPT ![w] = r], UNCHANGED <<decider, inv>>
  PROVE  Clients'
BY DEF Threads, Clients

\* A new pool thread disturbs neither leases nor clients.
LEMMA SpawnKeeps ==
  ASSUME Threads, Leases, HolderKeepsLease, Clients, NEW j \in Jobs, Spawn(j),
         UNCHANGED <<lease, decider, inv>>
  PROVE  Threads' /\ HolderKeepsLease' /\ Clients'
<1>1. PICK w \in Workers \ Live : worker' = [worker EXCEPT ![w] = Thread("acquire", j)]
  BY DEF Spawn
<1>2. w \in Workers /\ worker[w].pc # "wait"
  BY DEF Live
<1> QED
  BY <1>1, <1>2, StartKeeps, OthersClients

\* create() and the AFTER_COMMIT enqueue preserve the invariant.
LEMMA CreateInv == ASSUME IndInv, NEW j \in Jobs, Create(j) PROVE IndInv'
<1>1. UNCHANGED <<version, approval, lease, phase, recovery, decider, run, inv, executed, faults>>
  BY DEF Create, agentVars
<1>2. Rows'
  BY <1>1 DEF IndInv, Create, Rows, Status
<1>3. Threads' /\ HolderKeepsLease' /\ Clients'
  BY <1>1, SpawnKeeps DEF IndInv, Create, Enqueue, Threads, HolderKeepsLease, Clients
<1>4. Pool'
  BY <1>1 DEF IndInv, Create, Spawn, Enqueue, Pool
<1> QED
  BY <1>1, <1>2, <1>3, <1>4 DEF IndInv, Leases, Deciders, Runs

\* So does one step of recoverUnfinishedJobs, the rejected task included.
LEMMA RecoverInv == ASSUME IndInv, NEW j \in Jobs, Recover(j) PROVE IndInv'
<1>1. UNCHANGED <<approval, lease, phase, decider, run, inv, executed, faults>>
  BY DEF Recover, agentVars
<1>2. Rows'
  BY <1>1 DEF IndInv, Recover, Rows, Status, Terminal, Dead, Transition, CanTransition,
              Allowed, Invalid
<1>3. Threads' /\ HolderKeepsLease' /\ Clients'
  BY <1>1, SpawnKeeps DEF IndInv, Recover, Enqueue, Threads, HolderKeepsLease, Clients
<1>4. Pool'
  BY <1>1 DEF IndInv, Recover, Spawn, Enqueue, Pool
<1> QED
  BY <1>1, <1>2, <1>3, <1>4 DEF IndInv, Leases, Deciders, Runs

\* A pool thread takes a queued task.
LEMMA TakeInv == ASSUME IndInv, NEW w \in Workers, Take(w) PROVE IndInv'
<1>1. UNCHANGED <<status, version, approval, lease, phase, recovery, decider, run, inv,
                  executed, faults>>
  BY DEF Take, dbVars, agentVars
<1>2. Pool' /\ Head(queue) \in Jobs
  BY <1>1 DEF IndInv, Take, Pool
<1>3. Threads' /\ HolderKeepsLease' /\ Clients'
  BY <1>1, <1>2, StartKeeps, OthersClients DEF IndInv, Take
<1> QED
  BY <1>1, <1>2, <1>3 DEF IndInv, Rows, Leases, Deciders, Runs

\* A pool thread ends after its keep-alive.
LEMMA RetireInv == ASSUME IndInv, NEW w \in Workers, Retire(w) PROVE IndInv'
<1>1. UNCHANGED <<status, version, approval, lease, phase, queue, recovery, decider, run,
                  inv, executed, faults>>
  BY DEF Retire, dbVars, platformVars, agentVars
<1>2. Threads' /\ Clients'
  BY <1>1, RestsKeeps, OthersClients DEF IndInv, Retire
<1>3. Resting("absent").pc \notin Holding
  BY DEF Resting, Thread, Holding
<1>4. HolderKeepsLease'
  BY <1>1, <1>3 DEF IndInv, Retire, Threads, HolderKeepsLease
<1> QED
  BY <1>1, <1>2, <1>4 DEF IndInv, Rows, Leases, Pool, Deciders, Runs

----------------------------------------------------------------------------
(* The lease *)

\* acquire: granted only when nobody holds the key, so no other holder is robbed.
LEMMA AcquireInv == ASSUME IndInv, NEW w \in Workers, Acquire(w) PROVE IndInv'
<1>1. UNCHANGED <<status, version, approval, phase, queue, recovery, decider, run, inv,
                  executed>>
  BY DEF Acquire, dbVars, platformVars, agentVars
<1>2. worker[w] \in Worker /\ worker[w].pc = "acquire" /\ worker[w].job \in Jobs
  BY DEF IndInv, Threads, Legal, Acquire
<1>3. CASE /\ lease[worker[w].job] = None
           /\ lease' = [lease EXCEPT ![worker[w].job] = w]
           /\ worker' = [worker EXCEPT ![w].pc = "prepare"]
           /\ UNCHANGED faults
  <2> DEFINE r == [worker[w] EXCEPT !.pc = "prepare"]
  <2>1. Onward(worker[w], r)
    BY <1>2, OnwardPc DEF Plain, Holding
  <2>2. worker' = [worker EXCEPT ![w] = r]
    BY <1>3
  <2> HIDE DEF r
  <2>3. Threads' /\ Clients'
    BY <1>1, <1>2, <2>1, <2>2, OthersClients DEF IndInv, Threads, Onward
  <2>4. Leases'
    BY <1>3 DEF IndInv, Leases
  <2>5. HolderKeepsLease'
    BY <1>2, <1>3, <2>1, <2>2, Assumption
    DEF IndInv, Threads, Leases, Onward, Legal, Holding, HolderKeepsLease
  <2> QED
    BY <1>1, <1>3, <2>3, <2>4, <2>5 DEF IndInv, Rows, Pool, Deciders, Runs
<1>4. CASE worker' = [worker EXCEPT ![w] = Resting("idle")] /\ UNCHANGED <<lease, faults>>
  <2>1. Threads' /\ Clients'
    BY <1>1, <1>2, <1>4, RestsKeeps, OthersClients DEF IndInv
  <2>2. Resting("idle").pc \notin Holding
    BY DEF Resting, Thread, Holding
  <2>3. HolderKeepsLease'
    BY <1>4, <2>2 DEF IndInv, Threads, HolderKeepsLease
  <2> QED
    BY <1>1, <1>4, <2>1, <2>3 DEF IndInv, Rows, Leases, Pool, Deciders, Runs
<1>5. CASE /\ Fault("redis")
           /\ worker' = [worker EXCEPT ![w] = [@ EXCEPT !.pc = "prepare", !.lost = TRUE]]
           /\ UNCHANGED lease
  <2> DEFINE r == [worker[w] EXCEPT !.pc = "prepare", !.lost = TRUE]
  <2>1. r \in Worker /\ Legal(r) /\ r.lost
    BY <1>2 DEF Worker, WorkerPc, Holding, Legal
  <2>2. worker' = [worker EXCEPT ![w] = r]
    BY <1>5
  <2> HIDE DEF r
  <2>3. Threads' /\ Clients' /\ HolderKeepsLease'
    BY <1>1, <1>2, <1>5, <2>1, <2>2, OthersClients DEF IndInv, Threads, HolderKeepsLease
  <2>4. faults' \in Nat
    BY <1>5 DEF Fault, IndInv
  <2> QED
    BY <1>1, <1>5, <2>3, <2>4 DEF IndInv, Rows, Leases, Pool, Deciders, Runs
<1> QED
  BY <1>3, <1>4, <1>5 DEF Acquire

\* release: the compare-and-delete only ever removes the worker's own key.
LEMMA ReleaseInv == ASSUME IndInv, NEW w \in Workers, Release(w) PROVE IndInv'
<1>1. UNCHANGED <<status, version, approval, phase, queue, recovery, decider, run, inv,
                  executed>>
  BY DEF Release, dbVars, platformVars, agentVars
<1>2. /\ worker[w].pc = "release" /\ worker[w].job \in Jobs
      /\ worker' = [worker EXCEPT ![w] = Resting("idle")]
  BY DEF IndInv, Threads, Legal, Release
<1>3. Threads' /\ Clients'
  BY <1>1, <1>2, RestsKeeps, OthersClients DEF IndInv
<1>4. Leases' /\ faults' \in Nat
  BY DEF IndInv, Leases, Release, AfterRelease, Fault
<1>5. Resting("idle").pc \notin Holding
  BY DEF Resting, Thread, Holding
<1>6. \A k \in Jobs : lease[k] # w => lease'[k] = lease[k]
  BY DEF IndInv, Leases, Release, AfterRelease
<1>7. HolderKeepsLease'
  BY <1>2, <1>5, <1>6 DEF IndInv, Threads, Legal, Holding, HolderKeepsLease
<1> QED
  BY <1>1, <1>3, <1>4, <1>7 DEF IndInv, Rows, Pool, Deciders, Runs

\* The end of a TTL takes the lease from its owner, and marks that it did.
LEMMA ExpireInv == ASSUME IndInv, NEW j \in Jobs, Expire(j) PROVE IndInv'
<1>1. UNCHANGED <<status, version, approval, phase, queue, recovery, decider, run, inv,
                  executed>>
  BY DEF Expire, dbVars, platformVars, agentVars
<1>2. lease[j] # None /\ lease' = [lease EXCEPT ![j] = None]
  BY DEF Expire
<1>3. Leases' /\ faults' \in Nat
  BY <1>2 DEF IndInv, Leases, Expire, Fault
<1>4. CASE lease[j] = "orphan"
  <2>1. UNCHANGED <<worker, faults>>
    BY <1>4 DEF Expire
  <2>2. HolderKeepsLease'
    BY <1>2, <1>4, <2>1, Assumption DEF IndInv, Threads, Legal, Leases, Holding, HolderKeepsLease
  <2> QED
    BY <1>1, <1>3, <2>1, <2>2 DEF IndInv, Rows, Pool, Threads, Deciders, Runs, Clients
<1>5. CASE lease[j] # "orphan"
  <2> DEFINE w == lease[j]
             r == [worker[w] EXCEPT !.lost = TRUE]
  <2>1. w \in Workers /\ worker[w] \in Worker /\ Legal(worker[w])
    BY <1>2, <1>5 DEF IndInv, Leases, Threads
  <2>2. worker' = [worker EXCEPT ![w] = r]
    BY <1>5 DEF Expire
  <2> HIDE DEF w
  <2>3. r \in Worker /\ Legal(r) /\ r.lost /\ r.pc = worker[w].pc
    BY <2>1 DEF Worker, Legal
  <2> HIDE DEF r
  <2>4. Threads' /\ Clients'
    BY <1>1, <2>1, <2>2, <2>3 DEF IndInv, Threads, Clients
  <2>5. HolderKeepsLease'
    BY <1>2, <2>1, <2>2, <2>3 DEF w, IndInv, Threads, Legal, Leases, Holding, HolderKeepsLease
  <2> QED
    BY <1>1, <1>3, <2>4, <2>5 DEF IndInv, Rows, Pool, Deciders, Runs
<1> QED
  BY <1>4, <1>5

----------------------------------------------------------------------------
(* The worker's transactions and its call *)

\* What advance leaves behind, when it does not throw, is a status.
LEMMA AdvanceType ==
  ASSUME NEW s \in Status \cup {"NONE"}, NEW t \in Results \cup {"none"},
         Advance(s, t) # Invalid
  PROVE  Advance(s, t) \in Status \cup {"NONE"}
<1> DEFINE planned   == IF s = "CREATED" THEN Transition(s, "PLANNING") ELSE s
           validated == IF t # "FAILED" /\ planned = "PLANNING"
                        THEN Transition(planned, "VALIDATING") ELSE planned
           running   == IF t = "COMPLETED" /\ validated # "RUNNING"
                        THEN Transition(validated, "RUNNING") ELSE validated
<1>1. \A x : \A y \in Status : Transition(x, y) \in Status \cup {Invalid}
  BY DEF Transition
<1>2. \A x \in Status \cup {"NONE", Invalid} : x # "none" /\ Transition(x, "none") = Invalid
  BY DEF Transition, CanTransition, Allowed, Status, Invalid
<1>3. {"PLANNING", "VALIDATING", "RUNNING"} \cup Results \subseteq Status
  BY DEF Status, Results
<1>4. planned \in Status \cup {"NONE", Invalid}
  BY <1>1, <1>3
<1>5. validated \in Status \cup {"NONE", Invalid}
  BY <1>1, <1>3, <1>4
<1>6. running \in Status \cup {"NONE", Invalid}
  BY <1>1, <1>3, <1>5
<1>7. Advance(s, t) = IF t = "PLANNING" THEN planned
                      ELSE IF running # t THEN Transition(running, t) ELSE running
  BY DEF Advance
<1> HIDE DEF planned, validated, running
<1> QED
  BY <1>1, <1>2, <1>3, <1>4, <1>6, <1>7

\* The transactions of the worker and its call preserve the invariant: a status is
\* written only as the state machine allows it.
LEMMA DispatchInv == ASSUME IndInv, NEW w \in Workers, Dispatch(w) PROVE IndInv'
<1>1. UNCHANGED <<lease, phase, queue, recovery, decider, run, executed>>
  BY DEF Dispatch, Prepare, CommitPrepare, CallAgent, PersistResult, CommitResult, Fail,
         CommitFail, platformVars, agentVars
<1>2. Moves(w) /\ worker[w].pc \in Holding /\ worker[w].pc # "wait"
  BY DispatchMoves DEF IndInv
<1>3. Threads' /\ HolderKeepsLease'
  BY <1>1, <1>2, MovesKeeps DEF IndInv
<1>4. faults' \in Nat
  <2>1. faults' = faults \/ faults' = faults + 1
    BY DEF Dispatch, Prepare, CommitPrepare, CallAgent, PersistResult, CommitResult, Fail,
           CommitFail, Fault
  <2> QED
    BY <2>1 DEF IndInv
<1>5. worker[w] \in Worker /\ Legal(worker[w]) /\ worker[w].job \in Jobs
  BY <1>2 DEF IndInv, Threads, Legal, Holding
<1>6. Rows'
  <2>1. ASSUME NEW s \in Status \cup {"NONE"}, WriteJob(worker[w].job, s)
        PROVE  Rows'
    BY <1>5, <2>1 DEF WriteJob, IndInv, Rows
  <2>2. CASE UNCHANGED dbVars
    BY <2>2 DEF IndInv, Rows, dbVars
  <2>3. CASE CommitPrepare(w)
    <3>1. Transition(worker[w].st, "PLANNING") \in Status
      BY <1>5, <2>3 DEF CommitPrepare, Legal, Transition, CanTransition, Allowed, Invalid, Status
    <3> QED
      BY <2>1, <2>2, <2>3, <3>1 DEF CommitPrepare
  <2>4. CASE CommitResult(w)
    <3>1. Advance(worker[w].st, worker[w].res) \in Status \cup {"NONE"}
      BY <1>5, <2>4, AdvanceType DEF CommitResult, Legal, Worker
    <3> QED
      BY <2>1, <2>2, <2>4, <3>1 DEF CommitResult
  <2>5. CASE CommitFail(w)
    <3>1. Transition(worker[w].st, "FAILED") \in Status
      BY <1>5, <2>5 DEF CommitFail, Legal, Worker, Transition, CanTransition, Allowed,
                        Invalid, Status, Terminal
    <3> QED
      BY <2>1, <2>2, <2>5, <3>1 DEF CommitFail
  <2> QED
    BY <2>2, <2>3, <2>4, <2>5 DEF Dispatch, Prepare, CallAgent, PersistResult, Fail
<1>7. CASE UNCHANGED inv
  <2>1. Clients'
    BY <1>1, <1>2, <1>7, OthersClients DEF IndInv, Moves
  <2> QED
    BY <1>1, <1>3, <1>4, <1>6, <1>7, <2>1 DEF IndInv, Leases, Pool, Deciders, Runs
<1>8. CASE inv' # inv
  <2>1. PICK i \in Invocations :
          /\ inv' = [inv EXCEPT ![i] = [ph |-> "new", job |-> worker[w].job, client |-> w,
                                        decision |-> "none"]]
          /\ Goto(w, "wait")
    BY <1>8 DEF Dispatch, Prepare, CommitPrepare, CallAgent, PersistResult, CommitResult,
                Fail, CommitFail, agentVars
  <2>2. Runs'
    BY <1>1, <1>5, <2>1 DEF IndInv, Runs, Invocation, InvPhase, Decisions
  <2>3. \A k \in Invocations : inv[k].client # w
    BY <1>2 DEF IndInv, Clients
  <2>4. worker'[w].pc = "wait" /\ \A v \in Workers \ {w} : worker'[v] = worker[v]
    BY <2>1 DEF Goto, IndInv, Threads, Worker
  <2>5. inv'[i].client = w /\ \A k \in Invocations \ {i} : inv'[k] = inv[k]
    BY <2>1 DEF IndInv, Runs, Invocation
  <2>6. Clients'
    BY <1>1, <2>3, <2>4, <2>5, Assumption DEF IndInv, Clients
  <2> QED
    BY <1>1, <1>3, <1>4, <1>6, <2>2, <2>6 DEF IndInv, Leases, Pool, Deciders
<1> QED
  BY <1>7, <1>8

----------------------------------------------------------------------------
(* Graph invocations *)

Committing(d, x) == [d EXCEPT !.pc = "commit", !.res = x]

\* The records a decision passes through.
LEMMA DeciderTypes ==
  /\ Active(NoDecider)
  /\ \A d \in Decider, x \in Results :
       Active(d) /\ d.pc = "wait" => Active(Committing(d, x))
<1>1. Active(NoDecider)
  BY DEF NoDecider, Decider, Active
<1>2. ASSUME NEW d \in Decider, NEW x \in Results, Active(d), d.pc = "wait"
      PROVE  Active(Committing(d, x))
  BY <1>2 DEF Decider, Active, Committing
<1> QED
  BY <1>1, <1>2

\* Three things may happen to whoever waits for an invocation: nothing, the answer,
\* or the end of the attempt (for decide(): a rollback).
Answered(i) ==
  LET c == inv[i].client IN
  \/ UNCHANGED <<worker, decider>> /\ inv'[i].client = c
  \/ /\ inv'[i].client = None
     /\ IF c \in Workers
        THEN \E x \in Results :
               \/ worker' = [worker EXCEPT ![c] = [@ EXCEPT !.pc = "result", !.res = x]]
               \/ worker' = [worker EXCEPT ![c] = AttemptFailed(@)]
        ELSE UNCHANGED worker
     /\ IF c \in Jobs
        THEN \E x \in Results :
               \/ decider' = [decider EXCEPT ![c] = Committing(@, x)]
               \/ decider' = [decider EXCEPT ![c] = NoDecider]
        ELSE UNCHANGED decider

\* However an invocation answers, only its own client moves.
LEMMA AnsweredKeeps ==
  ASSUME IndInv, NEW i \in Invocations, Answered(i), UNCHANGED lease,
         \A k \in Invocations \ {i} : inv'[k] = inv[k]
  PROVE  Threads' /\ HolderKeepsLease' /\ Deciders' /\ Clients'
<1> DEFINE c == inv[i].client
<1>1. CASE UNCHANGED <<worker, decider>> /\ inv'[i].client = c
  BY <1>1 DEF IndInv, Threads, HolderKeepsLease, Deciders, Clients
<1>2. CASE c \in Workers /\ inv'[i].client = None
  <2>1. UNCHANGED decider
    BY <1>2, Assumption DEF Answered
  <2>2. CASE UNCHANGED worker
    BY <1>2, <2>1, <2>2, Assumption, SMTT(30) DEF IndInv, Threads, HolderKeepsLease, Deciders, Clients
  <2>3. CASE worker' # worker
    <3>1. Moves(c) /\ worker[c].pc \in Holding
      BY <1>2, <2>3, AnswerMoves, ZenonT(60) DEF Answered, IndInv
    <3>2. Threads' /\ HolderKeepsLease'
      BY <1>2, <3>1, MovesKeeps DEF IndInv
    <3>3. \A v \in Workers \ {c} : worker'[v] = worker[v]
      BY <3>1 DEF Moves, IndInv, Threads
    <3>4. Clients'
      BY <1>2, <2>1, <3>3, Assumption DEF IndInv, Clients
    <3> QED
      BY <2>1, <3>2, <3>4 DEF IndInv, Deciders
  <2> QED
    BY <2>2, <2>3
<1>3. CASE c \in Jobs /\ inv'[i].client = None
  <2>1. UNCHANGED worker
    BY <1>3, Assumption DEF Answered
  <2>2. PICK d : Active(d) /\ (decider' = decider \/ decider' = [decider EXCEPT ![c] = d])
    <3>1. decider[c] \in Decider /\ Active(decider[c]) /\ decider[c].pc = "wait"
      BY <1>3 DEF IndInv, Deciders, Clients
    <3> QED
      BY <1>3, <3>1, DeciderTypes DEF Answered
  <2>3. Clients'
    BY <1>3, <2>1, <2>2, Assumption DEF IndInv, Deciders, Clients
  <2> QED
    BY <1>3, <2>1, <2>2, <2>3 DEF IndInv, Threads, HolderKeepsLease, Deciders, Active
<1>4. CASE c \notin Workers \cup Jobs /\ inv'[i].client = None
  <2>1. UNCHANGED <<worker, decider>>
    BY <1>4 DEF Answered
  <2> QED
    BY <1>4, <2>1, Assumption DEF IndInv, Threads, HolderKeepsLease, Deciders, Clients
<1> QED
  BY <1>1, <1>2, <1>3, <1>4 DEF Answered

\* The answer of a graph invocation reaches its client, and
LEMMA ReplyAnswers ==
  ASSUME NEW i \in Invocations, NEW x \in Results, inv'[i].client = None, Reply(i, x)
  PROVE  Answered(i)
BY DEF Reply, Answered, Committing

\* so does its error.
LEMMA ReplyErrorAnswers ==
  ASSUME NEW i \in Invocations, inv'[i].client = None, ReplyError(i)
  PROVE  Answered(i)
BY DEF ReplyError, Answered, Results

\* An invocation that ends leaves a typed run and no client.
LEMMA EndsInv ==
  ASSUME IndInv, NEW i \in Invocations, inv[i].ph # "free",
         NEW s \in RunStates, Ends(i, s), UNCHANGED executed
  PROVE  /\ Runs'
         /\ inv'[i].client = None
         /\ \A k \in Invocations \ {i} : inv'[k] = inv[k]
<1>1. NoInvocation \in Invocation /\ NoInvocation.ph = "free" /\ NoInvocation.client = None
  BY DEF NoInvocation, Invocation, InvPhase
<1> QED
  BY <1>1 DEF IndInv, Runs, Ends

\* An invocation that ends: Finish, Interrupt, NodeFails, a rejected Decided, and
\* the second disjunct of Ask.
LEMMA EndingInv ==
  ASSUME IndInv, NEW i \in Invocations, inv[i].ph # "free", Rows', faults' \in Nat,
         UNCHANGED <<lease, phase, queue, recovery, executed>>,
         NEW s \in RunStates, Ends(i, s),
         ReplyError(i) \/ \E x \in Results : Reply(i, x)
  PROVE  IndInv'
<1>1. /\ Runs'
      /\ inv'[i].client = None
      /\ \A k \in Invocations \ {i} : inv'[k] = inv[k]
  BY EndsInv
<1>2. Answered(i)
  BY <1>1, ReplyAnswers, ReplyErrorAnswers
<1>3. Threads' /\ HolderKeepsLease' /\ Deciders' /\ Clients'
  BY <1>1, <1>2, AnsweredKeeps
<1> QED
  BY <1>1, <1>3 DEF IndInv, Leases, Pool

\* An invocation that only changes its phase.
LEMMA PhaseInv ==
  ASSUME IndInv, NEW i \in Invocations, inv[i].ph # "free", Rows', faults' \in Nat,
         UNCHANGED <<lease, phase, queue, recovery, worker, decider>>,
         run' \in [Jobs -> RunStates], executed' \subseteq Jobs,
         NEW p \in InvPhase, inv' = [inv EXCEPT ![i].ph = p]
  PROVE  IndInv'
<1>1. Runs'
  BY DEF IndInv, Runs, Invocation
<1>2. \A k \in Invocations : inv'[k].client = inv[k].client
  BY DEF IndInv, Runs, Invocation
<1>3. Clients'
  BY <1>2 DEF IndInv, Clients
<1> QED
  BY <1>1, <1>3 DEF IndInv, Leases, Pool, Threads, Deciders, HolderKeepsLease

\* The approval callback stores a status, never the outcome of an illegal move.
LEMMA RequestRows ==
  ASSUME Rows, NEW j \in Jobs, ~Refused(j), Request(j)
  PROVE  Rows'
<1>1. CASE approval[j] # "NONE"
  BY <1>1 DEF Rows, Request, dbVars
<1>2. CASE approval[j] = "NONE"
  <2>1. AdvanceToWaiting(status[j]) \in Status
    BY <1>2 DEF Refused, AdvanceToWaiting, Transition, Status
  <2> QED
    BY <1>2, <2>1 DEF Rows, Request, ApprovalStatus
<1> QED
  BY <1>1, <1>2

\* Every step of a graph invocation preserves the invariant.
LEMMA InvocationInv == ASSUME IndInv, NEW i \in Invocations, InvocationStep(i) PROVE IndInv'
<1>1. inv[i].ph # "free" /\ UNCHANGED <<lease, phase, queue, recovery>>
  BY DEF InvocationStep, Begin, Finish, Ask, Interrupt, NodeFails, Decided, DecidedFails,
         InGraph, platformVars
<1>2. inv[i].job \in Jobs
  BY <1>1 DEF IndInv, Runs
<1>3. faults' \in Nat
  <2>1. faults' = faults \/ faults' = faults + 1
    BY DEF InvocationStep, Begin, Finish, Ask, Interrupt, NodeFails, Decided, DecidedFails,
           Fault
  <2> QED
    BY <2>1 DEF IndInv
<1>4. Rows'
  <2>1. CASE UNCHANGED dbVars
    BY <2>1 DEF IndInv, Rows, dbVars
  <2>2. CASE Ask(i)
    BY <1>2, <2>2, RequestRows DEF Ask, IndInv
  <2> QED
    BY <2>1, <2>2 DEF InvocationStep, Begin, Finish, Interrupt, NodeFails, Decided, DecidedFails
<1>5. CASE Begin(i)
  BY <1>1, <1>2, <1>3, <1>4, <1>5, PhaseInv DEF Begin, IndInv, Runs, RunStates, InvPhase
<1>6. CASE Finish(i)
  BY <1>1, <1>3, <1>4, <1>6, EndingInv DEF Finish, RunStates, Results
<1>7. CASE Ask(i)
  <2>1. CASE inv' = [inv EXCEPT ![i].ph = "asked"] /\ UNCHANGED <<run, worker, decider>>
    BY <1>1, <1>3, <1>4, <1>7, <2>1, PhaseInv DEF Ask, IndInv, Runs, InvPhase
  <2>2. CASE Ends(i, "FAILED") /\ ReplyError(i)
    BY <1>1, <1>3, <1>4, <1>7, <2>2, EndingInv DEF Ask, RunStates
  <2> QED
    BY <1>7, <2>1, <2>2 DEF Ask
<1>8. CASE Interrupt(i)
  BY <1>1, <1>3, <1>4, <1>8, EndingInv DEF Interrupt, RunStates, Results
<1>9. CASE NodeFails(i)
  BY <1>1, <1>3, <1>4, <1>9, EndingInv DEF NodeFails, RunStates
<1>10. CASE Decided(i)
  <2>1. CASE inv[i].decision = "REJECTED"
    BY <1>1, <1>3, <1>4, <1>10, <2>1, EndingInv DEF Decided, RunStates, Results
  <2>2. CASE inv[i].decision # "REJECTED"
    BY <1>1, <1>2, <1>3, <1>4, <1>10, <2>2, PhaseInv DEF Decided, IndInv, Runs, RunStates,
       InvPhase
  <2> QED
    BY <2>1, <2>2
<1>11. CASE DecidedFails(i)
  <2>1. /\ inv' = [inv EXCEPT ![i] = NoInvocation] /\ ReplyError(i)
        /\ UNCHANGED <<run, executed>>
    BY <1>11 DEF DecidedFails
  <2>2. NoInvocation \in Invocation /\ NoInvocation.ph = "free" /\ NoInvocation.client = None
    BY DEF NoInvocation, Invocation, InvPhase
  <2>3. Runs' /\ inv'[i].client = None /\ \A k \in Invocations \ {i} : inv'[k] = inv[k]
    BY <2>1, <2>2 DEF IndInv, Runs
  <2>4. Threads' /\ HolderKeepsLease' /\ Deciders' /\ Clients'
    BY <1>1, <2>1, <2>3, ReplyErrorAnswers, AnsweredKeeps
  <2> QED
    BY <1>1, <1>3, <1>4, <2>3, <2>4 DEF IndInv, Leases, Pool
<1> QED
  BY <1>5, <1>6, <1>7, <1>8, <1>9, <1>10, <1>11 DEF InvocationStep

\* A client's read timeout preserves it.
LEMMA GiveUpInv == ASSUME IndInv, NEW i \in Invocations, GiveUp(i) PROVE IndInv'
<1>1. UNCHANGED <<status, version, approval, lease, phase, queue, recovery, run, executed>>
  BY DEF GiveUp, dbVars, platformVars
<1>2. faults' \in Nat
  BY DEF GiveUp, Fault, IndInv
<1>3. /\ Runs' /\ inv'[i].client = None
      /\ \A k \in Invocations \ {i} : inv'[k] = inv[k]
  BY <1>1 DEF GiveUp, IndInv, Runs, Invocation
<1>4. Answered(i)
  BY <1>3 DEF GiveUp, Answered, Results
<1>5. Threads' /\ HolderKeepsLease' /\ Deciders' /\ Clients'
  BY <1>1, <1>3, <1>4, AnsweredKeeps
<1> QED
  BY <1>1, <1>2, <1>3, <1>5 DEF IndInv, Rows, Leases, Pool

----------------------------------------------------------------------------
(* Decisions *)

\* decide() locks the approval row.
LEMMA DecideInv == ASSUME IndInv, NEW j \in Jobs, NEW d \in Decisions, Decide(j, d)
                   PROVE  IndInv'
<1>1. UNCHANGED <<status, version, approval, lease, phase, queue, recovery, worker, run, inv,
                  executed, faults>>
  BY DEF Decide, dbVars, platformVars, agentVars
<1> DEFINE r == [pc |-> "call", decision |-> d, st |-> status[j], ver |-> version[j],
                 res |-> "none"]
<1>2. Active(r)
  BY DEF IndInv, Rows, Decider, Active
<1>3. decider[j].pc = "idle" /\ decider' = [decider EXCEPT ![j] = r]
  BY DEF Decide
<1> HIDE DEF r
<1>4. Deciders'
  BY <1>2, <1>3 DEF IndInv, Deciders, Active
<1>5. Clients'
  BY <1>1, <1>3 DEF IndInv, Deciders, Clients
<1> QED
  BY <1>1, <1>4, <1>5
  DEF IndInv, Rows, Leases, Pool, Threads, Runs, HolderKeepsLease

\* decide() calls resume.
LEMMA ResumeInv == ASSUME IndInv, NEW j \in Jobs, Resume(j) PROVE IndInv'
<1>1. UNCHANGED <<status, version, approval, lease, phase, queue, recovery, worker, run,
                  executed>>
  BY DEF Resume, dbVars, platformVars
<1>2. faults' \in Nat
  <2>1. faults' = faults \/ faults' = faults + 1
    BY DEF Resume, Fault
  <2> QED
    BY <2>1 DEF IndInv
<1>3. \A k \in Invocations : inv[k].client # j
  BY DEF Resume, IndInv, Clients
<1>4. CASE decider' = [decider EXCEPT ![j] = NoDecider] /\ UNCHANGED inv
  <2>1. Deciders'
    BY <1>4, DeciderTypes DEF IndInv, Deciders, Active
  <2>2. Clients'
    BY <1>1, <1>3, <1>4 DEF IndInv, Deciders, Clients
  <2> QED
    BY <1>1, <1>2, <1>4, <2>1, <2>2
    DEF IndInv, Rows, Leases, Pool, Threads, Runs, HolderKeepsLease
<1>5. ASSUME NEW i \in Invocations,
             inv' = [inv EXCEPT ![i] = [ph |-> "reask", job |-> j, client |-> j,
                                        decision |-> decider[j].decision]],
             decider' = [decider EXCEPT ![j].pc = "wait"]
      PROVE  IndInv'
  <2>1. decider[j] \in Decider /\ Active(decider[j]) /\ decider[j].pc = "call"
    BY DEF Resume, IndInv, Deciders
  <2> DEFINE r == [decider[j] EXCEPT !.pc = "wait"]
  <2>6. Active(r) /\ decider' = [decider EXCEPT ![j] = r]
    BY <1>5, <2>1 DEF Decider, Active
  <2> HIDE DEF r
  <2>7. Deciders'
    BY <2>6 DEF IndInv, Deciders, Active
  <2>2. Runs'
    BY <1>1, <1>5, <2>1 DEF IndInv, Runs, Invocation, InvPhase, Decider
  <2>3. decider'[j].pc = "wait" /\ \A k \in Jobs \ {j} : decider'[k] = decider[k]
    BY <1>5 DEF IndInv, Deciders, Decider
  <2>4. inv'[i].client = j /\ \A k \in Invocations \ {i} : inv'[k] = inv[k]
    BY <1>5 DEF IndInv, Runs, Invocation
  <2>5. Clients'
    BY <1>1, <1>3, <2>3, <2>4, Assumption DEF IndInv, Clients
  <2> QED
    BY <1>1, <1>2, <2>2, <2>5, <2>7
    DEF IndInv, Rows, Leases, Pool, Threads, HolderKeepsLease
<1> QED
  BY <1>4, <1>5 DEF Resume

\* decide() commits or rolls back.
LEMMA CommitDecisionInv == ASSUME IndInv, NEW j \in Jobs, CommitDecision(j) PROVE IndInv'
<1>1. UNCHANGED <<lease, phase, queue, recovery, worker, run, inv, executed, faults>>
  BY DEF CommitDecision, platformVars, agentVars
<1>2. decider[j].pc = "commit" /\ decider' = [decider EXCEPT ![j] = NoDecider]
  BY DEF CommitDecision
<1>3. Deciders' /\ Clients'
  BY <1>1, <1>2, DeciderTypes DEF IndInv, Deciders, Active, Clients
<1>4. Rows'
  <2> DEFINE d == decider[j]
             target == AfterDecision(d.st, d.decision, d.res)
  <2>1. d.decision \in Decisions
    BY <1>2 DEF IndInv, Deciders, Active
  <2>2. target # Invalid => target \in Status
    BY DEF AfterDecision, Transition, Status
  <2>3. \/ UNCHANGED dbVars
        \/ /\ target # Invalid
           /\ status' = [status EXCEPT ![j] = target]
           /\ version' = [version EXCEPT ![j] = @ + 1]
           /\ approval' = [approval EXCEPT ![j] = d.decision]
    BY DEF CommitDecision
  <2> HIDE DEF d, target
  <2> QED
    BY <2>1, <2>2, <2>3 DEF IndInv, Rows, dbVars, Decisions, ApprovalStatus
<1> QED
  BY <1>1, <1>3, <1>4
  DEF IndInv, Leases, Pool, Threads, Runs, HolderKeepsLease

----------------------------------------------------------------------------
(* Crashes, restarts and the whole system *)

\* The platform process dies: threads and transactions are gone, keys stay.
LEMMA CrashInv == ASSUME IndInv, Crash PROVE IndInv'
<1>1. UNCHANGED <<status, version, approval, run, executed>>
  BY DEF Crash, dbVars
<1>2. faults' \in Nat /\ Pool' /\ Leases'
  BY DEF Crash, Fault, IndInv, Pool, Leases
<1>3. Threads' /\ \A w \in Workers : worker'[w].pc \notin Holding
  BY ThreadLegal DEF Crash, Threads, Resting, Thread, Holding
<1>4. Deciders'
  BY DeciderTypes DEF Crash, Deciders, Active
<1>5. /\ Runs'
      /\ \A i \in Invocations : inv'[i].client = None
  BY <1>1 DEF Crash, IndInv, Runs, Invocation
<1>6. Clients'
  BY <1>5, Assumption DEF Clients
<1> QED
  BY <1>1, <1>2, <1>3, <1>4, <1>5, <1>6 DEF IndInv, Rows, HolderKeepsLease

\* The agent process dies: every waiting client has lost its attempt.
LEMMA AgentCrashInv == ASSUME IndInv, AgentCrash PROVE IndInv'
<1>1. UNCHANGED <<status, version, approval, lease, phase, queue, recovery, run, executed>>
  BY DEF AgentCrash, dbVars, platformVars
<1>2. faults' \in Nat
  BY DEF AgentCrash, Fault, IndInv
<1>3. \A w \in Workers : \/ worker'[w] = worker[w]
                         \/ worker[w].pc = "wait" /\ Onward(worker[w], worker'[w])
  <2> SUFFICES ASSUME NEW w \in Workers
               PROVE  \/ worker'[w] = worker[w]
                      \/ worker[w].pc = "wait" /\ Onward(worker[w], worker'[w])
    OBVIOUS
  <2>1. worker'[w] = IF worker[w].pc = "wait" THEN AttemptFailed(worker[w]) ELSE worker[w]
    BY DEF AgentCrash
  <2>2. worker[w].pc = "wait" => worker[w].job \in Jobs /\ worker[w] \in Worker
    BY DEF IndInv, Threads, Legal
  <2> QED
    BY <2>1, <2>2, OnwardFailedAttempt
<1>4. worker' = [w \in Workers |-> worker'[w]]
  BY DEF AgentCrash
<1>5. Threads'
  BY <1>3, <1>4 DEF IndInv, Threads, Onward
<1>6. HolderKeepsLease'
  BY <1>1, <1>3 DEF IndInv, Onward, HolderKeepsLease, Holding
<1>7. Deciders'
  BY DeciderTypes DEF AgentCrash, IndInv, Deciders, Active
<1>8. NoInvocation \in Invocation /\ NoInvocation.ph = "free" /\ NoInvocation.client = None
  BY DEF NoInvocation, Invocation, InvPhase
<1>9. Runs' /\ \A i \in Invocations : inv'[i].client = None
  BY <1>1, <1>8 DEF AgentCrash, IndInv, Runs
<1>10. Clients'
  BY <1>9, Assumption DEF Clients
<1> QED
  BY <1>1, <1>2, <1>5, <1>6, <1>7, <1>9, <1>10 DEF IndInv, Rows, Leases, Pool

\* Restart and the two ends of the recovery.
LEMMA StartupInv ==
  ASSUME IndInv, Restart \/ RecoverUnfinishedJobs \/ RecoveryDone
  PROVE  IndInv'
<1>1. UNCHANGED <<status, version, approval, lease, queue, worker, decider, run, inv,
                  executed, faults>>
  BY DEF Restart, RecoverUnfinishedJobs, RecoveryDone, dbVars, agentVars
<1>2. Pool'
  BY <1>1 DEF IndInv, Pool, Restart, RecoverUnfinishedJobs, RecoveryDone
<1> QED
  BY <1>1, <1>2
  DEF IndInv, Rows, Leases, Threads, Deciders, Runs, Clients, HolderKeepsLease

\* The invariant holds at the start,
LEMMA InitInv == Init => IndInv
<1> SUFFICES ASSUME Init PROVE IndInv
  OBVIOUS
<1>1. Rows /\ Leases /\ Pool /\ faults \in Nat
  BY DEF Init, Rows, Leases, Pool, ApprovalStatus
<1>2. Threads /\ \A w \in Workers : worker[w].pc \notin Holding
  BY ThreadLegal DEF Init, Threads, Resting, Thread, Holding
<1>3. Deciders
  BY DeciderTypes DEF Init, Deciders, Active
<1>4. Runs /\ \A i \in Invocations : inv[i].client = None
  BY DEF Init, Runs, RunStates, NoInvocation, Invocation, InvPhase
<1>5. Clients
  BY <1>4, Assumption DEF Clients
<1> QED
  BY <1>1, <1>2, <1>3, <1>4, <1>5 DEF IndInv, HolderKeepsLease

\* every step preserves it,
LEMMA NextInv == IndInv /\ [Next]_vars => IndInv'
<1> SUFFICES ASSUME IndInv, [Next]_vars PROVE IndInv'
  OBVIOUS
<1>1. ASSUME NEW j \in Jobs,
             \/ Create(j) \/ Expire(j) \/ DeciderStep(j)
             \/ \E d \in Decisions : Decide(j, d)
      PROVE  IndInv'
  BY <1>1, CreateInv, ExpireInv, ResumeInv, CommitDecisionInv, DecideInv DEF DeciderStep
<1>2. ASSUME NEW w \in Workers, WorkerStep(w) \/ Retire(w) PROVE IndInv'
  BY <1>2, TakeInv, AcquireInv, ReleaseInv, DispatchInv, RetireInv DEF WorkerStep, Dispatch
<1>3. ASSUME NEW i \in Invocations, InvocationStep(i) \/ GiveUp(i) PROVE IndInv'
  BY <1>3, InvocationInv, GiveUpInv
<1>4. CASE RecoveryStep
  BY <1>4, StartupInv, RecoverInv DEF RecoveryStep
<1>5. CASE UNCHANGED vars
  BY <1>5 DEF vars, dbVars, platformVars, agentVars, IndInv, Rows, Leases, Pool, Threads,
              Deciders, Runs, Clients, HolderKeepsLease
<1> QED
  BY <1>1, <1>2, <1>3, <1>4, <1>5, CrashInv, AgentCrashInv DEF Next

\* so it holds in every state of every run.
LEMMA Inductive == Spec => []IndInv
BY InitInv, NextInv, PTL DEF Spec

----------------------------------------------------------------------------
\* Every variable keeps its type in every run of the system: in particular no
\* transaction ever stores the outcome of an illegal transition, no retry counts
\* past max-attempts, and no answer is delivered to a thread that has moved on.
THEOREM TypeCorrect == Spec => []TypeOK
<1>1. IndInv => TypeOK
  BY DEF IndInv, TypeOK, Rows, Leases, Pool, Threads, Deciders, Runs
<1> QED
  BY <1>1, Inductive, PTL

\* However many threads, retries, Redis errors, expiries and restarts: a worker that
\* has not lost its lease is the registered owner of its job until it releases it.
THEOREM LeaseKept == Spec => []HolderKeepsLease
<1>1. IndInv => HolderKeepsLease
  BY DEF IndInv
<1> QED
  BY <1>1, Inductive, PTL

----------------------------------------------------------------------------
(***************************************************************************)
(* The rows: the job table implements JobLifecycle, the approval row       *)
(* agrees with it, and a run is started once.                              *)
(*                                                                         *)
(* All three rest on what a transaction still knows when it writes: what   *)
(* it read is what the row holds as long as the version has not moved      *)
(* (Informed, Consulted); a job anyone works on has been accepted (Known); *)
(* and nobody waits for an approval that was not requested (Asking).       *)
(***************************************************************************)

Reading == {"preparing", "persisting", "failing"}

\* What record r of a thread claims about the rows st, vs and ap.
Informed(r, st, vs, ap) ==
  /\ r.pc \notin {"absent", "idle"} => st[r.job] # "NONE"
  /\ r.pc \in Reading => /\ r.ver <= vs[r.job]
                         /\ r.ver = vs[r.job] => r.st = st[r.job]
  /\ r.res = "WAITING_APPROVAL" => r.job \in Jobs /\ ap[r.job] # "NONE"

\* What the transaction d of job j claims: it holds the lock of a pending approval.
Consulted(d, j, st, vs, ap) ==
  d.pc # "idle" => /\ ap[j] = "PENDING"
                   /\ st[j] # "NONE"
                   /\ d.ver <= vs[j]
                   /\ d.ver = vs[j] => d.st = st[j]

\* The approval and the status of one job, with the two statuses no transaction of
\* the platform leaves behind.
Matched(s, a) ==
  /\ a = "APPROVED" => s \in {"RUNNING", "COMPLETED", "FAILED"}
  /\ a = "REJECTED" => s = "REJECTED"
  /\ s = "WAITING_APPROVAL" => a = "PENDING"
  /\ s = "RUNNING" => a = "APPROVED"
  /\ s \in {"NONE", "CREATED", "PLANNING"} => a = "NONE"
  /\ s \notin {"VALIDATING", "CANCELLED"}

ThreadsInformed == \A w \in Workers : Informed(worker[w], status, version, approval)

DecidersConsulted == \A j \in Jobs : Consulted(decider[j], j, status, version, approval)

RowsMatched == \A j \in Jobs : Matched(status[j], approval[j])

Known == /\ \A j \in recovery : status[j] # "NONE"
         /\ \A n \in DOMAIN queue : status[queue[n]] # "NONE"

Asking == /\ \A i \in Invocations : inv[i].ph \in {"asked", "reask"} => approval[inv[i].job] # "NONE"
          /\ \A j \in Jobs : run[j] = "waiting" => approval[j] # "NONE"

\* The thread that waits for an invocation works on its job.
Linked == \A i \in Invocations :
            inv[i].client \in Workers => worker[inv[i].client].job = inv[i].job

RowInv == /\ IndInv
          /\ ThreadsInformed /\ DecidersConsulted /\ RowsMatched
          /\ Known /\ Asking /\ Linked

\* Where a handler that found no checkpoint stands: its worker waits and holds the
\* lease, or a crash of the platform left the lease behind.
NewInvocations ==
  \A i \in Invocations : inv[i].ph = "new" =>
    \/ inv[i].client \in Workers
    \/ inv[i].client = None /\ lease[inv[i].job] = "orphan"

\* An invocation that has begun has a run.
BegunRuns ==
  \A i \in Invocations : inv[i].ph \notin {"free", "new"} => run[inv[i].job] # "none"

NoneLost == \A w \in Workers : ~worker[w].lost

StartInv == RowInv /\ NoneLost /\ NewInvocations /\ BegunRuns /\ RunStartedOnce

----------------------------------------------------------------------------
(* The state machine *)

\* A status behind an allowed transition is one step away.
LEMMA StepsOf ==
  ASSUME NEW S, NEW u \in S, NEW t \in Allowed(u)
  PROVE  t \in Steps(S)
BY Zenon DEF Steps

\* A chain of up to four allowed transitions ends within reach.
LEMMA ReachChain ==
  ASSUME NEW s, NEW a \in Allowed(s)
  PROVE  /\ a \in Reach(s)
         /\ \A b \in Allowed(a) :
              /\ b \in Reach(s)
              /\ \A c \in Allowed(b) :
                   /\ c \in Reach(s)
                   /\ \A d \in Allowed(c) : d \in Reach(s)
<1> DEFINE r1 == Steps({s})
           r2 == r1 \cup Steps(r1)
           r3 == r2 \cup Steps(r2)
           r4 == r3 \cup Steps(r3)
<1>1. Reach(s) = r4 \cup Steps(r4)
  BY Zenon DEF Reach
<1>2. a \in r1
  BY StepsOf
<1> HIDE DEF r1
<1>3. \A b \in Allowed(a) : b \in r2
  BY <1>2, StepsOf
<1>4. r1 \subseteq r2
  OBVIOUS
<1> HIDE DEF r2
<1>5. \A b \in Allowed(a) : \A c \in Allowed(b) : c \in r3
  BY <1>3, StepsOf
<1>6. r2 \subseteq r3
  OBVIOUS
<1> HIDE DEF r3
<1>7. \A b \in Allowed(a) : \A c \in Allowed(b) : \A d \in Allowed(c) : d \in r4
  BY <1>5, StepsOf
<1>8. r3 \subseteq r4
  OBVIOUS
<1> HIDE DEF r4
<1> QED
  BY <1>1, <1>2, <1>3, <1>4, <1>5, <1>6, <1>7, <1>8

\* ALLOWED_TRANSITIONS, as far as the platform's transactions use it.
LEMMA AllowedMoves ==
  /\ "PLANNING" \in Allowed("CREATED") /\ "FAILED" \in Allowed("CREATED")
  /\ "VALIDATING" \in Allowed("PLANNING") /\ "FAILED" \in Allowed("PLANNING")
  /\ {"RUNNING", "WAITING_APPROVAL", "REJECTED", "FAILED"} \subseteq Allowed("VALIDATING")
  /\ {"RUNNING", "REJECTED", "FAILED"} \subseteq Allowed("WAITING_APPROVAL")
  /\ {"COMPLETED", "FAILED"} \subseteq Allowed("RUNNING")
BY DEF Allowed

\* Status t is s or lies ahead of it.
Ahead(s, t) == t = s \/ t \in Reach(s)

\* What is ahead of each status that is not final.
LEMMA ReachTable ==
  /\ \A t \in {"PLANNING", "VALIDATING", "WAITING_APPROVAL", "RUNNING", "COMPLETED",
               "REJECTED", "FAILED"} : t \in Reach("CREATED")
  /\ \A t \in {"VALIDATING", "WAITING_APPROVAL", "RUNNING", "COMPLETED", "REJECTED",
               "FAILED"} : t \in Reach("PLANNING")
  /\ \A t \in {"WAITING_APPROVAL", "RUNNING", "COMPLETED", "REJECTED", "FAILED"} :
       t \in Reach("VALIDATING")
  /\ \A t \in {"RUNNING", "COMPLETED", "REJECTED", "FAILED"} : t \in Reach("WAITING_APPROVAL")
  /\ \A t \in {"COMPLETED", "FAILED"} : t \in Reach("RUNNING")
<1>1. \A t \in {"COMPLETED", "FAILED"} : t \in Reach("RUNNING")
  BY AllowedMoves, ReachChain
<1>2. \A t \in {"RUNNING", "COMPLETED", "REJECTED", "FAILED"} : t \in Reach("WAITING_APPROVAL")
  BY AllowedMoves, ReachChain
<1>3. \A t \in {"WAITING_APPROVAL", "RUNNING", "COMPLETED", "REJECTED", "FAILED"} :
        t \in Reach("VALIDATING")
  BY AllowedMoves, ReachChain
<1>4. \A t \in {"VALIDATING", "WAITING_APPROVAL", "RUNNING", "COMPLETED", "REJECTED",
                "FAILED"} : t \in Reach("PLANNING")
  BY AllowedMoves, ReachChain
<1>5. \A t \in {"PLANNING", "VALIDATING", "WAITING_APPROVAL", "RUNNING", "COMPLETED",
                "REJECTED", "FAILED"} : t \in Reach("CREATED")
  BY AllowedMoves, ReachChain
<1> QED
  BY <1>1, <1>2, <1>3, <1>4, <1>5

\* The worker's advance goes forward,
LEMMA AdvanceAhead ==
  ASSUME NEW s \in Status, NEW r \in Results, Advance(s, r) # Invalid
  PROVE  Ahead(s, Advance(s, r))
<1>1. CASE s = "CREATED"
  <2>1. Advance(s, r) \in {"PLANNING", "WAITING_APPROVAL", "COMPLETED", "REJECTED", "FAILED"}
    BY <1>1 DEF Results, Advance, Transition, CanTransition, Allowed, Invalid
  <2> QED
    BY <1>1, <2>1, ReachTable, SMTT(30) DEF Ahead
<1>2. CASE s = "PLANNING"
  <2>1. Advance(s, r) \in {"PLANNING", "WAITING_APPROVAL", "COMPLETED", "REJECTED", "FAILED"}
    BY <1>2 DEF Results, Advance, Transition, CanTransition, Allowed, Invalid
  <2> QED
    BY <1>2, <2>1, ReachTable, SMTT(30) DEF Ahead
<1>3. CASE s = "VALIDATING"
  <2>1. Advance(s, r) \in {"VALIDATING", "WAITING_APPROVAL", "COMPLETED", "REJECTED", "FAILED"}
    BY <1>3 DEF Results, Advance, Transition, CanTransition, Allowed, Invalid
  <2> QED
    BY <1>3, <2>1, ReachTable, SMTT(30) DEF Ahead
<1>4. CASE s = "WAITING_APPROVAL"
  <2>1. Advance(s, r) \in {"WAITING_APPROVAL", "COMPLETED", "REJECTED", "FAILED"}
    BY <1>4 DEF Results, Advance, Transition, CanTransition, Allowed, Invalid
  <2> QED
    BY <1>4, <2>1, ReachTable, SMTT(30) DEF Ahead
<1>5. CASE s = "RUNNING"
  <2>1. Advance(s, r) \in {"RUNNING", "COMPLETED", "FAILED"}
    <3>1. Advance(s, r) = IF r = "PLANNING" THEN s ELSE IF s # r THEN Transition(s, r) ELSE s
      BY <1>5 DEF Advance
    <3>2. Allowed(s) = {"COMPLETED", "FAILED", "CANCELLED"}
      BY <1>5 DEF Allowed
    <3> QED
      BY <1>5, <3>1, <3>2 DEF Results, Transition, CanTransition, Invalid
  <2> QED
    BY <1>5, <2>1, ReachTable, SMTT(30) DEF Ahead
<1>6. CASE s \in Terminal
  <2>1. Allowed(s) = {}
    BY <1>6 DEF Terminal, Allowed
  <2>2. s \notin {"CREATED", "PLANNING", "RUNNING"}
    BY <1>6 DEF Terminal
  <2>3. Advance(s, r) = s
    BY <2>1, <2>2 DEF Results, Advance, Transition, CanTransition, Invalid
  <2> QED
    BY <2>3 DEF Ahead
<1> QED
  BY <1>1, <1>2, <1>3, <1>4, <1>5, <1>6 DEF Status, Terminal

\* the approval request's advanceToWaiting does,
LEMMA WaitingAhead ==
  ASSUME NEW s \in Status, AdvanceToWaiting(s) # Invalid
  PROVE  Ahead(s, AdvanceToWaiting(s)) /\ AdvanceToWaiting(s) = "WAITING_APPROVAL"
<1>1. s \in {"CREATED", "PLANNING", "VALIDATING", "WAITING_APPROVAL"}
  BY DEF Status, AdvanceToWaiting, Transition, CanTransition, Allowed, Invalid
<1>2. AdvanceToWaiting(s) = "WAITING_APPROVAL"
  BY DEF AdvanceToWaiting, Transition
<1> QED
  BY <1>1, <1>2, ReachTable DEF Ahead

\* and so does a decision, to where that decision leads.
LEMMA DecisionAhead ==
  ASSUME NEW s \in Status, NEW d \in Decisions, NEW r, AfterDecision(s, d, r) # Invalid
  PROVE  /\ Ahead(s, AfterDecision(s, d, r))
         /\ d = "REJECTED" => AfterDecision(s, d, r) = "REJECTED"
         /\ d = "APPROVED" => AfterDecision(s, d, r) \in {"RUNNING", "COMPLETED", "FAILED"}
<1>1. CASE d = "REJECTED"
  <2>1. AfterDecision(s, d, r) = "REJECTED" /\ s \in {"VALIDATING", "WAITING_APPROVAL", "REJECTED"}
    BY <1>1 DEF AfterDecision, Transition, CanTransition, Allowed, Status, Invalid
  <2> QED
    BY <1>1, <2>1, ReachTable DEF Ahead
<1>2. CASE d = "APPROVED"
  <2>1. /\ AfterDecision(s, d, r) \in {"RUNNING", "COMPLETED", "FAILED"}
        /\ s \in {"VALIDATING", "WAITING_APPROVAL", "RUNNING"}
    BY <1>2 DEF AfterDecision, Transition, CanTransition, Allowed, Status, Invalid
  <2> QED
    BY <1>2, <2>1, ReachTable DEF Ahead
<1> QED
  BY <1>1, <1>2 DEF Decisions

\* A job that is not finished may always fail.
LEMMA FailAhead ==
  ASSUME NEW s \in Status \ Terminal
  PROVE  Transition(s, "FAILED") = "FAILED" /\ Ahead(s, "FAILED")
<1>1. Transition(s, "FAILED") = "FAILED"
  BY DEF Status, Terminal, Transition, CanTransition, Allowed, Invalid
<1>2. s \in {"CREATED", "PLANNING", "VALIDATING", "WAITING_APPROVAL", "RUNNING"}
  BY DEF Status, Terminal
<1> QED
  BY <1>1, <1>2, ReachTable DEF Ahead

\* A result the worker writes keeps the two rows in agreement, provided that
\* WAITING_APPROVAL is reported only of an approval that was requested.
LEMMA AdvanceMatched ==
  ASSUME NEW s \in Status, NEW a \in ApprovalStatus, NEW r \in Results, Matched(s, a),
         Advance(s, r) # Invalid, r = "WAITING_APPROVAL" => a # "NONE"
  PROVE  Matched(Advance(s, r), a)
<1>1. CASE s \in {"CREATED", "PLANNING"}
  <2>1. a = "NONE" /\ r # "WAITING_APPROVAL"
    BY <1>1 DEF Matched
  <2>2. Advance(s, r) \in {"PLANNING", "COMPLETED", "REJECTED", "FAILED"}
    <3>1. r \in {"PLANNING", "COMPLETED", "FAILED", "REJECTED"}
      BY <2>1 DEF Results
    <3>2. /\ Transition("CREATED", "PLANNING") = "PLANNING"
          /\ Transition("PLANNING", "VALIDATING") = "VALIDATING"
          /\ Transition("VALIDATING", "RUNNING") = "RUNNING"
      BY DEF Transition, CanTransition, Allowed, Invalid
    <3>3. /\ Transition("RUNNING", "COMPLETED") = "COMPLETED"
          /\ Transition("VALIDATING", "REJECTED") = "REJECTED"
          /\ Transition("PLANNING", "FAILED") = "FAILED"
      BY DEF Transition, CanTransition, Allowed, Invalid
    <3> QED
      BY <1>1, <3>1, <3>2, <3>3 DEF Advance
  <2> QED
    BY <2>1, <2>2 DEF Matched
<1>2. CASE s = "WAITING_APPROVAL"
  <2>1. a = "PENDING"
    BY <1>2 DEF Matched
  <2>2. Advance(s, r) \in {"WAITING_APPROVAL", "COMPLETED", "REJECTED", "FAILED"}
    <3>1. Allowed(s) = {"RUNNING", "REJECTED", "FAILED", "CANCELLED"}
      BY <1>2 DEF Allowed
    <3>2. Transition(s, "RUNNING") = "RUNNING" /\ Transition("RUNNING", "COMPLETED") = "COMPLETED"
      BY <1>2 DEF Transition, CanTransition, Allowed, Invalid
    <3>3. \A t \in {"REJECTED", "FAILED"} : Transition(s, t) = t
      BY <1>2, <3>1 DEF Transition, CanTransition, Invalid
    <3> QED
      BY <1>2, <3>2, <3>3 DEF Results, Advance
  <2> QED
    BY <2>1, <2>2 DEF Matched
<1>3. CASE s = "RUNNING"
  <2>1. a = "APPROVED"
    BY <1>3 DEF Matched
  <2>2. Advance(s, r) \in {"RUNNING", "COMPLETED", "FAILED"}
    <3>1. Advance(s, r) = IF r = "PLANNING" THEN s ELSE IF s # r THEN Transition(s, r) ELSE s
      BY <1>3 DEF Advance
    <3>2. Allowed(s) = {"COMPLETED", "FAILED", "CANCELLED"}
      BY <1>3 DEF Allowed
    <3> QED
      BY <1>3, <3>1, <3>2 DEF Results, Transition, CanTransition, Invalid
  <2> QED
    BY <2>1, <2>2 DEF Matched
<1>4. CASE s \in Terminal
  <2>1. Allowed(s) = {}
    BY <1>4 DEF Terminal, Allowed
  <2>2. s \notin {"CREATED", "PLANNING", "RUNNING"}
    BY <1>4 DEF Terminal
  <2>3. Advance(s, r) = s
    BY <2>1, <2>2 DEF Results, Advance, Transition, CanTransition, Invalid
  <2> QED
    BY <2>3
<1> QED
  BY <1>1, <1>2, <1>3, <1>4 DEF Status, Terminal, Matched

\* advance needs a result,
LEMMA NoResultInvalid == ASSUME NEW s \in Status PROVE Advance(s, "none") = Invalid
BY ZenonT(60) DEF Status, Advance, Transition, CanTransition, Allowed, Invalid

\* and computes a status.
LEMMA AdvanceStatus ==
  ASSUME NEW s \in Status, NEW r \in Results, Advance(s, r) # Invalid
  PROVE  Advance(s, r) \in Status
<1>1. \A x : Transition(x, r) \in {r, Invalid} /\ r \in Status
  BY DEF Transition, Results, Status
<1>2. CASE r = "PLANNING"
  BY <1>2 DEF Advance, Transition, Status
<1>3. CASE r # "PLANNING"
  BY <1>1, <1>3 DEF Advance
<1> QED
  BY <1>2, <1>3

----------------------------------------------------------------------------
(* What a step does to the rows *)

Accepts(j) == /\ status[j] = "NONE"
              /\ status' = [status EXCEPT ![j] = "CREATED"]
              /\ UNCHANGED <<version, approval>>

\* One transaction on an accepted job: forward, with a new version, to rows that
\* agree.  A decision that is under way keeps the approval locked.
Writes(j, s, a) ==
  /\ status' = [status EXCEPT ![j] = s]
  /\ version' = [version EXCEPT ![j] = version[j] + 1]
  /\ approval' = [approval EXCEPT ![j] = a]
  /\ status[j] # "NONE" /\ s \in Status /\ Ahead(status[j], s)
  /\ a \in ApprovalStatus /\ Matched(s, a)
  /\ a # approval[j] => a # "NONE" /\ (approval[j] = "NONE" \/ decider'[j].pc = "idle")

RowChange ==
  \/ UNCHANGED dbVars
  \/ \E j \in Jobs : \/ Accepts(j)
                     \/ \E s \in Status, a \in ApprovalStatus : Writes(j, s, a)

\* A write of the job row alone, as the worker and the recovery do it.
LEMMA WriteJobWrites ==
  ASSUME Rows, NEW j \in Jobs, NEW s \in Status, status[j] # "NONE",
         status' = [status EXCEPT ![j] = s], version' = [version EXCEPT ![j] = @ + 1],
         UNCHANGED approval, Ahead(status[j], s), Matched(s, approval[j])
  PROVE  RowChange
<1>1. Writes(j, s, approval[j]) /\ approval[j] \in ApprovalStatus
  BY DEF Rows, Writes
<1> QED
  BY <1>1 DEF RowChange

\* A job that is not finished can fail in agreement with its approval, unless that
\* was rejected: then it is finished.
LEMMA FailMatched ==
  ASSUME NEW s \in Status \ Terminal, NEW a, Matched(s, a)
  PROVE  Matched("FAILED", a)
BY DEF Matched, Terminal, Status

\* A thread that reads a job and finds its version unmoved writes on what it read.
LEMMA CurrentRead ==
  ASSUME RowInv, NEW w \in Workers, worker[w].pc \in Reading, Current(w)
  PROVE  /\ worker[w].job \in Jobs
         /\ status[worker[w].job] = worker[w].st
         /\ worker[w].st \in Status
         /\ Matched(worker[w].st, approval[worker[w].job])
<1>1. worker[w].job \in Jobs
  BY DEF RowInv, IndInv, Threads, Legal, Reading
<1>2. status[worker[w].job] = worker[w].st /\ worker[w].st # "NONE"
  BY <1>1 DEF RowInv, ThreadsInformed, Informed, Current, Reading
<1> QED
  BY <1>1, <1>2 DEF RowInv, IndInv, Rows, RowsMatched

\* prepare writes PLANNING,
LEMMA CommitPrepareRows ==
  ASSUME RowInv, NEW w \in Workers, CommitPrepare(w)
  PROVE  RowChange
<1>1. CASE Current(w)
  <2>1. /\ worker[w].job \in Jobs
        /\ status[worker[w].job] = "CREATED" /\ worker[w].st = "CREATED"
        /\ Matched("CREATED", approval[worker[w].job])
    BY <1>1, CurrentRead DEF CommitPrepare, Reading, RowInv, IndInv, Threads, Legal
  <2>2. Transition("CREATED", "PLANNING") = "PLANNING"
    BY DEF Transition, CanTransition, Allowed, Invalid
  <2>3. Ahead("CREATED", "PLANNING") /\ Matched("PLANNING", approval[worker[w].job])
    BY <2>1, ReachTable DEF Ahead, Matched
  <2>4. WriteJob(worker[w].job, "PLANNING")
    BY <1>1, <2>1, <2>2 DEF CommitPrepare
  <2> QED
    BY <2>1, <2>3, <2>4, WriteJobWrites DEF WriteJob, RowInv, IndInv, Status
<1> QED
  BY <1>1 DEF CommitPrepare, RowChange

\* persistResult where the agent's run stands,
LEMMA CommitResultRows ==
  ASSUME RowInv, NEW w \in Workers, CommitResult(w)
  PROVE  RowChange
<1> DEFINE j == worker[w].job
           target == Advance(worker[w].st, worker[w].res)
<1>1. CASE UNCHANGED dbVars
  BY <1>1 DEF RowChange
<1>2. CASE Current(w) /\ WriteJob(j, target)
  <2>1. /\ j \in Jobs /\ status[j] = worker[w].st /\ worker[w].st \in Status
        /\ Matched(worker[w].st, approval[j])
    BY <1>2, CurrentRead DEF CommitResult, Reading
  <2>2. target # Invalid /\ worker[w].pc = "persisting"
    BY DEF CommitResult, RowInv, IndInv, Threads, Legal
  <2>3. worker[w].res \in Results
    BY <2>1, <2>2, NoResultInvalid DEF RowInv, IndInv, Threads, Worker
  <2>4. Ahead(worker[w].st, target) /\ target \in Status
    BY <2>1, <2>2, <2>3, AdvanceAhead, AdvanceStatus
  <2>5. Matched(target, approval[j])
    BY <2>1, <2>2, <2>3, AdvanceMatched
       DEF RowInv, IndInv, Rows, ThreadsInformed, Informed
  <2>6. status[j] # "NONE"
    BY <2>1 DEF Status
  <2> HIDE DEF target, j
  <2> QED
    BY <1>2, <2>1, <2>4, <2>5, <2>6, WriteJobWrites DEF WriteJob, RowInv, IndInv
<1> QED
  BY <1>1, <1>2 DEF CommitResult

\* fail,
LEMMA CommitFailRows ==
  ASSUME RowInv, NEW w \in Workers, CommitFail(w)
  PROVE  RowChange
<1>1. CASE Current(w)
  <2>1. /\ worker[w].job \in Jobs /\ status[worker[w].job] = worker[w].st
        /\ worker[w].st \in Status \ Terminal
        /\ Matched(worker[w].st, approval[worker[w].job])
    BY <1>1, CurrentRead DEF CommitFail, Reading, RowInv, IndInv, Threads, Legal
  <2>2. /\ WriteJob(worker[w].job, "FAILED") /\ Ahead(worker[w].st, "FAILED")
        /\ Matched("FAILED", approval[worker[w].job])
    BY <1>1, <2>1, FailAhead, FailMatched DEF CommitFail
  <2> QED
    BY <2>1, <2>2, WriteJobWrites DEF WriteJob, RowInv, IndInv, Status
<1> QED
  BY <1>1 DEF CommitFail, RowChange

\* the recovery of a job the pool rejects,
LEMMA RecoverRows ==
  ASSUME RowInv, NEW j \in Jobs, Recover(j)
  PROVE  RowChange
<1>1. CASE UNCHANGED <<status, version>>
  BY <1>1 DEF Recover, RowChange, dbVars
<1>2. CASE /\ ~Dead(j)
           /\ status' = [status EXCEPT ![j] = Transition(status[j], "FAILED")]
           /\ version' = [version EXCEPT ![j] = @ + 1]
  <2>1. status[j] \in Status \ Terminal
    BY <1>2 DEF Dead, RowInv, IndInv, Rows
  <2>2. /\ status' = [status EXCEPT ![j] = "FAILED"] /\ Ahead(status[j], "FAILED")
        /\ Matched("FAILED", approval[j]) /\ UNCHANGED approval
    BY <1>2, <2>1, FailAhead, FailMatched DEF RowInv, RowsMatched, Recover
  <2> QED
    BY <1>2, <2>1, <2>2, WriteJobWrites DEF RowInv, IndInv, Status
<1> QED
  BY <1>1, <1>2 DEF Recover

\* the callback that requests the approval,
LEMMA AskRows ==
  ASSUME RowInv, NEW i \in Invocations, Ask(i)
  PROVE  RowChange
<1> DEFINE j == inv[i].job
<1>1. j \in Jobs
  BY DEF Ask, InGraph, RowInv, IndInv, Runs
<1>2. CASE approval[j] # "NONE"
  BY <1>2 DEF Ask, Request, RowChange
<1>3. CASE approval[j] = "NONE"
  <2>1. AdvanceToWaiting(status[j]) # Invalid
    BY <1>3 DEF Ask, Refused
  <2>2. status[j] \in Status
    <3>1. AdvanceToWaiting("NONE") = Invalid
      BY DEF AdvanceToWaiting, Transition, CanTransition, Allowed, Invalid
    <3> QED
      BY <1>1, <2>1, <3>1 DEF RowInv, IndInv, Rows
  <2>3. AdvanceToWaiting(status[j]) = "WAITING_APPROVAL" /\ Ahead(status[j], "WAITING_APPROVAL")
    BY <2>1, <2>2, WaitingAhead
  <2>4. /\ status' = [status EXCEPT ![j] = "WAITING_APPROVAL"]
        /\ version' = [version EXCEPT ![j] = version[j] + 1]
        /\ approval' = [approval EXCEPT ![j] = "PENDING"]
    BY <1>1, <1>3, <2>3 DEF Ask, Request
  <2>5. Matched("WAITING_APPROVAL", "PENDING")
    BY DEF Matched
  <2> HIDE DEF j
  <2>6. Writes(j, "WAITING_APPROVAL", "PENDING")
    BY <1>3, <2>2, <2>3, <2>4, <2>5 DEF Writes, Status, ApprovalStatus
  <2> QED
    BY <1>1, <2>6 DEF RowChange, Status, ApprovalStatus
<1> QED
  BY <1>2, <1>3

\* and the decision.
LEMMA CommitDecisionRows ==
  ASSUME RowInv, NEW j \in Jobs, CommitDecision(j)
  PROVE  RowChange
<1> DEFINE d == decider[j]
           target == AfterDecision(d.st, d.decision, d.res)
<1>1. CASE UNCHANGED dbVars
  BY <1>1 DEF RowChange
<1>2. CASE /\ target # Invalid /\ version[j] = d.ver
           /\ status' = [status EXCEPT ![j] = target]
           /\ version' = [version EXCEPT ![j] = @ + 1]
           /\ approval' = [approval EXCEPT ![j] = d.decision]
  <2>1. d.pc = "commit" /\ d.decision \in Decisions
    BY DEF CommitDecision, RowInv, IndInv, Deciders, Active
  <2>2. status[j] = d.st /\ d.st \in Status /\ d.st # "NONE"
    BY <1>2, <2>1 DEF RowInv, IndInv, Rows, DecidersConsulted, Consulted
  <2>3. Ahead(status[j], target) /\ target \in Status /\ Matched(target, d.decision)
    BY <1>2, <2>1, <2>2, DecisionAhead DEF Matched, Decisions, Status
  <2>4. decider'[j].pc = "idle"
    BY DEF CommitDecision, RowInv, IndInv, Deciders, NoDecider
  <2>5. d.decision \in ApprovalStatus /\ d.decision # "NONE"
    BY <2>1 DEF Decisions, ApprovalStatus
  <2> HIDE DEF d, target
  <2>6. Writes(j, target, d.decision)
    BY <1>2, <2>2, <2>3, <2>4, <2>5 DEF Writes
  <2> QED
    BY <2>3, <2>5, <2>6 DEF RowChange
<1> QED
  BY <1>1, <1>2 DEF CommitDecision

\* Those are the only transactions: every step of the system changes the rows in
\* one of these ways.
LEMMA RowsChange == ASSUME RowInv, Next PROVE RowChange
<1>1. ASSUME NEW j \in Jobs, Create(j) PROVE RowChange
  BY <1>1 DEF Create, Accepts, RowChange
<1>2. ASSUME NEW w \in Workers, WorkerStep(w) \/ Retire(w) PROVE RowChange
  <2>1. CASE CommitPrepare(w) \/ CommitResult(w) \/ CommitFail(w)
    BY <2>1, CommitPrepareRows, CommitResultRows, CommitFailRows
  <2> QED
    BY <1>2, <2>1 DEF WorkerStep, Retire, Take, Acquire, Release, Prepare, CallAgent,
                      PersistResult, Fail, RowChange
<1>3. ASSUME NEW i \in Invocations, InvocationStep(i) \/ GiveUp(i) PROVE RowChange
  <2>1. CASE Ask(i)
    BY <2>1, AskRows
  <2> QED
    BY <1>3, <2>1 DEF InvocationStep, GiveUp, Begin, Finish, Interrupt, NodeFails, Decided,
                      DecidedFails, RowChange
<1>4. ASSUME NEW j \in Jobs, \/ Expire(j) \/ DeciderStep(j)
                            \/ \E d \in Decisions : Decide(j, d)
      PROVE  RowChange
  <2>1. CASE CommitDecision(j)
    BY <2>1, CommitDecisionRows
  <2> QED
    BY <1>4, <2>1 DEF Expire, DeciderStep, Resume, Decide, RowChange
<1>5. CASE RecoveryStep
  BY <1>5, RecoverRows
  DEF RecoveryStep, Restart, RecoverUnfinishedJobs, RecoveryDone, RowChange
<1>6. CASE Crash \/ AgentCrash
  BY <1>6 DEF Crash, AgentCrash, RowChange
<1> QED
  BY <1>1, <1>2, <1>3, <1>4, <1>5, <1>6 DEF Next

\* The rows agree after every step.
LEMMA RowsStayMatched ==
  ASSUME Rows, RowsMatched, RowChange
  PROVE  RowsMatched'
<1>1. CASE UNCHANGED dbVars
  BY <1>1 DEF RowsMatched, dbVars
<1>2. ASSUME NEW j \in Jobs, Accepts(j) PROVE RowsMatched'
  <2>1. Matched("CREATED", approval[j])
    BY <1>2 DEF Accepts, RowsMatched, Matched
  <2> QED
    BY <1>2, <2>1 DEF Accepts, Rows, RowsMatched
<1>3. ASSUME NEW j \in Jobs, NEW s \in Status, NEW a \in ApprovalStatus, Writes(j, s, a)
      PROVE  RowsMatched'
  BY <1>3 DEF Writes, Rows, RowsMatched
<1> QED
  BY <1>1, <1>2, <1>3 DEF RowChange

\* A job stays accepted, and its approval requested.
LEMMA RowsGrow ==
  ASSUME Rows, RowChange, NEW k \in Jobs
  PROVE  /\ status[k] # "NONE" => status'[k] # "NONE"
         /\ approval[k] # "NONE" => approval'[k] # "NONE"
<1>1. CASE UNCHANGED dbVars
  BY <1>1 DEF dbVars
<1>2. ASSUME NEW j \in Jobs, Accepts(j)
      PROVE  /\ status[k] # "NONE" => status'[k] # "NONE"
             /\ approval[k] # "NONE" => approval'[k] # "NONE"
  BY <1>2 DEF Accepts, Rows
<1>3. ASSUME NEW j \in Jobs, NEW s \in Status, NEW a \in ApprovalStatus, Writes(j, s, a)
      PROVE  /\ status[k] # "NONE" => status'[k] # "NONE"
             /\ approval[k] # "NONE" => approval'[k] # "NONE"
  BY <1>3 DEF Writes, Rows, Status
<1> QED
  BY <1>1, <1>2, <1>3 DEF RowChange

\* What was read of an accepted job stays true of its version, whoever writes it.
LEMMA ReadStands ==
  ASSUME Rows, RowChange, NEW k \in Jobs, status[k] # "NONE", NEW v \in Nat, NEW s,
         v <= version[k], v = version[k] => s = status[k]
  PROVE  v <= version'[k] /\ (v = version'[k] => s = status'[k])
<1>1. CASE UNCHANGED dbVars
  BY <1>1 DEF dbVars
<1>2. ASSUME NEW j \in Jobs, Accepts(j)
      PROVE  v <= version'[k] /\ (v = version'[k] => s = status'[k])
  BY <1>2 DEF Accepts, Rows
<1>3. ASSUME NEW j \in Jobs, NEW t \in Status, NEW a \in ApprovalStatus, Writes(j, t, a)
      PROVE  v <= version'[k] /\ (v = version'[k] => s = status'[k])
  <2>1. CASE j = k
    <3>1. version'[k] = version[k] + 1 /\ version[k] \in Nat
      BY <1>3, <2>1 DEF Writes, Rows
    <3> QED
      BY <3>1
  <2>2. CASE j # k
    BY <1>3, <2>2 DEF Writes, Rows
  <2> QED
    BY <2>1, <2>2
<1> QED
  BY <1>1, <1>2, <1>3 DEF RowChange

----------------------------------------------------------------------------
(* What a step does to a thread, seen from the rows *)

\* A thread that reads the job in this step,
Reads(w) ==
  /\ UNCHANGED dbVars
  /\ worker[w].pc \notin {"absent", "idle"}
  /\ worker'[w].job = worker[w].job
  /\ worker'[w].res = worker[w].res
  /\ worker'[w].st = status[worker[w].job]
  /\ worker'[w].ver = version[worker[w].job]

\* one that goes on without having read it, with a result about its own job,
GoesOn(w) ==
  /\ worker[w].pc \notin {"absent", "idle"}
  /\ worker'[w].pc \notin Reading
  /\ worker'[w].job = worker[w].job
  /\ worker'[w].res = "WAITING_APPROVAL" =>
       worker[w].res = "WAITING_APPROVAL" \/ approval[worker[w].job] # "NONE"

\* one that begins or ends a task, for which no invocation answers it,
Turns(w) ==
  /\ worker[w].pc = "wait" => \A i \in Invocations : inv'[i].client # w
  /\ worker'[w].pc \in {"absent", "idle", "acquire"}
  /\ worker'[w].pc = "acquire" => worker'[w].job \in Jobs /\ status'[worker'[w].job] # "NONE"
  /\ worker'[w].res = "none"

\* and one that stays where it is.
Stays(w) ==
  /\ worker'[w].pc = worker[w].pc /\ worker'[w].job = worker[w].job
  /\ worker'[w].st = worker[w].st /\ worker'[w].ver = worker[w].ver
  /\ worker'[w].res = worker[w].res

ThreadStep(w) == Stays(w) \/ Reads(w) \/ GoesOn(w) \/ Turns(w)

ThreadSteps == \A w \in Workers : ThreadStep(w)

\* After each of them the thread knows what it should.
LEMMA ThreadStepInformed ==
  ASSUME Rows, Threads, ThreadsInformed, RowChange, NEW w \in Workers, ThreadStep(w)
  PROVE  Informed(worker'[w], status', version', approval')
<1> DEFINE r == worker[w]
<1>1. /\ r \in Worker /\ Legal(r) /\ Informed(r, status, version, approval)
      /\ r.ver \in Nat
  BY DEF Threads, ThreadsInformed, Worker
<1>2. CASE Stays(w)
  <2>1. r.pc \notin {"absent", "idle"} => r.job \in Jobs /\ status'[r.job] # "NONE"
    BY <1>1, RowsGrow DEF Legal, Informed
  <2>2. r.pc \in Reading => r.ver <= version'[r.job]
                            /\ (r.ver = version'[r.job] => r.st = status'[r.job])
    BY <1>1, <2>1, ReadStands DEF Informed, Reading
  <2>3. r.res = "WAITING_APPROVAL" => r.job \in Jobs /\ approval'[r.job] # "NONE"
    BY <1>1, RowsGrow DEF Informed
  <2> QED
    BY <1>2, <2>1, <2>2, <2>3 DEF Informed, Stays
<1>3. CASE Reads(w)
  <2>1. r.job \in Jobs /\ status[r.job] # "NONE" /\ version[r.job] \in Nat
    BY <1>1, <1>3 DEF Reads, Legal, Informed, Rows
  <2> QED
    BY <1>1, <1>3, <2>1 DEF Reads, Informed, dbVars
<1>4. CASE GoesOn(w)
  <2>1. r.job \in Jobs /\ status'[r.job] # "NONE"
    BY <1>1, <1>4, RowsGrow DEF GoesOn, Legal, Informed
  <2>2. worker'[w].res = "WAITING_APPROVAL" => approval'[r.job] # "NONE"
    BY <1>1, <1>4, <2>1, RowsGrow DEF GoesOn, Informed
  <2> QED
    BY <1>4, <2>1, <2>2 DEF GoesOn, Informed
<1>5. CASE Turns(w)
  BY <1>5 DEF Turns, Informed, Reading
<1> QED
  BY <1>2, <1>3, <1>4, <1>5 DEF ThreadStep

\* What a step does to the decision of a job: nothing or its end, progress on what
\* it read, or the read under the lock.
DecisionStep(j) ==
  \/ decider'[j].pc = "idle"
  \/ /\ decider[j].pc # "idle"
     /\ decider'[j].st = decider[j].st /\ decider'[j].ver = decider[j].ver
  \/ /\ UNCHANGED dbVars
     /\ approval[j] = "PENDING"
     /\ decider'[j].st = status[j] /\ decider'[j].ver = version[j]

\* After each of them the transaction knows what it should.
LEMMA DecisionStepConsulted ==
  ASSUME Rows, Deciders, RowsMatched, DecidersConsulted, RowChange, NEW j \in Jobs,
         DecisionStep(j)
  PROVE  Consulted(decider'[j], j, status', version', approval')
<1>1. CASE decider'[j].pc = "idle"
  BY <1>1 DEF Consulted
<1>2. CASE /\ decider'[j].pc # "idle" /\ decider[j].pc # "idle"
           /\ decider'[j].st = decider[j].st /\ decider'[j].ver = decider[j].ver
  <2>1. /\ approval[j] = "PENDING" /\ status[j] # "NONE" /\ decider[j].ver <= version[j]
        /\ decider[j].ver = version[j] => decider[j].st = status[j]
    BY <1>2 DEF DecidersConsulted, Consulted
  <2>2. decider[j].ver \in Nat
    BY DEF Deciders, Decider
  <2>3. status'[j] # "NONE"
    BY <2>1, RowsGrow
  <2>4. /\ decider[j].ver <= version'[j]
        /\ decider[j].ver = version'[j] => decider[j].st = status'[j]
    BY <2>1, <2>2, ReadStands
  <2>5. approval'[j] = "PENDING"
    <3>1. ASSUME NEW k \in Jobs, NEW s \in Status, NEW a \in ApprovalStatus, Writes(k, s, a)
          PROVE  approval'[j] = approval[j]
      BY <1>2, <2>1, <3>1 DEF Writes, Rows
    <3> QED
      BY <2>1, <3>1 DEF RowChange, Accepts, dbVars
  <2> QED
    BY <1>2, <2>3, <2>4, <2>5 DEF Consulted
<1>3. CASE /\ UNCHANGED dbVars /\ approval[j] = "PENDING"
           /\ decider'[j].st = status[j] /\ decider'[j].ver = version[j]
  <2>1. status[j] # "NONE" /\ version[j] \in Nat
    BY <1>3 DEF RowsMatched, Matched, Rows
  <2> QED
    BY <1>3, <2>1 DEF Consulted, dbVars
<1> QED
  BY <1>1, <1>2, <1>3 DEF DecisionStep

\* A step that writes the record of one thread only.
LEMMA OneThread ==
  ASSUME Threads, NEW w \in Workers, NEW r, worker' = [worker EXCEPT ![w] = r],
         worker'[w] = r => ThreadStep(w)
  PROVE  ThreadSteps
BY DEF Threads, ThreadSteps, ThreadStep, Stays

\* A step that leaves the threads alone.
LEMMA NoThread == ASSUME UNCHANGED worker PROVE ThreadSteps
BY DEF ThreadSteps, ThreadStep, Stays

\* The updates the worker's actions are made of: a change of position,
LEMMA GotoStep ==
  ASSUME Threads, NEW w \in Workers, worker[w].pc \notin {"absent", "idle"},
         NEW p \in Plain, Goto(w, p)
  PROVE  ThreadSteps
<1> DEFINE r == [worker[w] EXCEPT !.pc = p]
<1>1. r.pc = p /\ r.job = worker[w].job /\ r.res = worker[w].res
  BY DEF Threads, Worker
<1>2. worker' = [worker EXCEPT ![w] = r] /\ p \notin Reading
  BY DEF Goto, Plain, Reading
<1> HIDE DEF r
<1> QED
  BY <1>1, <1>2, OneThread DEF ThreadStep, GoesOn

\* a read of the job row,
LEMMA ReadStep ==
  ASSUME Threads, NEW w \in Workers, worker[w].pc \notin {"absent", "idle"},
         NEW p, ReadJob(w, p), UNCHANGED dbVars
  PROVE  ThreadSteps
<1> DEFINE r == [worker[w] EXCEPT !.pc = p, !.st = status[worker[w].job],
                                  !.ver = version[worker[w].job]]
<1>1. /\ r.job = worker[w].job /\ r.res = worker[w].res
      /\ r.st = status[worker[w].job] /\ r.ver = version[worker[w].job]
  BY DEF Threads, Worker
<1>2. worker' = [worker EXCEPT ![w] = r]
  BY DEF ReadJob
<1> HIDE DEF r
<1> QED
  BY <1>1, <1>2, OneThread DEF ThreadStep, Reads

\* an attempt that starts or has failed,
LEMMA AttemptStep ==
  ASSUME Threads, NEW w \in Workers, worker[w].pc \notin {"absent", "idle"},
         \/ worker' = [worker EXCEPT ![w] = [@ EXCEPT !.pc = "call", !.attempt = 1]]
         \/ worker' = [worker EXCEPT ![w] = AttemptFailed(@)]
  PROVE  ThreadSteps
<1>1. ASSUME NEW r, r.pc \notin Reading, r.job = worker[w].job, r.res = worker[w].res,
             worker' = [worker EXCEPT ![w] = r]
      PROVE  ThreadSteps
  BY <1>1, OneThread DEF ThreadStep, GoesOn
<1> DEFINE a == [worker[w] EXCEPT !.pc = "call", !.attempt = 1]
           b == AttemptFailed(worker[w])
<1>2. a.pc \notin Reading /\ a.job = worker[w].job /\ a.res = worker[w].res
  BY DEF Threads, Worker, Reading
<1>3. b.pc \notin Reading /\ b.job = worker[w].job /\ b.res = worker[w].res
  BY DEF AttemptFailed, Threads, Worker, Reading
<1>4. worker' = [worker EXCEPT ![w] = a] \/ worker' = [worker EXCEPT ![w] = b]
  OBVIOUS
<1> HIDE DEF a, b
<1> QED
  BY <1>1, <1>2, <1>3, <1>4

\* an answer about the job,
LEMMA ResultStep ==
  ASSUME Threads, NEW w \in Workers, worker[w].pc \notin {"absent", "idle"},
         NEW x, x = "WAITING_APPROVAL" => approval[worker[w].job] # "NONE",
         worker' = [worker EXCEPT ![w] = [@ EXCEPT !.pc = "result", !.res = x]]
  PROVE  ThreadSteps
<1> DEFINE r == [worker[w] EXCEPT !.pc = "result", !.res = x]
<1>1. r.pc \notin Reading /\ r.job = worker[w].job /\ r.res = x
  BY DEF Threads, Worker, Reading
<1>2. worker' = [worker EXCEPT ![w] = r]
  OBVIOUS
<1> HIDE DEF r
<1> QED
  BY <1>1, <1>2, OneThread, ZenonT(60) DEF ThreadStep, GoesOn

\* the start of a task and its end.
LEMMA TaskStep ==
  ASSUME Threads, NEW w \in Workers, worker[w].pc # "wait",
         \/ \E j \in Jobs : /\ status'[j] # "NONE"
                            /\ worker' = [worker EXCEPT ![w] = Thread("acquire", j)]
         \/ \E p \in {"absent", "idle"} : worker' = [worker EXCEPT ![w] = Resting(p)]
  PROVE  ThreadSteps
<1>1. ASSUME NEW j \in Jobs, status'[j] # "NONE",
             worker' = [worker EXCEPT ![w] = Thread("acquire", j)]
      PROVE  ThreadSteps
  <2>1. /\ Thread("acquire", j).pc = "acquire" /\ Thread("acquire", j).job = j
        /\ Thread("acquire", j).res = "none"
    BY DEF Thread
  <2> QED
    BY <1>1, <2>1, OneThread DEF ThreadStep, Turns
<1>2. ASSUME NEW p \in {"absent", "idle"}, worker' = [worker EXCEPT ![w] = Resting(p)]
      PROVE  ThreadSteps
  <2>1. Resting(p).pc = p /\ Resting(p).res = "none"
    BY DEF Resting, Thread
  <2> QED
    BY <1>2, <2>1, OneThread DEF ThreadStep, Turns
<1> QED
  BY <1>1, <1>2

\* The pool gives only accepted jobs to threads,
LEMMA PoolThreads ==
  ASSUME RowInv, RowChange, NEW j \in Jobs, Create(j) \/ Recover(j)
  PROVE  ThreadSteps
<1>1. status'[j] # "NONE"
  <2>1. CASE Create(j)
    BY <2>1 DEF Create, RowInv, IndInv, Rows
  <2>2. CASE Recover(j)
    BY <2>2, RowsGrow DEF Recover, RowInv, IndInv, Known
  <2> QED
    BY <2>1, <2>2
<1>2. CASE UNCHANGED worker
  BY <1>2, NoThread
<1>3. CASE Spawn(j)
  BY <1>1, <1>3, TaskStep DEF Spawn, Live, RowInv, IndInv
<1> QED
  BY <1>2, <1>3 DEF Create, Recover, Enqueue

\* a worker passes through its transactions and its call,
LEMMA WorkerThreads ==
  ASSUME RowInv, NEW w \in Workers, WorkerStep(w) \/ Retire(w)
  PROVE  ThreadSteps
<1>0. Threads /\ Rows /\ worker[w] \in Worker
  BY DEF RowInv, IndInv, Threads
<1>1. CASE Take(w)
  <2>1. Head(queue) \in Jobs /\ status'[Head(queue)] # "NONE"
    <3>1. queue \in Seq(Jobs) /\ queue # <<>> /\ UNCHANGED status
      BY <1>1 DEF Take, RowInv, IndInv, Pool, dbVars
    <3>2. Head(queue) \in Jobs /\ 1 \in DOMAIN queue /\ Head(queue) = queue[1]
      BY <3>1
    <3> QED
      BY <3>1, <3>2 DEF RowInv, Known
  <2> QED
    BY <1>0, <1>1, <2>1, TaskStep DEF Take
<1>2. CASE Acquire(w)
  <2>1. ASSUME NEW r, r.pc = "prepare", r.job = worker[w].job, r.res = worker[w].res,
               worker' = [worker EXCEPT ![w] = r]
        PROVE  ThreadSteps
    <3>1. worker[w].pc = "acquire" /\ "prepare" \notin Reading
      BY <1>2 DEF Acquire, Reading
    <3> QED
      BY <1>0, <2>1, <3>1, OneThread DEF ThreadStep, GoesOn
  <2> DEFINE a == [worker[w] EXCEPT !.pc = "prepare"]
             b == [worker[w] EXCEPT !.pc = "prepare", !.lost = TRUE]
  <2>2. /\ a.pc = "prepare" /\ a.job = worker[w].job /\ a.res = worker[w].res
        /\ b.pc = "prepare" /\ b.job = worker[w].job /\ b.res = worker[w].res
    BY <1>0 DEF Worker
  <2>3. \/ worker' = [worker EXCEPT ![w] = a]
        \/ worker' = [worker EXCEPT ![w] = b]
        \/ worker' = [worker EXCEPT ![w] = Resting("idle")]
    BY <1>2 DEF Acquire
  <2>4. worker[w].pc # "wait"
    BY <1>2 DEF Acquire
  <2> HIDE DEF a, b
  <2> QED
    BY <1>0, <2>1, <2>2, <2>3, <2>4, TaskStep
<1>3. CASE Release(w) \/ Retire(w)
  BY <1>0, <1>3, TaskStep DEF Release, Retire
<1>4. CASE Prepare(w)
  BY <1>0, <1>4, GotoStep, ReadStep, AttemptStep DEF Prepare, Plain, Holding
<1>5. CASE CommitPrepare(w)
  BY <1>0, <1>5, GotoStep, AttemptStep DEF CommitPrepare, Plain, Holding
<1>6. CASE CallAgent(w)
  <2>1. \A x \in Inspect(worker[w].job) :
          x = "WAITING_APPROVAL" => approval[worker[w].job] # "NONE"
    <3>1. worker[w].job \in Jobs
      BY <1>0, <1>6 DEF CallAgent, Threads, Legal
    <3> QED
      BY <3>1 DEF RowInv, IndInv, Runs, RunStates, Asking, Inspect
  <2> QED
    BY <1>0, <1>6, <2>1, GotoStep, AttemptStep, ResultStep DEF CallAgent, Plain, Holding
<1>7. CASE PersistResult(w)
  BY <1>0, <1>7, GotoStep, ReadStep DEF PersistResult, Plain, Holding
<1>8. CASE CommitResult(w)
  BY <1>0, <1>8, GotoStep DEF CommitResult, Plain, Holding
<1>9. CASE Fail(w) \/ CommitFail(w)
  BY <1>0, <1>9, GotoStep, ReadStep DEF Fail, CommitFail, Plain, Holding
<1> QED
  BY <1>1, <1>2, <1>3, <1>4, <1>5, <1>6, <1>7, <1>8, <1>9 DEF WorkerStep

\* and an invocation answers its client about the client's own job.
LEMMA ReplyThreads ==
  ASSUME RowInv, NEW i \in Invocations, NEW x,
         x = "WAITING_APPROVAL" => approval[inv[i].job] # "NONE",
         inv[i].client \notin Workers => UNCHANGED worker,
         inv[i].client \in Workers =>
           \/ worker' = [worker EXCEPT ![inv[i].client] = [@ EXCEPT !.pc = "result", !.res = x]]
           \/ worker' = [worker EXCEPT ![inv[i].client] = AttemptFailed(@)]
  PROVE  ThreadSteps
<1> DEFINE c == inv[i].client
<1>1. CASE c \notin Workers
  BY <1>1, NoThread
<1>2. CASE c \in Workers
  <2>1. worker[c].pc = "wait" /\ worker[c].job = inv[i].job /\ Threads
    BY <1>2 DEF RowInv, IndInv, Clients, Linked
  <2>2. x = "WAITING_APPROVAL" => approval[worker[c].job] # "NONE"
    BY <2>1
  <2>3. \/ worker' = [worker EXCEPT ![c] = [@ EXCEPT !.pc = "result", !.res = x]]
        \/ worker' = [worker EXCEPT ![c] = AttemptFailed(@)]
    BY <1>2
  <2> HIDE DEF c
  <2> QED
    BY <1>2, <2>1, <2>2, <2>3, ResultStep, AttemptStep
<1> QED
  BY <1>1, <1>2

\* So do all the steps of an invocation, and its client's timeout.
LEMMA InvocationThreads ==
  ASSUME RowInv, NEW i \in Invocations, InvocationStep(i) \/ GiveUp(i)
  PROVE  ThreadSteps
<1>1. CASE Interrupt(i)
  <2>1. approval[inv[i].job] # "NONE"
    BY <1>1 DEF Interrupt, RowInv, Asking
  <2> QED
    BY <1>1, <2>1, ReplyThreads DEF Interrupt, Reply
<1>2. CASE \E x \in {"COMPLETED", "FAILED", "REJECTED"} : Reply(i, x)
  <2>1. PICK x \in {"COMPLETED", "FAILED", "REJECTED"} : Reply(i, x)
    BY <1>2
  <2>2. x # "WAITING_APPROVAL"
    BY <2>1
  <2> QED
    BY <2>1, <2>2, ReplyThreads DEF Reply
<1>3. CASE Finish(i) \/ Reply(i, "REJECTED")
  BY <1>2, <1>3 DEF Finish
<1>4. CASE ReplyError(i)
  <2>1. PICK x \in {"FAILED"} :
          /\ inv[i].client \notin Workers => UNCHANGED worker
          /\ inv[i].client \in Workers =>
               worker' = [worker EXCEPT ![inv[i].client] = [@ EXCEPT !.pc = "result", !.res = x]]
    BY <1>4 DEF ReplyError
  <2>2. x # "WAITING_APPROVAL"
    BY <2>1
  <2> QED
    BY <2>1, <2>2, ReplyThreads
<1>5. CASE UNCHANGED worker
  BY <1>5, NoThread
<1>6. CASE GiveUp(i)
  <2>1. "none" # "WAITING_APPROVAL"
    OBVIOUS
  <2> QED
    BY <1>6, <2>1, ReplyThreads DEF GiveUp
<1> QED
  BY <1>1, <1>2, <1>3, <1>4, <1>5, <1>6
  DEF InvocationStep, Begin, Ask, NodeFails, Decided, DecidedFails

\* Every step of the system leaves every thread in one of those ways.
LEMMA NextThreads == ASSUME RowInv, RowChange, Next PROVE ThreadSteps
<1>1. ASSUME NEW j \in Jobs, Create(j) \/ Recover(j) PROVE ThreadSteps
  BY <1>1, PoolThreads
<1>2. ASSUME NEW j \in Jobs, Expire(j) PROVE ThreadSteps
  <2>1. CASE UNCHANGED worker
    BY <2>1, NoThread
  <2>2. CASE worker' = [worker EXCEPT ![lease[j]].lost = TRUE] /\ lease[j] \in Workers
    <3> DEFINE r == [worker[lease[j]] EXCEPT !.lost = TRUE]
               v == lease[j]
    <3>1. /\ r.pc = worker[v].pc /\ r.job = worker[v].job /\ r.st = worker[v].st
          /\ r.ver = worker[v].ver /\ r.res = worker[v].res
      BY <2>2 DEF RowInv, IndInv, Threads, Worker
    <3>2. worker' = [worker EXCEPT ![v] = r] /\ v \in Workers /\ Threads
      BY <2>2 DEF RowInv, IndInv
    <3> HIDE DEF r, v
    <3> QED
      BY <3>1, <3>2, OneThread DEF ThreadStep, Stays
  <2> QED
    BY <1>2, <2>1, <2>2 DEF Expire, RowInv, IndInv, Leases
<1>3. ASSUME NEW w \in Workers, WorkerStep(w) \/ Retire(w) PROVE ThreadSteps
  BY <1>3, WorkerThreads
<1>4. ASSUME NEW i \in Invocations, InvocationStep(i) \/ GiveUp(i) PROVE ThreadSteps
  BY <1>4, InvocationThreads
<1>5. CASE Crash
  <2>1. \A i \in Invocations : inv'[i].client = None
    BY <1>5 DEF Crash, RowInv, IndInv, Runs, Invocation
  <2> QED
    BY <1>5, <2>1, Assumption DEF Crash, ThreadSteps, ThreadStep, Turns, Resting, Thread
<1>6. CASE AgentCrash
  <2> SUFFICES ASSUME NEW w \in Workers PROVE ThreadStep(w)
    BY DEF ThreadSteps
  <2>1. worker'[w] = IF worker[w].pc = "wait" THEN AttemptFailed(worker[w]) ELSE worker[w]
    BY <1>6 DEF AgentCrash
  <2>2. CASE worker[w].pc # "wait"
    BY <2>1, <2>2 DEF ThreadStep, Stays
  <2>3. CASE worker[w].pc = "wait"
    <3> DEFINE b == AttemptFailed(worker[w])
    <3>1. b.pc \notin Reading /\ b.job = worker[w].job /\ b.res = worker[w].res
      BY DEF AttemptFailed, RowInv, IndInv, Threads, Worker, Reading
    <3> HIDE DEF b
    <3> QED
      BY <2>1, <2>3, <3>1 DEF ThreadStep, GoesOn, b
  <2> QED
    BY <2>2, <2>3
<1>7. CASE UNCHANGED worker
  BY <1>7, NoThread
<1> QED
  BY <1>1, <1>2, <1>3, <1>4, <1>5, <1>6, <1>7
  DEF Next, RecoveryStep, DeciderStep, Restart, RecoverUnfinishedJobs, RecoveryDone, Decide,
      Resume, CommitDecision

----------------------------------------------------------------------------
(* What a step does to decisions, queues and invocations *)

DecisionSteps == \A j \in Jobs : DecisionStep(j)

\* A step that leaves the decisions alone.
LEMMA NoDecision == ASSUME UNCHANGED decider PROVE DecisionSteps
BY DEF DecisionSteps, DecisionStep

\* A step that writes the record of one decision only.
LEMMA OneDecision ==
  ASSUME Deciders, NEW j \in Jobs, NEW r, decider' = [decider EXCEPT ![j] = r],
         decider'[j] = r => DecisionStep(j)
  PROVE  DecisionSteps
BY DEF Deciders, DecisionSteps, DecisionStep

\* A decision that rolls back,
LEMMA RollBack ==
  ASSUME Deciders, NEW j \in Jobs, decider' = [decider EXCEPT ![j] = NoDecider]
  PROVE  DecisionSteps
<1>1. NoDecider.pc = "idle"
  BY DEF NoDecider
<1> QED
  BY <1>1, OneDecision DEF DecisionStep

\* and the answers an invocation gives to a decision.
LEMMA ReplyDecisions ==
  ASSUME RowInv, NEW i \in Invocations, NEW x,
         Reply(i, x) \/ ReplyError(i) \/ GiveUp(i)
  PROVE  DecisionSteps
<1> DEFINE c == inv[i].client
<1>1. CASE UNCHANGED decider
  BY <1>1, NoDecision
<1>2. CASE c \in Jobs /\ decider' = [decider EXCEPT ![c] = NoDecider]
  BY <1>2, RollBack DEF RowInv, IndInv
<1>3. CASE c \in Jobs /\ decider' = [decider EXCEPT ![c] = [@ EXCEPT !.pc = "commit", !.res = x]]
  <2> DEFINE r == [decider[c] EXCEPT !.pc = "commit", !.res = x]
  <2>1. r.st = decider[c].st /\ r.ver = decider[c].ver /\ decider[c].pc # "idle"
    BY <1>3 DEF RowInv, IndInv, Deciders, Decider, Clients
  <2>2. decider' = [decider EXCEPT ![c] = r] /\ c \in Jobs /\ Deciders
    BY <1>3 DEF RowInv, IndInv
  <2> HIDE DEF r, c
  <2> QED
    BY <2>1, <2>2, OneDecision DEF DecisionStep
<1> QED
  BY <1>1, <1>2, <1>3 DEF Reply, ReplyError, GiveUp

\* Every step of the system leaves every decision in one of those ways.
LEMMA NextDecisions == ASSUME RowInv, Next PROVE DecisionSteps
<1>1. ASSUME NEW j \in Jobs, NEW d \in Decisions, Decide(j, d) PROVE DecisionSteps
  <2> DEFINE r == [pc |-> "call", decision |-> d, st |-> status[j], ver |-> version[j],
                   res |-> "none"]
  <2>1. r.st = status[j] /\ r.ver = version[j]
    OBVIOUS
  <2>2. /\ decider' = [decider EXCEPT ![j] = r] /\ approval[j] = "PENDING"
        /\ UNCHANGED dbVars /\ Deciders
    BY <1>1 DEF Decide, RowInv, IndInv
  <2> HIDE DEF r
  <2> QED
    BY <2>1, <2>2, OneDecision DEF DecisionStep
<1>2. ASSUME NEW j \in Jobs, DeciderStep(j) PROVE DecisionSteps
  <2>1. CASE decider' = [decider EXCEPT ![j] = NoDecider]
    BY <2>1, RollBack DEF RowInv, IndInv
  <2>2. CASE decider[j].pc = "call" /\ decider' = [decider EXCEPT ![j].pc = "wait"]
    <3> DEFINE r == [decider[j] EXCEPT !.pc = "wait"]
    <3>1. r.st = decider[j].st /\ r.ver = decider[j].ver
      BY DEF RowInv, IndInv, Deciders, Decider
    <3>2. decider' = [decider EXCEPT ![j] = r] /\ Deciders
      BY <2>2 DEF RowInv, IndInv
    <3> HIDE DEF r
    <3> QED
      BY <2>2, <3>1, <3>2, OneDecision DEF DecisionStep
  <2> QED
    BY <1>2, <2>1, <2>2 DEF DeciderStep, Resume, CommitDecision
<1>3. ASSUME NEW i \in Invocations, InvocationStep(i) \/ GiveUp(i) PROVE DecisionSteps
  <2>1. CASE UNCHANGED decider
    BY <2>1, NoDecision
  <2> QED
    BY <1>3, <2>1, ReplyDecisions
    DEF InvocationStep, Begin, Finish, Ask, Interrupt, NodeFails, Decided, DecidedFails
<1>4. CASE Crash \/ AgentCrash
  BY <1>4 DEF Crash, AgentCrash, DecisionSteps, DecisionStep, NoDecider
<1>5. CASE UNCHANGED decider
  BY <1>5, NoDecision
<1>6. ASSUME NEW w \in Workers, WorkerStep(w) \/ Retire(w) PROVE UNCHANGED decider
  BY <1>6 DEF WorkerStep, Retire, Take, Acquire, Release, Prepare, CommitPrepare, CallAgent,
              PersistResult, CommitResult, Fail, CommitFail
<1>7. ASSUME RecoveryStep PROVE UNCHANGED decider
  BY <1>7 DEF RecoveryStep, Restart, RecoverUnfinishedJobs, RecoveryDone, Recover
<1>8. ASSUME NEW j \in Jobs, Create(j) \/ Expire(j) PROVE UNCHANGED decider
  BY <1>8 DEF Create, Expire
<1> QED
  BY <1>1, <1>2, <1>3, <1>4, <1>5, <1>6, <1>7, <1>8 DEF Next

\* The queue and the recovery hold accepted jobs only.
LEMMA NextKnown == ASSUME RowInv, RowChange, Next PROVE Known'
<1>0. Rows /\ queue \in Seq(Jobs) /\ recovery \subseteq Jobs
  BY DEF RowInv, IndInv, Pool
<1>1. \A k \in Jobs : status[k] # "NONE" => status'[k] # "NONE"
  BY <1>0, RowsGrow
<1>2. ASSUME recovery' \subseteq recovery,
             \/ queue' \in {queue, <<>>}
             \/ queue # <<>> /\ queue' = Tail(queue)
             \/ \E j \in Jobs : status'[j] # "NONE" /\ queue' = Append(queue, j)
      PROVE  Known'
  <2>1. \A j \in recovery' : status'[j] # "NONE"
    BY <1>0, <1>1, <1>2 DEF RowInv, Known
  <2>2. \A n \in DOMAIN queue : queue[n] \in Jobs /\ status'[queue[n]] # "NONE"
    BY <1>0, <1>1 DEF RowInv, Known
  <2>3. CASE queue' \in {queue, <<>>}
    BY <2>1, <2>2, <2>3 DEF Known
  <2>4. CASE queue # <<>> /\ queue' = Tail(queue)
    <3>1. \A n \in DOMAIN queue' : n + 1 \in DOMAIN queue /\ queue'[n] = queue[n + 1]
      BY <1>0, <2>4
    <3> QED
      BY <2>1, <2>2, <3>1 DEF Known
  <2>5. ASSUME NEW j \in Jobs, status'[j] # "NONE", queue' = Append(queue, j)
        PROVE  Known'
    <3>1. \A n \in DOMAIN queue' : \/ n \in DOMAIN queue /\ queue'[n] = queue[n]
                                   \/ queue'[n] = j
      BY <1>0, <2>5
    <3> QED
      BY <2>1, <2>2, <2>5, <3>1 DEF Known
  <2> QED
    BY <1>2, <2>3, <2>4, <2>5
<1>3. ASSUME NEW j \in Jobs, Create(j) \/ Recover(j) PROVE Known'
  <2>1. status'[j] # "NONE"
    BY <1>0, <1>1, <1>3 DEF Create, Recover, RowInv, Known, Rows
  <2> QED
    BY <1>2, <1>3, <2>1 DEF Create, Recover, Spawn, Enqueue
<1>4. CASE RecoverUnfinishedJobs
  BY <1>0, <1>4 DEF RecoverUnfinishedJobs, RowInv, Known, dbVars
<1>5. ASSUME NEW w \in Workers, WorkerStep(w) \/ Retire(w) PROVE Known'
  BY <1>2, <1>5
  DEF WorkerStep, Retire, Take, Acquire, Release, Prepare, CommitPrepare, CallAgent,
      PersistResult, CommitResult, Fail, CommitFail, platformVars
<1>6. ASSUME NEW i \in Invocations, InvocationStep(i) \/ GiveUp(i) PROVE Known'
  BY <1>2, <1>6
  DEF InvocationStep, GiveUp, Begin, Finish, Ask, Interrupt, NodeFails, Decided, DecidedFails,
      platformVars
<1>7. ASSUME NEW j \in Jobs, \/ Expire(j) \/ DeciderStep(j) \/ \E d \in Decisions : Decide(j, d)
      PROVE  Known'
  BY <1>2, <1>7 DEF Expire, DeciderStep, Resume, CommitDecision, Decide, platformVars
<1>8. CASE Crash \/ AgentCrash \/ Restart \/ RecoveryDone
  BY <1>2, <1>8 DEF Crash, AgentCrash, Restart, RecoveryDone, platformVars
<1> QED
  BY <1>3, <1>4, <1>5, <1>6, <1>7, <1>8 DEF Next, RecoveryStep

\* An invocation that keeps or leaves its place, and a run, wait for nothing new.
AsksNothing ==
  /\ \A i \in Invocations : \/ inv'[i].ph \notin {"asked", "reask"}
                            \/ inv'[i].ph = inv[i].ph /\ inv'[i].job = inv[i].job
  /\ \A j \in Jobs : run'[j] = "waiting" => run[j] = "waiting"

\* The approval that an invocation or a run waits for stays requested.
LEMMA AsksNothingKeeps == ASSUME RowInv, RowChange, AsksNothing PROVE Asking'
<1>1. \A k \in Jobs : approval[k] # "NONE" => approval'[k] # "NONE"
  BY RowsGrow DEF RowInv, IndInv
<1>2. \A i \in Invocations : inv[i].ph \in {"asked", "reask"} => inv[i].job \in Jobs
  BY DEF RowInv, IndInv, Runs
<1> QED
  BY <1>1, <1>2 DEF AsksNothing, RowInv, Asking

\* An invocation that ends leaves its run in the state given.
LEMMA EndsAsks ==
  ASSUME RowInv, RowChange, NEW i \in Invocations, NEW s, Ends(i, s),
         s = "waiting" => inv[i].ph = "asked"
  PROVE  Asking'
<1>1. /\ inv \in [Invocations -> Invocation] /\ run \in [Jobs -> RunStates]
      /\ NoInvocation.ph = "free"
  BY DEF RowInv, IndInv, Runs, NoInvocation
<1>2. \A k \in Invocations : inv'[k].ph = "free" \/ inv'[k] = inv[k]
  BY <1>1 DEF Ends
<1>3. \A j \in Jobs : run'[j] = run[j] \/ (j = inv[i].job /\ run'[j] = s)
  BY <1>1 DEF Ends
<1>4. \A k \in Jobs : approval[k] # "NONE" => approval'[k] # "NONE"
  BY RowsGrow DEF RowInv, IndInv
<1>5. \A k \in Invocations : inv[k].ph \in {"asked", "reask"} =>
                               inv[k].job \in Jobs /\ approval[inv[k].job] # "NONE"
  BY DEF RowInv, IndInv, Runs, Asking
<1>6. \A j \in Jobs : run'[j] = "waiting" => approval'[j] # "NONE"
  BY <1>3, <1>4, <1>5 DEF RowInv, Asking
<1>7. \A k \in Invocations : inv'[k].ph \in {"asked", "reask"} => approval'[inv'[k].job] # "NONE"
  BY <1>2, <1>4, <1>5
<1> QED
  BY <1>6, <1>7 DEF Asking

\* Nobody comes to wait for an approval that was not requested.
LEMMA NextAsking == ASSUME RowInv, RowChange, Next PROVE Asking'
<1>0. inv \in [Invocations -> Invocation] /\ run \in [Jobs -> RunStates]
  BY DEF RowInv, IndInv, Runs
<1>1. CASE UNCHANGED <<inv, run>>
  BY <1>1, AsksNothingKeeps DEF AsksNothing
<1>2. ASSUME NEW w \in Workers, CallAgent(w) PROVE Asking'
  <2>1. CASE UNCHANGED inv
    BY <1>1, <1>2, <2>1 DEF CallAgent
  <2>2. ASSUME NEW i \in Invocations,
               inv' = [inv EXCEPT ![i] = [ph |-> "new", job |-> worker[w].job, client |-> w,
                                          decision |-> "none"]]
        PROVE  Asking'
    <3>1. \A k \in Invocations : inv'[k] = inv[k] \/ inv'[k].ph = "new"
      BY <1>0, <2>2
    <3> QED
      BY <1>2, <3>1, AsksNothingKeeps DEF AsksNothing, CallAgent
  <2> QED
    BY <1>2, <2>1, <2>2 DEF CallAgent
<1>3. ASSUME NEW i \in Invocations, GiveUp(i) PROVE Asking'
  <2>1. \A k \in Invocations : inv'[k].ph = inv[k].ph /\ inv'[k].job = inv[k].job
    BY <1>0, <1>3 DEF GiveUp, Invocation
  <2> QED
    BY <1>3, <2>1, AsksNothingKeeps DEF AsksNothing, GiveUp
<1>4. CASE Crash
  <2>1. \A k \in Invocations : inv'[k].ph = inv[k].ph /\ inv'[k].job = inv[k].job
    BY <1>0, <1>4 DEF Crash, Invocation
  <2> QED
    BY <1>4, <2>1, AsksNothingKeeps DEF AsksNothing, Crash
<1>5. CASE AgentCrash
  BY <1>5, AsksNothingKeeps DEF AsksNothing, AgentCrash, NoInvocation
<1>6. ASSUME NEW j \in Jobs, Resume(j) PROVE Asking'
  <2>1. CASE UNCHANGED inv
    BY <1>1, <1>6, <2>1 DEF Resume
  <2>2. ASSUME NEW i \in Invocations, run[j] = "waiting",
               inv' = [inv EXCEPT ![i] = [ph |-> "reask", job |-> j, client |-> j,
                                          decision |-> decider[j].decision]]
        PROVE  Asking'
    <3>1. \A k \in Invocations : inv'[k] = inv[k] \/ inv'[k].job = j
      BY <1>0, <2>2
    <3>2. approval[j] # "NONE" /\ UNCHANGED <<approval, run>>
      BY <1>6, <2>2 DEF RowInv, Asking, Resume, dbVars
    <3> QED
      BY <3>1, <3>2 DEF RowInv, Asking
  <2> QED
    BY <1>6, <2>1, <2>2 DEF Resume
<1>7. ASSUME NEW i \in Invocations, InvocationStep(i) PROVE Asking'
  <2>1. CASE Begin(i)
    <3>1. \A k \in Invocations : inv'[k] = inv[k] \/ inv'[k].ph = "graph"
      BY <1>0, <2>1 DEF Begin, Invocation
    <3> QED
      BY <1>0, <2>1, <3>1, AsksNothingKeeps DEF AsksNothing, Begin
  <2>2. CASE Finish(i) \/ NodeFails(i) \/ Interrupt(i)
    BY <2>2, EndsAsks DEF Finish, NodeFails, Interrupt
  <2>3. CASE Ask(i)
    <3>1. CASE Ends(i, "FAILED")
      BY <3>1, EndsAsks
    <3>2. CASE inv' = [inv EXCEPT ![i].ph = "asked"] /\ UNCHANGED run
      <4>1. inv[i].job \in Jobs /\ approval'[inv[i].job] # "NONE"
        BY <2>3 DEF Ask, InGraph, Request, RowInv, IndInv, Runs, Rows, dbVars
      <4>2. \A k \in Invocations : inv'[k] = inv[k] \/ inv'[k].job = inv[i].job
        BY <1>0, <3>2 DEF Invocation
      <4>3. \A k \in Jobs : approval[k] # "NONE" => approval'[k] # "NONE"
        BY RowsGrow DEF RowInv, IndInv
      <4>4. \A k \in Invocations : inv[k].ph # "free" => inv[k].job \in Jobs
        BY DEF RowInv, IndInv, Runs
      <4> QED
        BY <3>2, <4>1, <4>2, <4>3, <4>4 DEF RowInv, Asking
    <3> QED
      BY <2>3, <3>1, <3>2 DEF Ask
  <2>4. CASE Decided(i)
    <3>1. CASE inv[i].decision = "REJECTED"
      BY <2>4, <3>1, EndsAsks DEF Decided
    <3>2. CASE inv[i].decision # "REJECTED"
      <4>1. \A k \in Invocations : inv'[k] = inv[k] \/ inv'[k].ph = "approved"
        BY <1>0, <2>4, <3>2 DEF Decided, Invocation
      <4> QED
        BY <1>0, <2>4, <3>2, <4>1, AsksNothingKeeps DEF AsksNothing, Decided
    <3> QED
      BY <3>1, <3>2
  <2>5. CASE DecidedFails(i)
    <3>1. \A k \in Invocations : inv'[k] = inv[k] \/ inv'[k].ph = "free"
      BY <1>0, <2>5 DEF DecidedFails, NoInvocation
    <3> QED
      BY <2>5, <3>1, AsksNothingKeeps DEF AsksNothing, DecidedFails
  <2> QED
    BY <1>7, <2>1, <2>2, <2>3, <2>4, <2>5 DEF InvocationStep
<1>8. ASSUME NEW w \in Workers, WorkerStep(w) \/ Retire(w) PROVE CallAgent(w) \/ UNCHANGED <<inv, run>>
  BY <1>8
  DEF WorkerStep, Retire, Take, Acquire, Release, Prepare, CommitPrepare,
      PersistResult, CommitResult, Fail, CommitFail, agentVars
<1>9. ASSUME NEW j \in Jobs, \/ Create(j) \/ Expire(j) \/ CommitDecision(j) \/ Recover(j)
                            \/ \E d \in Decisions : Decide(j, d)
      PROVE  UNCHANGED <<inv, run>>
  BY <1>9 DEF Create, Expire, CommitDecision, Recover, Decide, agentVars
<1>10. ASSUME Restart \/ RecoverUnfinishedJobs \/ RecoveryDone PROVE UNCHANGED <<inv, run>>
  BY <1>10 DEF Restart, RecoverUnfinishedJobs, RecoveryDone, agentVars
<1> QED
  BY <1>1, <1>2, <1>3, <1>4, <1>5, <1>6, <1>7, <1>8, <1>9, <1>10 DEF Next, DeciderStep, RecoveryStep

\* Clients of a step: an old one about its old job, or a new one about the job it
\* works on.
ClientSteps ==
  \A i \in Invocations : inv'[i].client \in Workers =>
    \/ inv'[i].client = inv[i].client /\ inv'[i].job = inv[i].job
    \/ worker'[inv'[i].client].job = inv'[i].job

\* A thread that waits works on the job of its invocation.
LEMMA ClientStepsLinked == ASSUME RowInv, ThreadSteps, ClientSteps PROVE Linked'
<1> SUFFICES ASSUME NEW i \in Invocations, inv'[i].client \in Workers
             PROVE  worker'[inv'[i].client].job = inv'[i].job
  BY DEF Linked
<1> DEFINE c == inv'[i].client
<1>1. CASE c = inv[i].client /\ inv'[i].job = inv[i].job
  <2>1. worker[c].pc = "wait" /\ worker[c].job = inv[i].job
    BY <1>1 DEF RowInv, IndInv, Clients, Linked
  <2>2. ThreadStep(c) /\ ~Turns(c)
    BY <2>1 DEF ThreadSteps, Turns
  <2> QED
    BY <1>1, <2>1, <2>2 DEF ThreadStep, Stays, Reads, GoesOn
<1> QED
  BY <1>1 DEF ClientSteps

\* Every step of the system leaves clients in one of those ways.
LEMMA NextLinked == ASSUME RowInv, ThreadSteps, Next PROVE Linked'
<1>0. inv \in [Invocations -> Invocation] /\ worker \in [Workers -> Worker] /\ None \notin Workers
  BY Assumption DEF RowInv, IndInv, Runs, Threads
<1>1. ASSUME \A i \in Invocations : \/ inv'[i].client \notin Workers
                                    \/ inv'[i].client = inv[i].client /\ inv'[i].job = inv[i].job
      PROVE  Linked'
  BY <1>1, ClientStepsLinked DEF ClientSteps
<1>2. ASSUME NEW w \in Workers, CallAgent(w) PROVE Linked'
  <2>1. CASE UNCHANGED inv
    BY <1>1, <2>1
  <2>2. ASSUME NEW i \in Invocations, Goto(w, "wait"),
               inv' = [inv EXCEPT ![i] = [ph |-> "new", job |-> worker[w].job, client |-> w,
                                          decision |-> "none"]]
        PROVE  Linked'
    <3>1. \A k \in Invocations : inv'[k] = inv[k] \/ (inv'[k].job = worker[w].job /\ inv'[k].client = w)
      BY <1>0, <2>2
    <3>2. worker'[w].job = worker[w].job
      BY <1>0, <2>2 DEF Goto, Worker
    <3> QED
      BY <3>1, <3>2, ClientStepsLinked DEF ClientSteps
  <2> QED
    BY <1>2, <2>1, <2>2 DEF CallAgent
<1>3. ASSUME NEW i \in Invocations, InvocationStep(i) \/ GiveUp(i) PROVE Linked'
  <2>1. ASSUME NEW p, inv' = [inv EXCEPT ![i].ph = p] PROVE Linked'
    <3>1. \A k \in Invocations : inv'[k].client = inv[k].client /\ inv'[k].job = inv[k].job
      BY <1>0, <2>1 DEF Invocation
    <3> QED
      BY <1>1, <3>1
  <2>2. CASE inv' = [inv EXCEPT ![i] = NoInvocation]
    <3>1. \A k \in Invocations : inv'[k] = inv[k] \/ inv'[k].client = None
      BY <1>0, <2>2 DEF NoInvocation
    <3> QED
      BY <1>0, <1>1, <3>1
  <2>3. CASE inv' = [inv EXCEPT ![i].client = None]
    <3>1. \A k \in Invocations : inv'[k] = inv[k] \/ inv'[k].client = None
      BY <1>0, <2>3 DEF Invocation
    <3> QED
      BY <1>0, <1>1, <3>1
  <2> QED
    BY <1>3, <2>1, <2>2, <2>3
    DEF InvocationStep, GiveUp, Begin, Finish, Ask, Interrupt, NodeFails, Decided, DecidedFails,
        Ends
<1>4. CASE Crash
  <2>1. \A k \in Invocations : inv'[k].client = None
    BY <1>0, <1>4 DEF Crash, Invocation
  <2> QED
    BY <1>0, <1>1, <2>1
<1>5. CASE AgentCrash
  BY <1>0, <1>1, <1>5 DEF AgentCrash, NoInvocation
<1>6. ASSUME NEW j \in Jobs, Resume(j) PROVE Linked'
  <2>1. \A k \in Invocations : inv'[k] = inv[k] \/ inv'[k].client = j
    BY <1>0, <1>6 DEF Resume
  <2>2. j \notin Workers
    BY Assumption
  <2> QED
    BY <1>1, <2>1, <2>2
<1>7. ASSUME NEW w \in Workers, WorkerStep(w) \/ Retire(w) PROVE CallAgent(w) \/ UNCHANGED inv
  BY <1>7
  DEF WorkerStep, Retire, Take, Acquire, Release, Prepare, CommitPrepare,
      PersistResult, CommitResult, Fail, CommitFail, agentVars
<1>8. ASSUME NEW j \in Jobs, \/ Create(j) \/ Expire(j) \/ CommitDecision(j) \/ Recover(j)
                            \/ \E d \in Decisions : Decide(j, d)
      PROVE  UNCHANGED inv
  BY <1>8 DEF Create, Expire, CommitDecision, Recover, Decide, agentVars
<1>9. ASSUME Restart \/ RecoverUnfinishedJobs \/ RecoveryDone PROVE UNCHANGED inv
  BY <1>9 DEF Restart, RecoverUnfinishedJobs, RecoveryDone, agentVars
<1>10. CASE UNCHANGED inv
  BY <1>1, <1>10
<1> QED
  BY <1>2, <1>3, <1>4, <1>5, <1>6, <1>7, <1>8, <1>9, <1>10 DEF Next, DeciderStep, RecoveryStep

----------------------------------------------------------------------------
(* The theorems about the rows *)

\* The invariant holds at the start,
LEMMA InitRowInv == Init => RowInv
<1> SUFFICES ASSUME Init PROVE RowInv
  OBVIOUS
<1>1. \A w \in Workers : Informed(worker[w], status, version, approval)
  BY DEF Init, Resting, Thread, Informed, Reading
<1>2. \A j \in Jobs : Consulted(decider[j], j, status, version, approval)
  BY DEF Init, NoDecider, Consulted
<1>3. \A j \in Jobs : Matched(status[j], approval[j])
  BY DEF Init, Matched
<1>4. Known /\ Asking
  BY DEF Init, Known, Asking, NoInvocation
<1>5. \A i \in Invocations : inv[i].client = None
  BY DEF Init, NoInvocation
<1> QED
  BY <1>1, <1>2, <1>3, <1>4, <1>5, InitInv, Assumption
  DEF RowInv, ThreadsInformed, DecidersConsulted, RowsMatched, Linked

\* every step preserves it,
LEMMA NextRowInv == RowInv /\ [Next]_vars => RowInv'
<1> SUFFICES ASSUME RowInv, [Next]_vars PROVE RowInv'
  OBVIOUS
<1>1. IndInv'
  BY NextInv DEF RowInv
<1>2. CASE Next
  <2>1. RowChange /\ Rows /\ Threads /\ Deciders
    BY <1>2, RowsChange DEF RowInv, IndInv
  <2>2. ThreadSteps /\ DecisionSteps
    BY <1>2, <2>1, NextThreads, NextDecisions
  <2>3. ThreadsInformed' /\ DecidersConsulted'
    BY <2>1, <2>2, ThreadStepInformed, DecisionStepConsulted
    DEF RowInv, ThreadsInformed, DecidersConsulted, ThreadSteps, DecisionSteps
  <2>4. RowsMatched' /\ Known' /\ Asking' /\ Linked'
    BY <1>2, <2>1, <2>2, RowsStayMatched, NextKnown, NextAsking, NextLinked DEF RowInv
  <2> QED
    BY <1>1, <2>3, <2>4 DEF RowInv
<1>3. CASE UNCHANGED vars
  BY <1>1, <1>3 DEF vars, dbVars, platformVars, agentVars, RowInv, ThreadsInformed,
                    DecidersConsulted, RowsMatched, Known, Asking, Linked
<1> QED
  BY <1>2, <1>3

\* so it holds in every state of every run.
LEMMA RowsInductive == Spec => []RowInv
BY InitRowInv, NextRowInv, PTL DEF Spec

\* The approval row and the job row never contradict each other, for any number of
\* threads, retries, decisions and crashes.
THEOREM ApprovalsMatchJobs == Spec => []ApprovalMatchesJob
<1>1. RowInv => ApprovalMatchesJob
  BY DEF RowInv, RowsMatched, Matched, ApprovalMatchesJob
<1> QED
  BY <1>1, RowsInductive, PTL

\* The abstract module has a state machine of its own, which is the same.
LEMMA SameReach == \A s : Lifecycle!Reach(s) = Reach(s)
BY Zenon DEF Lifecycle!Reach, Reach, Lifecycle!Steps, Steps, Lifecycle!Allowed, Allowed

\* The job table implements JobLifecycle: whatever worker, retry, recovery or
\* decision writes it, a job appears as CREATED, only moves forward, and never
\* leaves a terminal status.
THEOREM JobsImplementLifecycle == Spec => ImplementsLifecycle
<1>1. Init => Lifecycle!Init
  BY DEF Init, Lifecycle!Init
<1>2. RowInv /\ [Next]_vars => [Lifecycle!Next]_status
  <2> SUFFICES ASSUME RowInv, [Next]_vars PROVE [Lifecycle!Next]_status
    OBVIOUS
  <2>1. CASE UNCHANGED dbVars \/ UNCHANGED vars
    BY <2>1 DEF dbVars, vars
  <2>2. ASSUME NEW j \in Jobs, Accepts(j) PROVE Lifecycle!Next
    BY <2>2 DEF Accepts, Lifecycle!Next, Lifecycle!Accept
  <2>3. ASSUME NEW j \in Jobs, NEW s \in Status, NEW a \in ApprovalStatus, Writes(j, s, a)
        PROVE  [Lifecycle!Next]_status
    <3>1. CASE s = status[j]
      BY <2>3, <3>1 DEF Writes, RowInv, IndInv, Rows
    <3>2. CASE s \in Reach(status[j])
      <4>1. Lifecycle!Move(j)
        BY <2>3, <3>2, SameReach DEF Writes, Lifecycle!Move
      <4> QED
        BY <4>1 DEF Lifecycle!Next
    <3> QED
      BY <2>3, <3>1, <3>2 DEF Writes, Ahead
  <2> QED
    BY <2>1, <2>2, <2>3, RowsChange DEF RowChange
<1> QED
  BY <1>1, <1>2, RowsInductive, PTL DEF Spec, ImplementsLifecycle, Lifecycle!Spec

----------------------------------------------------------------------------
(* A run is started once *)

\* No client gives up on an answer and no lease is lost while its owner works:
\* Redis answers, no owner is stalled past the TTL.  Crashes of either process,
\* failing nodes and failing callbacks may happen.
LeaseSound == FaultKinds \cap {"timeout", "redis", "expiry"} = {}

\* Then no lease is ever lost by its owner.
LEMMA NoThreadLoses == ASSUME LeaseSound, RowInv, NoneLost, Next PROVE NoneLost'
<1>0. worker \in [Workers -> Worker] /\ Threads /\ Rows /\ Runs /\ Clients
  BY DEF RowInv, IndInv, Threads
<1>1. ASSUME NEW w \in Workers, NEW r, worker' = [worker EXCEPT ![w] = r], ~r.lost
      PROVE  NoneLost'
  BY <1>0, <1>1 DEF NoneLost
<1>2. CASE UNCHANGED worker
  BY <1>2 DEF NoneLost
<1>3. \A p, j : ~Thread(p, j).lost
  BY DEF Thread
<1>4. \A w \in Workers : Moves(w) => NoneLost'
  BY <1>1 DEF Moves, Onward, NoneLost
<1>5. ASSUME NEW j \in Jobs, Create(j) \/ Recover(j) PROVE NoneLost'
  BY <1>1, <1>2, <1>3, <1>5 DEF Create, Recover, Spawn, Enqueue
<1>6. ASSUME NEW j \in Jobs, Expire(j) PROVE NoneLost'
  BY <1>2, <1>6 DEF Expire, Fault, LeaseSound
<1>7. ASSUME NEW w \in Workers, WorkerStep(w) \/ Retire(w) PROVE NoneLost'
  <2>1. CASE Dispatch(w)
    BY <1>0, <1>4, <2>1, DispatchMoves
  <2>2. CASE Take(w) \/ Release(w) \/ Retire(w)
    BY <1>1, <1>3, <2>2 DEF Take, Release, Retire, Resting
  <2>3. CASE Acquire(w)
    <3> DEFINE a == [worker[w] EXCEPT !.pc = "prepare"]
    <3>1. ~a.lost
      BY <1>0 DEF NoneLost, Worker
    <3>2. \/ worker' = [worker EXCEPT ![w] = a]
          \/ worker' = [worker EXCEPT ![w] = Resting("idle")]
      BY <2>3 DEF Acquire, Fault, LeaseSound
    <3> HIDE DEF a
    <3> QED
      BY <1>1, <1>3, <3>1, <3>2 DEF Resting
  <2> QED
    BY <1>7, <2>1, <2>2, <2>3 DEF WorkerStep, Dispatch
<1>8. ASSUME NEW i \in Invocations, InvocationStep(i) PROVE NoneLost'
  <2>1. ASSUME NEW x \in Results, Reply(i, x) PROVE NoneLost'
    BY <1>0, <1>2, <1>4, <2>1, AnswerMoves DEF Reply
  <2>2. CASE ReplyError(i)
    <3>1. "FAILED" \in Results
      BY DEF Results
    <3> QED
      BY <1>0, <1>2, <1>4, <2>2, <3>1, AnswerMoves DEF ReplyError
  <2> QED
    BY <1>2, <1>8, <2>1, <2>2
    DEF InvocationStep, Begin, Finish, Ask, Interrupt, NodeFails, Decided, DecidedFails, Results
<1>9. ASSUME NEW i \in Invocations, GiveUp(i) PROVE NoneLost'
  BY <1>9 DEF GiveUp, Fault, LeaseSound
<1>10. CASE Crash
  BY <1>3, <1>10 DEF Crash, Resting, NoneLost
<1>11. CASE AgentCrash
  BY <1>0, <1>11 DEF AgentCrash, AttemptFailed, NoneLost, Worker
<1> QED
  BY <1>2, <1>5, <1>6, <1>7, <1>8, <1>9, <1>10, <1>11
  DEF Next, RecoveryStep, DeciderStep, Restart, RecoverUnfinishedJobs, RecoveryDone, Decide,
      Resume, CommitDecision

\* The lease of a job whose handler is about to invoke the graph: its worker's, or
\* an orphan; in no case free or another worker's.
LEMMA NewHasLease ==
  ASSUME StartInv, NEW i \in Invocations, inv[i].ph = "new"
  PROVE  /\ inv[i].job \in Jobs
         /\ \/ inv[i].client = None /\ lease[inv[i].job] = "orphan"
            \/ /\ inv[i].client \in Workers /\ lease[inv[i].job] = inv[i].client
               /\ worker[inv[i].client].pc = "wait"
<1>1. inv[i].job \in Jobs
  BY DEF StartInv, RowInv, IndInv, Runs
<1>2. CASE inv[i].client \in Workers
  <2>1. worker[inv[i].client].pc = "wait" /\ worker[inv[i].client].job = inv[i].job
    BY <1>2 DEF StartInv, RowInv, IndInv, Clients, Linked
  <2> QED
    BY <1>1, <1>2, <2>1 DEF StartInv, RowInv, IndInv, HolderKeepsLease, NoneLost, Holding
<1> QED
  BY <1>1, <1>2 DEF StartInv, NewInvocations

\* What a step does to the leases: an orphan stays one until its TTL ends, which
\* the handlers do not outlive.
LEMMA OrphanStays ==
  ASSUME StartInv, Next, NEW j \in Jobs, lease[j] = "orphan"
  PROVE  lease'[j] = "orphan" \/ HandlersPrompt(j)
<1>0. lease \in [Jobs -> Workers \cup {None, "orphan"}] /\ "orphan" \notin Workers
      /\ None # "orphan"
  BY Assumption DEF StartInv, RowInv, IndInv, Leases
<1>1. CASE UNCHANGED lease
  BY <1>1
<1>2. ASSUME NEW k \in Jobs, Expire(k) PROVE lease'[j] = "orphan" \/ HandlersPrompt(j)
  BY <1>0, <1>2 DEF Expire
<1>3. ASSUME NEW w \in Workers, Acquire(w) \/ Release(w) PROVE lease'[j] = "orphan"
  <2>1. w # "orphan"
    BY <1>0
  <2> QED
    BY <1>0, <1>3, <2>1 DEF Acquire, Release, AfterRelease
<1>4. CASE Crash
  BY <1>0, <1>4 DEF Crash
<1>5. ASSUME NEW w \in Workers, WorkerStep(w) \/ Retire(w)
      PROVE  Acquire(w) \/ Release(w) \/ UNCHANGED lease
  BY <1>5 DEF WorkerStep, Retire, Take, Prepare, CommitPrepare, CallAgent, PersistResult,
              CommitResult, Fail, CommitFail
<1>6. ASSUME NEW i \in Invocations, InvocationStep(i) \/ GiveUp(i) PROVE UNCHANGED lease
  BY <1>6 DEF InvocationStep, GiveUp, Begin, Finish, Ask, Interrupt, NodeFails, Decided,
              DecidedFails
<1>7. ASSUME NEW k \in Jobs, \/ Create(k) \/ DeciderStep(k) \/ Recover(k)
                            \/ \E d \in Decisions : Decide(k, d)
      PROVE  UNCHANGED lease
  BY <1>7 DEF Create, DeciderStep, Resume, CommitDecision, Recover, Decide
<1>8. CASE AgentCrash \/ Restart \/ RecoverUnfinishedJobs \/ RecoveryDone
  BY <1>8 DEF AgentCrash, Restart, RecoverUnfinishedJobs, RecoveryDone
<1> QED
  BY <1>1, <1>2, <1>3, <1>4, <1>5, <1>6, <1>7, <1>8 DEF Next, RecoveryStep

\* A run never ceases to exist, and only a handler that invokes the graph creates one.
LEMMA RunBegins ==
  ASSUME StartInv, Next, NEW j \in Jobs, run'[j] # run[j]
  PROVE  /\ run'[j] # "none"
         /\ \/ run[j] # "none"
            \/ \E k \in Invocations : inv[k].ph = "new" /\ inv[k].job = j /\ inv'[k].ph = "graph"
<1> DEFINE Goal == /\ run'[j] # "none"
                   /\ \/ run[j] # "none"
                      \/ \E k \in Invocations : /\ inv[k].ph = "new" /\ inv[k].job = j
                                                /\ inv'[k].ph = "graph"
<1>0. run \in [Jobs -> RunStates] /\ inv \in [Invocations -> Invocation]
  BY DEF StartInv, RowInv, IndInv, Runs
<1>1. ASSUME NEW i \in Invocations, inv[i].ph \notin {"free", "new"}, NEW s, s # "none",
             run' = [run EXCEPT ![inv[i].job] = s]
      PROVE  Goal
  <2>1. j = inv[i].job /\ run'[j] = s
    BY <1>0, <1>1
  <2> QED
    BY <1>1, <2>1 DEF StartInv, BegunRuns
<1>2. ASSUME NEW i \in Invocations, Begin(i) PROVE Goal
  <2>1. j = inv[i].job /\ run'[j] = "running" /\ inv'[i].ph = "graph" /\ inv[i].ph = "new"
    BY <1>0, <1>2 DEF Begin, Invocation
  <2> QED
    BY <2>1
<1>3. ASSUME NEW i \in Invocations, InvocationStep(i) PROVE Goal
  <2>1. inv[i].ph \notin {"free", "new"} \/ Begin(i)
    BY <1>3 DEF InvocationStep, Finish, Ask, Interrupt, NodeFails, Decided, DecidedFails, InGraph
  <2>2. CASE ~Begin(i)
    <3>1. \E s \in {"COMPLETED", "FAILED", "REJECTED", "waiting", "running"} :
            run' = [run EXCEPT ![inv[i].job] = s]
      BY <1>3, <2>2 DEF InvocationStep, Finish, Ask, Interrupt, NodeFails, Decided, DecidedFails, Ends
    <3> QED
      BY <1>1, <2>1, <2>2, <3>1
  <2> QED
    BY <1>2, <2>2
<1>4. ASSUME NEW w \in Workers, WorkerStep(w) \/ Retire(w) PROVE UNCHANGED run
  BY <1>4 DEF WorkerStep, Retire, Take, Acquire, Release, Prepare, CommitPrepare, CallAgent,
              PersistResult, CommitResult, Fail, CommitFail, agentVars
<1>5. ASSUME NEW k \in Jobs, \/ Create(k) \/ Expire(k) \/ DeciderStep(k) \/ Recover(k)
                            \/ \E d \in Decisions : Decide(k, d)
      PROVE  UNCHANGED run
  BY <1>5 DEF Create, Expire, DeciderStep, Resume, CommitDecision, Recover, Decide, agentVars
<1>6. ASSUME \/ Crash \/ AgentCrash \/ Restart \/ RecoverUnfinishedJobs \/ RecoveryDone
             \/ \E i \in Invocations : GiveUp(i)
      PROVE  UNCHANGED run
  BY <1>6 DEF Crash, AgentCrash, Restart, RecoverUnfinishedJobs, RecoveryDone, GiveUp, agentVars
<1> QED
  BY <1>3, <1>4, <1>5, <1>6 DEF Next, RecoveryStep

\* Invocation i is born in this step, of a worker that called without a checkpoint.
Born(i) ==
  \E w \in Workers :
    /\ worker[w].pc = "call" /\ worker[w].job = inv'[i].job /\ inv'[i].client = w
    /\ inv'[i].ph = "new" /\ run[inv'[i].job] = "none" /\ UNCHANGED run
    /\ \A k \in Invocations \ {i} : inv'[k] = inv[k]

\* Invocation i goes on as it is, possibly without its client.
Persists(i) ==
  /\ inv'[i].ph = inv[i].ph /\ inv'[i].job = inv[i].job
  /\ \/ inv'[i].client = inv[i].client
     \/ inv'[i].client = None /\ \A j \in Jobs : lease[j] # None => lease'[j] = "orphan"

\* Invocation i has a run after this step.
Begun(i) == inv'[i].ph # "new" /\ run'[inv'[i].job] # "none"

InvSteps == \A i \in Invocations :
              inv'[i].ph = "free" \/ Persists(i) \/ Born(i) \/ Begun(i)

\* Every step leaves every invocation in one of those ways.
LEMMA NextInvs == ASSUME LeaseSound, StartInv, Next PROVE InvSteps
<1>0. /\ run \in [Jobs -> RunStates] /\ inv \in [Invocations -> Invocation]
      /\ lease \in [Jobs -> Workers \cup {None, "orphan"}]
      /\ \A i \in Invocations : inv[i].ph # "free" => inv[i].job \in Jobs
  BY DEF StartInv, RowInv, IndInv, Runs, Leases
<1>1. CASE UNCHANGED inv
  BY <1>1 DEF InvSteps, Persists
<1>2. ASSUME NEW i \in Invocations, inv' = [inv EXCEPT ![i] = NoInvocation] PROVE InvSteps
  <2>1. \A k \in Invocations : inv'[k] = inv[k] \/ inv'[k].ph = "free"
    BY <1>0, <1>2 DEF NoInvocation
  <2> QED
    BY <2>1 DEF InvSteps, Persists
<1>3. ASSUME NEW i \in Invocations, NEW p, p # "new", run'[inv[i].job] # "none",
             inv' = [inv EXCEPT ![i].ph = p]
      PROVE  InvSteps
  <2>1. \A k \in Invocations \ {i} : inv'[k] = inv[k]
    BY <1>0, <1>3
  <2>2. inv'[i].ph = p /\ inv'[i].job = inv[i].job
    BY <1>0, <1>3 DEF Invocation
  <2> QED
    BY <1>3, <2>1, <2>2 DEF InvSteps, Persists, Begun
<1>4. ASSUME NEW i \in Invocations, InvocationStep(i) PROVE InvSteps
  <2>1. CASE Begin(i)
    <3>1. run'[inv[i].job] = "running"
      BY <1>0, <2>1 DEF Begin
    <3> QED
      BY <1>3, <2>1, <3>1 DEF Begin
  <2>2. CASE Ask(i) /\ inv' = [inv EXCEPT ![i].ph = "asked"] /\ UNCHANGED run
    <3>1. run[inv[i].job] # "none"
      BY <2>2 DEF Ask, InGraph, StartInv, BegunRuns
    <3> QED
      BY <1>3, <2>2, <3>1
  <2>3. CASE Decided(i) /\ inv[i].decision # "REJECTED"
    <3>1. run'[inv[i].job] = "running"
      BY <1>0, <2>3 DEF Decided
    <3> QED
      BY <1>3, <2>3, <3>1 DEF Decided
  <2>4. CASE inv' = [inv EXCEPT ![i] = NoInvocation]
    BY <1>2, <2>4
  <2> QED
    BY <1>4, <2>1, <2>2, <2>3, <2>4
    DEF InvocationStep, Finish, Ask, Interrupt, NodeFails, Decided, DecidedFails, Ends
<1>5. ASSUME NEW w \in Workers, CallAgent(w) PROVE InvSteps
  <2>1. ASSUME NEW i \in Invocations, run[worker[w].job] = "none",
               inv' = [inv EXCEPT ![i] = [ph |-> "new", job |-> worker[w].job, client |-> w,
                                          decision |-> "none"]]
        PROVE  InvSteps
    <3>1. inv'[i].ph = "new" /\ inv'[i].job = worker[w].job /\ inv'[i].client = w
      BY <1>0, <2>1
    <3>2. \A k \in Invocations \ {i} : inv'[k] = inv[k]
      BY <1>0, <2>1
    <3>3. worker[w].pc = "call" /\ UNCHANGED run
      BY <1>5 DEF CallAgent
    <3>4. Born(i)
      BY <2>1, <3>1, <3>2, <3>3 DEF Born
    <3> QED
      BY <3>2, <3>4 DEF InvSteps, Persists
  <2> QED
    BY <1>1, <1>5, <2>1 DEF CallAgent
<1>6. ASSUME NEW j \in Jobs, Resume(j) PROVE InvSteps
  <2>1. ASSUME NEW i \in Invocations, run[j] = "waiting",
               inv' = [inv EXCEPT ![i] = [ph |-> "reask", job |-> j, client |-> j,
                                          decision |-> decider[j].decision]]
        PROVE  InvSteps
    <3>1. inv'[i].job = j /\ inv'[i].ph = "reask"
      BY <1>0, <2>1
    <3>2. \A k \in Invocations \ {i} : inv'[k] = inv[k]
      BY <1>0, <2>1
    <3>3. UNCHANGED run
      BY <1>6 DEF Resume
    <3> QED
      BY <2>1, <3>1, <3>2, <3>3 DEF InvSteps, Begun, Persists
  <2> QED
    BY <1>1, <1>6, <2>1 DEF Resume
<1>7. CASE Crash
  <2>1. \A i \in Invocations : inv'[i].ph = inv[i].ph /\ inv'[i].job = inv[i].job
                               /\ inv'[i].client = None
    BY <1>0, <1>7 DEF Crash, Invocation
  <2>2. \A j \in Jobs : lease[j] # None => lease'[j] = "orphan"
    BY <1>7 DEF Crash
  <2> QED
    BY <2>1, <2>2 DEF InvSteps, Persists
<1>8. CASE AgentCrash
  BY <1>8 DEF AgentCrash, NoInvocation, InvSteps
<1>9. ASSUME NEW i \in Invocations, GiveUp(i) PROVE InvSteps
  BY <1>9 DEF GiveUp, Fault, LeaseSound
<1>10. ASSUME NEW w \in Workers, WorkerStep(w) \/ Retire(w) PROVE CallAgent(w) \/ UNCHANGED inv
  BY <1>10 DEF WorkerStep, Retire, Take, Acquire, Release, Prepare, CommitPrepare,
               PersistResult, CommitResult, Fail, CommitFail, agentVars
<1>11. ASSUME NEW k \in Jobs, \/ Create(k) \/ Expire(k) \/ CommitDecision(k) \/ Recover(k)
                             \/ \E d \in Decisions : Decide(k, d)
       PROVE  UNCHANGED inv
  BY <1>11 DEF Create, Expire, CommitDecision, Recover, Decide, agentVars
<1>12. ASSUME Restart \/ RecoverUnfinishedJobs \/ RecoveryDone PROVE UNCHANGED inv
  BY <1>12 DEF Restart, RecoverUnfinishedJobs, RecoveryDone, agentVars
<1> QED
  BY <1>1, <1>4, <1>5, <1>6, <1>7, <1>8, <1>9, <1>10, <1>11, <1>12
  DEF Next, RecoveryStep, DeciderStep

\* No invocation of a job is new while a worker is about to call for it.
LEMMA CallerAlone ==
  ASSUME StartInv, NEW w \in Workers, worker[w].pc = "call", NEW i \in Invocations,
         inv[i].job = worker[w].job
  PROVE  inv[i].ph # "new"
<1>1. lease[worker[w].job] = w
  BY DEF StartInv, RowInv, IndInv, HolderKeepsLease, NoneLost, Holding
<1> QED
  BY <1>1, NewHasLease, Assumption

\* Every step preserves the invariant.
LEMMA NextStartInv == ASSUME LeaseSound, StartInv, [Next]_vars PROVE StartInv'
<1>1. RowInv'
  BY NextRowInv DEF StartInv
<1>2. CASE UNCHANGED vars
  BY <1>1, <1>2 DEF vars, platformVars, agentVars, StartInv, NoneLost, NewInvocations,
                    BegunRuns, RunStartedOnce
<1>3. CASE Next
  <2>1. InvSteps /\ NoneLost' /\ RowInv
    BY <1>3, NextInvs, NoThreadLoses DEF StartInv
  <2>2. \A j \in Jobs : run[j] # "none" => run'[j] # "none"
    BY <1>3, RunBegins
  <2>3. /\ \A i \in Invocations : inv[i].ph # "free" => inv[i].job \in Jobs
        /\ \A i \in Invocations : inv'[i].ph # "free" => inv'[i].job \in Jobs
        /\ run \in [Jobs -> RunStates]
    BY <1>1 DEF StartInv, RowInv, IndInv, Runs
  <2>4. \A i \in Invocations : inv'[i].ph = "new" => Persists(i) \/ Born(i)
    BY <2>1 DEF InvSteps, Begun
  <2>5. BegunRuns'
    <3> SUFFICES ASSUME NEW i \in Invocations, inv'[i].ph \notin {"free", "new"}
                 PROVE  run'[inv'[i].job] # "none"
      BY DEF BegunRuns
    <3>1. CASE Persists(i)
      BY <2>2, <2>3, <3>1 DEF Persists, StartInv, BegunRuns
    <3> QED
      BY <2>1, <3>1 DEF InvSteps, Begun, Born
  <2>6. NewInvocations'
    <3> SUFFICES ASSUME NEW i \in Invocations, inv'[i].ph = "new",
                        inv'[i].client \notin Workers
                 PROVE  inv'[i].client = None /\ lease'[inv'[i].job] = "orphan"
      BY DEF NewInvocations
    <3>1. Persists(i) /\ inv[i].ph = "new" /\ inv'[i].job = inv[i].job
      BY <2>4 DEF Born, Persists
    <3>2. /\ inv[i].job \in Jobs /\ lease[inv[i].job] # None
          /\ \/ inv[i].client = None /\ lease[inv[i].job] = "orphan"
             \/ inv[i].client \in Workers
      BY <3>1, NewHasLease, Assumption
    <3>3. CASE inv'[i].client = inv[i].client
      <4>1. lease[inv[i].job] = "orphan" /\ inv[i].client = None
        BY <3>2, <3>3
      <4>2. ~HandlersPrompt(inv[i].job)
        BY <3>1 DEF HandlersPrompt
      <4> QED
        BY <1>3, <3>1, <3>2, <3>3, <4>1, <4>2, OrphanStays
    <3> QED
      BY <3>1, <3>2, <3>3 DEF Persists
  <2>7. ASSUME NEW i \in Invocations, inv'[i].ph = "new"
        PROVE  run'[inv'[i].job] = "none"
    <3>1. CASE Born(i)
      BY <3>1 DEF Born
    <3>2. CASE Persists(i)
      <4>1. /\ inv[i].ph = "new" /\ inv'[i].job = inv[i].job /\ inv[i].job \in Jobs
            /\ run[inv[i].job] = "none"
        BY <2>3, <2>7, <3>2 DEF Persists, StartInv, RunStartedOnce
      <4>2. ASSUME NEW k \in Invocations, inv[k].ph = "new", inv[k].job = inv[i].job,
                   inv'[k].ph = "graph"
            PROVE  FALSE
        BY <2>7, <4>1, <4>2 DEF StartInv, RunStartedOnce
      <4> QED
        BY <1>3, <4>1, <4>2, RunBegins
    <3> QED
      BY <2>4, <2>7, <3>1, <3>2
  <2>8. ASSUME NEW i \in Invocations, inv'[i].ph = "new", NEW k \in Invocations \ {i},
               inv'[k].ph = "new", inv'[k].job = inv'[i].job
        PROVE  FALSE
    <3>1. ASSUME NEW x \in Invocations, NEW y \in Invocations \ {x}, Born(x),
                 inv'[y].ph = "new", inv'[y].job = inv'[x].job
          PROVE  FALSE
      <4>1. PICK w \in Workers : /\ worker[w].pc = "call" /\ worker[w].job = inv'[x].job
                                 /\ inv'[y] = inv[y]
        BY <3>1 DEF Born
      <4> QED
        BY <3>1, <4>1, CallerAlone
    <3>2. Persists(i) /\ Persists(k)
      BY <2>4, <2>8, <3>1
    <3> QED
      BY <2>8, <3>2 DEF Persists, StartInv, RunStartedOnce
  <2> QED
    BY <1>1, <2>1, <2>5, <2>6, <2>7, <2>8 DEF StartInv, RunStartedOnce
<1> QED
  BY <1>2, <1>3

\* A run is started once, when no lease is lost and no client gives up: a handler that
\* found no checkpoint is the only one of its job, and the run still does not exist
\* when it invokes the graph.  (With a timeout, a Redis error or a lease that ends
\* under its owner, a second worker comes in between.)
THEOREM StartedOnce == ASSUME LeaseSound PROVE Spec => []RunStartedOnce
<1>1. Init => StartInv
  <2> SUFFICES ASSUME Init PROVE StartInv
    OBVIOUS
  <2>1. \A i \in Invocations : inv[i].ph = "free"
    BY DEF Init, NoInvocation
  <2>2. \A w \in Workers : ~worker[w].lost
    BY DEF Init, Resting, Thread
  <2> QED
    BY <2>1, <2>2, InitRowInv
    DEF StartInv, NoneLost, NewInvocations, BegunRuns, RunStartedOnce
<1>2. StartInv /\ [Next]_vars => StartInv'
  BY NextStartInv
<1>3. StartInv => RunStartedOnce
  BY DEF StartInv
<1> QED
  BY <1>1, <1>2, <1>3, PTL DEF Spec
=============================================================================
