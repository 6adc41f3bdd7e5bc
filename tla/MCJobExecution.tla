--------------------------- MODULE MCJobExecution ---------------------------
(* Small instances of JobExecution for TLC. *)
EXTENDS JobExecution, TLC

CONSTANTS j1, j2, j3, w1, w2, i1, i2, none

OneJob    == {j1}
NoJob     == {}
TwoJobs   == {j1, j2}
ThreeJobs == {j1, j2, j3}
OneWorker  == {w1}
TwoWorkers == {w1, w2}
TwoInvs    == {i1, i2}

NoFaults      == {}
CrashOnly     == {"crash"}
LeaseSafe     == {"crash", "agentCrash", "node", "callback", "dataSource"}
NoRestarts    == {"redis", "expiry", "node", "callback", "dataSource"}

\* Threads and invocations are interchangeable (safety runs only).
Symmetric == Permutations(Workers) \cup Permutations(Invocations)
\* With no risky job the jobs are, too.
AllSymmetric == Symmetric \cup Permutations(Jobs)
=============================================================================
