---------------------------- MODULE JobLifecycle ----------------------------
(***************************************************************************)
(* What the job table promises to everyone who reads it, whatever threads, *)
(* requests, retries and crashes produced the writes: a job appears as     *)
(* CREATED, moves only forward along allowed transitions, and once it is   *)
(* in a terminal status it never changes again.                            *)
(***************************************************************************)
EXTENDS JobStateMachine

CONSTANT Jobs

\* "NONE": the row does not exist yet.
VARIABLE status

Init == status = [j \in Jobs |-> "NONE"]

Accept(j) == /\ status[j] = "NONE"
             /\ status' = [status EXCEPT ![j] = "CREATED"]

Move(j) == /\ status[j] # "NONE"
           /\ \E s \in Reach(status[j]) : status' = [status EXCEPT ![j] = s]

Next == \E j \in Jobs : Accept(j) \/ Move(j)

Spec == Init /\ [][Next]_status
=============================================================================
