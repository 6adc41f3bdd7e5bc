-------------------------- MODULE JobStateMachine --------------------------
(***************************************************************************)
(* The status of an analysis job and the deterministic rules that move it: *)
(* AnalysisJobStateMachine and the three places of the platform that       *)
(* compute a new status from an old one (the worker's advance, the         *)
(* approval request's advanceToWaiting, the approval decision).  Pure      *)
(* operators: the modules with state apply them inside their transactions. *)
(***************************************************************************)

Status == {"CREATED", "PLANNING", "VALIDATING", "WAITING_APPROVAL", "RUNNING",
           "COMPLETED", "REJECTED", "FAILED", "CANCELLED"}

Terminal == {"COMPLETED", "REJECTED", "FAILED", "CANCELLED"}

\* ALLOWED_TRANSITIONS; a status that is not a key has no successors.
Allowed(s) ==
  CASE s = "CREATED"          -> {"PLANNING", "FAILED", "CANCELLED"}
    [] s = "PLANNING"         -> {"VALIDATING", "FAILED", "CANCELLED"}
    [] s = "VALIDATING"       -> {"RUNNING", "WAITING_APPROVAL", "REJECTED",
                                  "FAILED", "CANCELLED"}
    [] s = "WAITING_APPROVAL" -> {"RUNNING", "REJECTED", "FAILED", "CANCELLED"}
    [] s = "RUNNING"          -> {"COMPLETED", "FAILED", "CANCELLED"}
    [] OTHER                  -> {}

\* Repeating the current status is an idempotent no-op, never an error.
CanTransition(s, t) == s = t \/ t \in Allowed(s)

\* transition() throws InvalidJobTransitionException; the exception makes the
\* surrounding transaction roll back, so one value that absorbs stands for it.
Invalid == "INVALID"

Transition(s, t) == IF s # Invalid /\ CanTransition(s, t) THEN t ELSE Invalid

----------------------------------------------------------------------------
\* AnalysisJobWorker.advance: the agent reports only where its run stands, so
\* the statuses in between are passed through here.
Advance(s, target) ==
  LET planned   == IF s = "CREATED" THEN Transition(s, "PLANNING") ELSE s
      validated == IF target # "FAILED" /\ planned = "PLANNING"
                   THEN Transition(planned, "VALIDATING") ELSE planned
      running   == IF target = "COMPLETED" /\ validated # "RUNNING"
                   THEN Transition(validated, "RUNNING") ELSE validated
  IN  IF target = "PLANNING" THEN planned
      ELSE IF running # target THEN Transition(running, target) ELSE running

\* ApprovalService.advanceToWaiting
AdvanceToWaiting(s) ==
  LET planned   == IF s = "CREATED" THEN Transition(s, "PLANNING") ELSE s
      validated == IF planned = "PLANNING" THEN Transition(planned, "VALIDATING")
                   ELSE planned
  IN  Transition(validated, "WAITING_APPROVAL")

\* Mutant: a rejection passes through RUNNING like an approval.
MutAfterDecision(s, decision, result) ==
  LET running == Transition(s, "RUNNING")
  IN  IF decision = "REJECTED" THEN Transition(running, "REJECTED")
      ELSE IF result \in {"COMPLETED", "FAILED"} THEN Transition(running, result)
      ELSE running

\* ApprovalService.decide: where a decision leaves the job, given what the
\* resumed run answered.  A rejection does not look at the answer.
AfterDecision(s, decision, result) ==
  LET running == Transition(s, "RUNNING")
  IN  IF decision = "REJECTED" THEN Transition(s, "REJECTED")
      ELSE IF result \in {"COMPLETED", "FAILED"} THEN Transition(running, result)
      ELSE running

----------------------------------------------------------------------------
\* The statuses one transaction may leave behind: every transaction applies a
\* chain of allowed transitions and commits only the last one.  The longest
\* chain has five links.
Steps(S) == UNION {Allowed(s) : s \in S}

Reach(s) ==
  LET r1 == Steps({s})
      r2 == r1 \cup Steps(r1)
      r3 == r2 \cup Steps(r2)
      r4 == r3 \cup Steps(r3)
  IN  r4 \cup Steps(r4)
============================================================================
