SPECIFICATION Spec
CONSTANTS
  j1 = j1
  j2 = j2
  j3 = j3
  w1 = w1
  w2 = w2
  i1 = i1
  i2 = i2
  none = none
  Jobs <- OneJob
  Risky <- OneJob
  Workers <- OneWorker
  CoreSize = 1
  QueueCapacity = 1
  MaxAttempts = 2
  Invocations <- TwoInvs
  FaultKinds <- NoFaults
  MaxFaults = 0
  None = none
INVARIANT RejectedNeverExecuted
CHECK_DEADLOCK FALSE
