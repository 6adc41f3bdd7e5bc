SPECIFICATION FairSpec
CONSTANTS
  j1 = j1
  j2 = j2
  j3 = j3
  w1 = w1
  w2 = w2
  i1 = i1
  i2 = i2
  none = none
  Jobs <- OneJob
  Risky <- OneJob
  Workers <- TwoWorkers
  CoreSize = 2
  QueueCapacity = 1
  MaxAttempts = 2
  Invocations <- TwoInvs
  FaultKinds <- NoRestarts
  MaxFaults = 2
  None = none
PROPERTY Settles
CHECK_DEADLOCK FALSE
