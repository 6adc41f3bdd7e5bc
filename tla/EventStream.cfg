SPECIFICATION Spec
CONSTANTS
  Final = 2
  MaxLength = 2
  Reloads = {r1, r2}
  MaxSignals = 3
  MaxFaults = 1
INVARIANT NoSilentGap
PROPERTY ClientShowsResult
CHECK_DEADLOCK FALSE
