SPECIFICATION FairSpec
CONSTANTS
  c1 = c1
  c2 = c2
  Calls <- TwoCalls
  MaxRepairs = 1
  MaxCalls = 3
  MaxFaults = 1
INVARIANT TypeOK
INVARIANT ExecutedWasCleared
INVARIANT SerialCallsExecuteOnce
INVARIANT EndIsFinal
PROPERTY RunMovesForward
PROPERTY RequestsAreAnswered
CHECK_DEADLOCK FALSE
