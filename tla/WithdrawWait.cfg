SPECIFICATION Spec
CONSTANTS
  Client = {desktop}
  Delay = {0, 1}
  MaxResponders = 1
  MaxTime = 1
  MaxMessages = 1
  MaxRuns = 1
  MaxCrashes = 0
INVARIANT NoDeadMessage
CHECK_DEADLOCK FALSE
