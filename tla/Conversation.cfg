SPECIFICATION Spec
CONSTANTS
  Client = {desktop, mobile}
  Delay = {0, 1}
  MaxResponders = 2
  MaxTime = 1
  MaxMessages = 2
  MaxRuns = 3
  MaxCrashes = 1
SYMMETRY MCSymmetry
INVARIANTS WithdrawnIsGone RunningIsLive OneAnswer
CHECK_DEADLOCK FALSE
