SPECIFICATION Spec
CONSTANTS
  Worker = {c1, c2, w1}
  Call = {c1, c2}
  Resource = {desktop, browser}
  Nobody = Nobody
  Item = {i1, i2}
  Plan = {p1, p2}
  NoPlan = NoPlan
  Need <- MCNeed
  Limit = 2
  MaxCrashes = 1
SYMMETRY MCSymmetry
INVARIANTS LockExclusive ExecutionExclusive LocksReturned RowsSettle
CHECK_DEADLOCK FALSE
