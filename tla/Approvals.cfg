SPECIFICATION Spec
CONSTANTS
  Task = {t1, t2, t3}
  SdkTask = {t3}
  Path = {f}
  Content = {c1, c2}
  None = None
  MaxBatch = 2
  MaxAttempts = 2
  MaxRequests = 1
CONSTRAINT OneRetry
SYMMETRY MCSymmetry
INVARIANTS WaitersMatchStore ConflictsExact
PROPERTIES LateApprovalIsVoid
CHECK_DEADLOCK FALSE
