SPECIFICATION DialogSpec
CONSTANTS
  Task = {t1, t2}
  SdkTask = {}
  Path = {f}
  Content = {c1, c2}
  None = None
  MaxBatch = 2
  MaxAttempts = 1
  MaxRequests = 2
INVARIANTS QuestionsMoveOn
CHECK_DEADLOCK FALSE
