SPECIFICATION Spec
CONSTANTS
  Task <- ChainTask
  Parent <- ChainParent
  ParentOf <- ChainParentOf
  External = {}
  Plan <- ReversedPlan
  DependsOn <- ChainDependsOn
  Inputs <- ChainInputs
  Limit = 2
  MaxAttempts = 1
  Faulty = {}
INVARIANT SkipReachesDownstream
