SPECIFICATION FairSpec
CONSTANTS
  Task <- FewTask
  Parent <- MCParent
  ParentOf <- FewParentOf
  External <- MCExternal
  Plan <- FewPlan
  DependsOn <- FewDependsOn
  Inputs <- FewDependsOn
  Limit = 1
  MaxAttempts = 2
  Faulty <- MCFaulty
INVARIANTS SlotsFollowTasks DispatchEndOnce
PROPERTIES NoLaunchAfterAbort DispatchTerminates AbortTakesEffect PoolSpec
