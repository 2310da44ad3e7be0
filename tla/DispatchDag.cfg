SPECIFICATION Spec
CONSTANTS
  Task <- MCTask
  Parent <- MCParent
  ParentOf <- MCParentOf
  External <- MCExternal
  Plan <- MCPlan
  DependsOn <- MCDependsOn
  Inputs <- MCInputs
  Limit = 2
  MaxAttempts = 1
  Faulty <- MCFaulty
INVARIANTS TypeOK NoIdleSlot DependenciesFirst EveryTaskAccounted SkipReachesDownstream NoOrphans
PROPERTIES ResultsAreFinal
