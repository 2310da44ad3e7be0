SPECIFICATION FairSpec
CONSTANTS
  Adapter = {"turns", "single"}
  MaxTurns = 2
  MaxCalls = 2
  MaxTexts = 2
INVARIANTS TypeOK TabInStep EveryCallAnswered ErrorShown
PROPERTIES EndIsFinal TurnsOnlyAdd AbortReachesTab
