SPECIFICATION FairCardSpec
CONSTANTS
  Run = {r1}
  Agents = {"worker"}
  RawPlan <- MCRawPlan
  MaxReviews = 2
  MaxRounds = 2
  NoPlan = NoPlan
  MaxFetches = 1
  MaxOutages = 1
INVARIANTS ReviewsFollowRun RoundsKnowAll ShownIsRegistered EventsKeepStep
PROPERTIES DecisionsAreFinal CompleteIsAggregated GateSpec DecisionsResumeRun AbortEndsRun
