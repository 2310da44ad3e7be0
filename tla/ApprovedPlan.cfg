SPECIFICATION Spec
CONSTANTS
  Run = {r1}
  Agents = {"worker"}
  RawPlan <- MCRawPlan
  MaxReviews = 2
  MaxRounds = 2
  NoPlan = NoPlan
PROPERTY LaunchedAsShown
