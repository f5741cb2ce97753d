SPECIFICATION Spec
CONSTANTS
  Runtimes = {r1, r2}
  CrashStates = {}
  MaxCrashes = 0
  MaxQuits = 1
  MaxRetries = 0
  MaxServes = 1
CHECK_DEADLOCK FALSE
PROPERTY PromotedSurvives
