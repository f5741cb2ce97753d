SPECIFICATION LiveSpec
CONSTANTS
  Runtimes = {r1}
  CrashStates = {"closing"}
  MaxCrashes = 1
  MaxQuits = 1
  MaxRetries = 0
  MaxServes = 0
CHECK_DEADLOCK FALSE
PROPERTY QuitReturns
