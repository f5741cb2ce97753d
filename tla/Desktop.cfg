SPECIFICATION LiveSpec
CONSTANTS
  Runtimes = {r1, r2}
  CrashStates = {"launched", "booting", "serving"}
  MaxCrashes = 1
  MaxQuits = 2
  MaxRetries = 1
  MaxServes = 1
CONSTRAINT InOrder
CHECK_DEADLOCK FALSE
INVARIANTS NoOrphan
PROPERTIES NeverRestartsStopped QuitReturns
