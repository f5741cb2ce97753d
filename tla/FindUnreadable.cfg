SPECIFICATION Spec
CONSTANTS
  Edit = {e1, e2}
  Device = {a, b}
  MaxUpdates = 2
  MaxStates = 2
  FaultKinds = {"state"}
  MaxFaults = 1
SYMMETRY Symmetry
CHECK_DEADLOCK FALSE
INVARIANT SyncedIsOnRelay
