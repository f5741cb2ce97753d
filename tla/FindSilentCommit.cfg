SPECIFICATION ConnSpec
CONSTANTS
  Edit = {e1}
  Device = {a, b}
  MaxUpdates = 2
  MaxStates = 2
  FaultKinds = {"fail"}
  MaxFaults = 1
CHECK_DEADLOCK FALSE
INVARIANT NobodyStaysBehind
