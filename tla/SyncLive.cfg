SPECIFICATION ConnSpec
CONSTANTS
  Edit = {e1}
  Device = {a, b}
  MaxUpdates = 2
  MaxStates = 2
  FaultKinds = {"update", "fail", "crash", "offline", "renew"}
  MaxFaults = 1
CHECK_DEADLOCK FALSE
INVARIANT NoDeviceForgotten
PROPERTY EveryoneSettles
