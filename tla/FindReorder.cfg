SPECIFICATION Spec
CONSTANTS
  Message = {m1, m2}
  Steer = {s1}
  MaxPos = 2
  MaxRevision = 2
  MaxRuns = 2
  MaxDrains = 1
  Ops = {"move"}
  Faults = {}
  MaxFaults = 0
  NoSteer = NoSteer
SYMMETRY Symmetry
CHECK_DEADLOCK FALSE
PROPERTY DispatchedInQueueOrder
