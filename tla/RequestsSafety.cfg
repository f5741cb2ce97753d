SPECIFICATION Spec
CONSTANTS
  Message = {m1, m2}
  Steer = {s1, s2}
  MaxPos = 2
  MaxRevision = 2
  MaxRuns = 3
  MaxDrains = 1
  Ops = {"edit", "delete", "move", "combine", "cancel", "steer", "steerNew"}
  Faults = {"busy", "question", "lost", "crash"}
  MaxFaults = 1
  NoSteer = NoSteer
SYMMETRY Symmetry
CHECK_DEADLOCK FALSE
INVARIANTS NothingForgotten RevisionNamesText AcceptedIsSaved NoRequestStranded
PROPERTIES NeverReplayed DeliversWhatIsSaved
