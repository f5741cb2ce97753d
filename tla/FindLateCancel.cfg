SPECIFICATION Spec
CONSTANTS
  Session = {s1, s2}
  Client = {c1, c2, c3, c4}
  Drain = {d1, d2}
  MaxEntry = 3
  Limit = 1
  Ops = {"create", "followUp", "cancel"}
  MaxRestarts = 0
  MaxRetries = 0
  Nobody = Nobody
  NoSession = NoSession
CHECK_DEADLOCK FALSE
SYMMETRY Symmetry
INVARIANTS QueuedHasNoRun
