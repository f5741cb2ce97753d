SPECIFICATION Spec
CONSTANTS
  Session = {s1, s2}
  Client = {c1, c2, c3}
  Drain = {d1, d2}
  MaxEntry = 3
  Limit = 1
  Ops = {"create", "followUp", "cancel", "fails"}
  MaxRestarts = 0
  MaxRetries = 1
  Nobody = Nobody
  NoSession = NoSession
CHECK_DEADLOCK FALSE
SYMMETRY Symmetry
INVARIANTS TypeOK QueuedHasEntry WithinLimit StrandedOwed NoIdleCapacity
PROPERTIES CancelledNeedsRequest ImplementsAdmission
