SPECIFICATION Spec
CONSTANTS
  Session = {s1, s2}
  Client = {c1, c2}
  Drain = {d1, d2}
  MaxEntry = 2
  Limit = 1
  Ops = {"create", "followUp", "fails", "files", "reattach", "abort", "hookFails", "remove"}
  MaxRestarts = 2
  MaxRetries = 0
  Nobody = Nobody
  NoSession = NoSession
CHECK_DEADLOCK FALSE
SYMMETRY Symmetry
INVARIANTS ClaimExclusive AtMostOncePerBoot QueuedHasNoRun ActiveIsAttended
