SPECIFICATION Spec
CONSTANTS
  Session = {s1}
  Client = {c1, c2}
  Drain = {d1, d2}
  MaxEntry = 3
  Limit = 1
  Ops = {"create", "cancel"}
  MaxRestarts = 0
  MaxRetries = 0
  Nobody = Nobody
  NoSession = NoSession
CHECK_DEADLOCK FALSE
SYMMETRY Symmetry
PROPERTY CancelledRunStaysCancelled
