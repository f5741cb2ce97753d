SPECIFICATION FairSpec
CONSTANTS
  Session = {s1}
  Client = {c1}
  Drain = {d1, d2}
  MaxEntry = 1
  Limit = 1
  Ops = {"create", "abort"}
  MaxRestarts = 0
  MaxRetries = 0
  Nobody = Nobody
  NoSession = NoSession
CHECK_DEADLOCK FALSE
PROPERTY SchedulerNeverWedges
