SPECIFICATION FairSpec
CONSTANTS
  Session = {1, 2}
  Client = {1, 2}
  Drain = {11, 12}
  MaxEntry = 2
  Limit = 1
  Ops = {"create", "followUp", "reattach", "hookFails"}
  MaxRestarts = 1
  MaxRetries = 0
  Nobody = 0
  NoSession = 0
ACTION_CONSTRAINT InOrder
CHECK_DEADLOCK FALSE
PROPERTIES QueuedSessionEventuallyRuns ActiveEventuallyOwned SchedulerNeverWedges
