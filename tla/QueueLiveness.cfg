SPECIFICATION FairSpec
CONSTANTS
  Session = {1, 2}
  Client = {1, 2, 3}
  Drain = {11, 12}
  MaxEntry = 3
  Limit = 1
  Ops = {"create", "followUp", "patch"}
  MaxRestarts = 0
  MaxRetries = 0
  Nobody = 0
  NoSession = 0
ACTION_CONSTRAINT InOrder
CHECK_DEADLOCK FALSE
PROPERTY QueuedEventuallyServed
