SPECIFICATION LiveSpec
CONSTANTS
  Runtimes = {r1, r2}
  Clients = {c1}
  Ids = {1, 2, 3}
  MaxFaults = 1
CONSTRAINT InOrder
CHECK_DEADLOCK FALSE
INVARIANTS OneHolder PublishedIsFound
PROPERTY WaiterGetsIn
