SPECIFICATION FairSpec
CONSTANTS
  Job = {local, assigned}
  Assigned = {assigned}
  MaxMinute = 3
  Crons = {{1, 2, 3}}
  Invalid = Invalid
  CatchupSteps = 2
  Faults = {"project", "tear", "list", "clock"}
  MaxEdits = 2
  MaxCrashes = 1
CHECK_DEADLOCK FALSE
CONSTRAINT Small
INVARIANTS AssignedAtMostOnce LocalOncePerBoot JournalTruthful ShutdownFlushed
PROPERTIES RunsMoveForward NoRunAfterDispose ShutdownEnds
