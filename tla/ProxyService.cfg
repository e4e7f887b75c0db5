CONSTANTS
  Configs = {c1, c2}
  NoJob = NoJob
SPECIFICATION FairQueueSpec
INVARIANT QueueSafety
PROPERTIES ShutdownFinishes RestoreIsRun
CHECK_DEADLOCK FALSE
