CONSTANTS
  Configs = {c1}
  NoJob = NoJob
SPECIFICATION QueueSpec
INVARIANT LatestIntentWins
CHECK_DEADLOCK FALSE
