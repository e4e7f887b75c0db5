CONSTANTS
  Uids = {a, b}
  Urls = {x}
  Edits = {e}
  Nothing = Nothing
  FirstUid = a
  FirstUrl = x
  MaxCalls = 3
  MaxRuns = 2
  MaxSaveFailures = 1
  MaxCrashes = 0
SPECIFICATION FairSpec
INVARIANT Queue
PROPERTIES DeliveredIsCurrent WorkIsAnswered
CHECK_DEADLOCK FALSE
