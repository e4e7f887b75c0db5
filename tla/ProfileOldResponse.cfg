CONSTANTS
  Uids = {a}
  Urls = {x, y}
  Edits = {e}
  Nothing = Nothing
  FirstUid = a
  FirstUrl = x
  MaxCalls = 3
  MaxRuns = 0
  MaxSaveFailures = 0
  MaxCrashes = 0
SPECIFICATION Spec
PROPERTIES OldResponseNeverCached
CHECK_DEADLOCK FALSE
