CONSTANTS
  Uids = {a, b}
  Urls = {x, y}
  Edits = {d, e}
  Nothing = Nothing
  FirstUid = a
  FirstUrl = x
  MaxCalls = 4
  MaxRuns = 0
  MaxSaveFailures = 1
  MaxCrashes = 1
SPECIFICATION Spec
INVARIANT Files
PROPERTIES SavedIsOnDisk IdleIsQuiet
CHECK_DEADLOCK FALSE
