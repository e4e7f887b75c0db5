SPECIFICATION Spec
CONSTANTS
    Items = {i1, i2}
    Scripts = {i2}
    Behaviours = {"well", "endless"}
    MaxCalls = 3
    MaxRuns = 1
    MaxSaveFailures = 1
PROPERTIES OwnSaveIsOnDisk
CHECK_DEADLOCK FALSE
