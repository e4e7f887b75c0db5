SPECIFICATION Spec
CONSTANTS
    Items = {i1, i2}
    Scripts = {i2}
    Behaviours = {"well", "endless"}
    MaxCalls = 3
    MaxRuns = 1
    MaxSaveFailures = 1
INVARIANTS Safety
PROPERTIES SaveIsOnDisk DeliveredChainIsCurrent WorkEnds
CHECK_DEADLOCK FALSE
