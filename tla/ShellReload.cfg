SPECIFICATION Spec
CONSTANTS
    Roots = {r1}
    Operations = {"upload"}
    MaxSnapshots = 2
    MaxActions = 3
PROPERTY ChangeReachesCore
CHECK_DEADLOCK FALSE
