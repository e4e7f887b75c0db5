SPECIFICATION Spec
CONSTANTS
    Roots = {r1, r2}
    Operations = {"restore", "upload", "download"}
    MaxSnapshots = 2
    MaxActions = 3
INVARIANTS FilesAreSafe QuitIsClean
PROPERTIES QuitCancelsRestore QuitEnds BackupEnds
CHECK_DEADLOCK FALSE
