SPECIFICATION Spec
CONSTANTS
    Ids = {c1, c2, c3, c4}
    HistoryLimit = 2
    Names = {g1, g2}
    Revision = {0, 1}
    EntryLimit = 4
    EntriesKept = 2
    Retention = 2
    MaxRate = 2
    MaxGroups = 2
    MaxSamples = 2
    Windows = {1, 2}
    ShrinkDelay = 2
    MaxTime = 5
    Retries = 2
    MaxClicks = 4
INVARIANTS ShownIsCurrent HistoriesAreWhole InstallationIsKnown
PROPERTY ProbingEnds
CHECK_DEADLOCK FALSE
