SPECIFICATION FairSpec
CONSTANTS
    p1 = p1
    p2 = p2
    Levels = {p1, p2}
    MaxId = 5
    MaxBuffer = 2
    MaxFail = 2
INVARIANTS
    Mirrors
    SyncedIsCurrent
PROPERTIES
    GetsSynced
CHECK_DEADLOCK FALSE
