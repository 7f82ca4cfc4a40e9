SPECIFICATION Spec
CONSTANTS
    t1 = t1
    t2 = t2
    e1 = e1
    e2 = e2
    b1 = b1
    Keyed = {t1, t2}
    Events = {e1, e2}
    Bad = {b1}
    MaxBuffer = 2
    FlushRows = 2
    MaxWrites = 4
    MaxFiles = 3
    MaxReplays = 2
    MaxFault = 2
INVARIANTS
    Accounted
    ReplayKeepsRows
SYMMETRY Alike
CHECK_DEADLOCK FALSE
