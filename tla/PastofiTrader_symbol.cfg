SPECIFICATION FairSpec
CONSTANTS
    Sym = {s1}
    MaxSig = 2
    Qty = 2
    Sweeps = TRUE
    MaxEntries = 2
    StopLine = 2
    Nets <- LossOnly
    MaxQueue = 1
    MaxCrash = 1
    MaxFault = 1
    MaxSlip = 1
    MaxTrouble = 2
    MaxResume = 1
INVARIANTS
    BookedOnce
    Managed
    NoOrphanStop
    Protected
    BookedOnItsFills
PROPERTIES
    EntersClean
    HaltIsDurable
    DeadlineCloses
CHECK_DEADLOCK FALSE
