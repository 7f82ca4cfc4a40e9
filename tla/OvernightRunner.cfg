SPECIFICATION FairSpec
CONSTANTS
    N = 3
    LimitNights = {1}
    SkipNights = {2}
    Qty = 2
    Modes = {"paper", "live"}
    MaxLimit = 2
    Results <- WinOrLose
    StopLine = 1
    PauseAfter = 2
    MaxCrash = 1
    MaxFault = 1
    MaxTrouble = 2
INVARIANTS
    RecordedOnce
    Capped
    StopCovers
    DoneIsFlat
PROPERTIES
    StopLineHolds
    HeldIsClosed
CHECK_DEADLOCK FALSE
