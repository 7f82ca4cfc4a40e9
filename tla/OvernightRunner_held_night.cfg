SPECIFICATION Spec
CONSTANTS
    N = 3
    LimitNights = {1}
    SkipNights = {2}
    Qty = 1
    Modes = {"paper", "live"}
    MaxLimit = 1
    Results <- WinOrLose
    StopLine = 1
    PauseAfter = 2
    MaxCrash = 1
    MaxFault = 0
    MaxTrouble = 1
PROPERTY
    HeldIsCarriedOn
CHECK_DEADLOCK FALSE
