SPECIFICATION Spec
CONSTANTS
    Guard = 1
    MoveWin = 2
    OfiWin = 2
    VolWin = 1
    GapWindow = 5
    Silence = 1
    Latency = 1
    DecisionLag = 0
    PingLimit = 2
    MaxTime = 8
    TradeSecs = {3, 4}
    MaxFaults = 2
    MaxBehind = 1
INVARIANT DepthIsWhole VolumeIsWhole
CHECK_DEADLOCK FALSE
