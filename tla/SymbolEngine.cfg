SPECIFICATION Spec
CONSTANTS
    Tops <- SmallTops
    Sizes = {1}
    Guard = 1
    MoveWin = 3
    OfiWin = 2
    VolWin = 1
    Hold = 1
    Move = 2
    TakeProfit = 3
    StopLoss = 3
    Day = 8
    Keep = 4
    KeepMore = 0
    Period = 5
    Reported = 1
    MaxQuotes = 5
    TradeSecs = {0, 1, 3}
    MaxLag = 1
    MaxLate = 3
INVARIANTS
    AgreesWithReplay
    EmitsPairs
CHECK_DEADLOCK FALSE
