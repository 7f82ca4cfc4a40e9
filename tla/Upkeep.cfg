INIT Init
NEXT Next
CONSTANTS
    Trades = {a, b}
    MaxCrash = 2
    MaxDbFault = 1
    DayLength = 4
    Warm = 2
    After = 1
    LastTime = 13
    MaxEnds = 3
    MaxQueue = 2
    Grace = 1
    MaxMessages = 6
INVARIANTS
    Timetable
    RecordsKept
    RowsFollowFile
    CoverageIsTrue
    NoDayForgotten
    ReleaseIsTold
    MessagesArrive
CHECK_DEADLOCK FALSE
