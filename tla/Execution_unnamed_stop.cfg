SPECIFICATION Spec
CONSTANTS
    Prices = {1, 2}
    Quantities = {1}
    MaxTrades = 2
    MaxOrders = 3
    MaxPaperFaults = 0
    Cids = {c1, c2}
    MaxExecutions = 2
    MaxLiveFaults = 1
    Requests <- MCRequests
    MaxAbs = 1
    StopLoss = 2
    PauseAfter = 1
    MaxRejects = 2
    Results <- LossOnly
    MaxNights = 1
INVARIANT StopFillsNamed
CHECK_DEADLOCK FALSE
