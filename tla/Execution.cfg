SPECIFICATION Spec
CONSTANTS
    Prices = {1, 2}
    Quantities = {1}
    MaxTrades = 1
    MaxOrders = 3
    MaxPaperFaults = 2
    Cids = {c1, c2}
    MaxExecutions = 2
    MaxLiveFaults = 1
    Requests <- MCRequests
    MaxAbs = 1
    StopLoss = 2
    PauseAfter = 1
    MaxRejects = 2
    Results <- LossOnly
    MaxNights = 1
SYMMETRY Alike
INVARIANT Capped NoTradePassed FillsAreTrades ClosedIsClosed
PROPERTY HaltHolds
CHECK_DEADLOCK FALSE
