SPECIFICATION Spec
CONSTANTS
    Sym = {s1, s2}
    MaxSig = 1
    Qty = 1
    Sweeps = FALSE
    MaxEntries = 1
    StopLine = 1
    Nets <- LossOnly
    MaxQueue = 1
    MaxCrash = 2
    MaxFault = 0
    MaxSlip = 0
    MaxTrouble = 2
    MaxResume = 0
SYMMETRY Alike
INVARIANT
    SumIsBooked
PROPERTY
    KeepsTradeBook
CHECK_DEADLOCK FALSE
