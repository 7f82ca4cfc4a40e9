---------------------------- MODULE MCExecution ----------------------------
(* A caller that buys one unit to enter and must reduce to leave.           *)
EXTENDS Execution, TLC

Asks(type, side, px, reduce) ==
    [type |-> type, side |-> side, qty |-> 1, px |-> px, reduce |-> reduce]

MCRequests ==
    {Asks("LIMIT", "BUY", 2, FALSE), Asks("MARKET", "BUY", 1, FALSE),
     Asks("LIMIT", "SELL", 1, TRUE), Asks("MARKET", "SELL", 1, TRUE),
     Asks("STOP_MARKET", "SELL", 1, TRUE)}

LossOnly == {-1}
Alike == Permutations(Cids)
==============================================================================
