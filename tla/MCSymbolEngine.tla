---------------------------- MODULE MCSymbolEngine ----------------------------
(* A short day and three prices for SymbolEngine. *)
EXTENDS SymbolEngine
Top(p, q) == [b |-> 4 * p, bq |-> q, a |-> 4 * p + 1, aq |-> 2]
SmallTops == {Top(1, 3), Top(2, 1), Top(3, 3), Top(3, 1)}
=============================================================================
