--------------------------- MODULE MCPastofiTrader ---------------------------
\* Small instances of PastofiTrader for TLC.
EXTENDS PastofiTrader, TLC

\* Every trade loses one unit, so that the sum counts the trades.
LossOnly == {-1}
Alike == Permutations(Sym)
=============================================================================
