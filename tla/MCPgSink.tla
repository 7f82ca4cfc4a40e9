------------------------------- MODULE MCPgSink -------------------------------
(* Small values for PgSink. *)
EXTENDS PgSink, TLC
CONSTANTS t1, t2, e1, e2, b1
Alike == Permutations({t1, t2}) \cup Permutations({e1, e2})
=============================================================================
