------------------------------ MODULE MCBookSync ------------------------------
(* Small values for BookSync. *)
EXTENDS BookSync
CONSTANTS p1, p2
=============================================================================
