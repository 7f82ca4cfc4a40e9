---------------------------- MODULE MCPastofiApp ----------------------------
(* The gate and the data behind it, with windows of one to two seconds.     *)
EXTENDS PastofiApp
==============================================================================
