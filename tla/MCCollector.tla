----------------------------- MODULE MCCollector -----------------------------
(* The collector over nine units, with faults in any of its parts.        *)
EXTENDS Collector
==============================================================================
