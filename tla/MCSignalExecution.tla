------------------------- MODULE MCSignalExecution -------------------------
(* Instances of SignalExecution for TLC. *)
EXTENDS SignalExecution

CONSTANTS s1, s2

BothSides == [s \in Signal |-> IF s = s1 THEN "BUY" ELSE "SELL"]
=============================================================================
