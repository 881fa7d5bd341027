----------------------------- MODULE MCScanner -----------------------------
(* Instances of Scanner for TLC: one pair, two threads of the executor, a   *)
(* regime scanned every tick and one scanned every second tick.             *)
EXTENDS Scanner, TLC

CONSTANTS p, w1, w2

TwoRegimes == [trend |-> 1, range |-> 2]
=============================================================================
