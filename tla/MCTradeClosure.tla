---------------------------- MODULE MCTradeClosure ----------------------------
(* Instances of TradeClosure for TLC. *)
EXTENDS TradeClosure

TwoPositions   == {1, 2}
OnlyFirst      == {1}
OnlySecond     == {2}
EitherTable    == {"usr", "sys"}
=============================================================================
