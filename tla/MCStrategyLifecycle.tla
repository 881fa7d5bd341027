------------------------- MODULE MCStrategyLifecycle -------------------------
(***************************************************************************)
(* Instances of StrategyLifecycle for TLC: a threshold that two            *)
(* relaxations bring to its floor and backtests that reach the floor at    *)
(* best.                                                                   *)
(***************************************************************************)
EXTENDS StrategyLifecycle

AtTheFloor == {Floor}
==============================================================================
