-------------------------- MODULE MCPositionManager --------------------------
(* Small instances of PositionManager for TLC: two regimes, one of which    *)
(* has an adjustment and a shorter limit.                                   *)
EXTENDS PositionManager

CONSTANTS m1, m2

TwoMonitors == {m1, m2}
Regimes == {"TREND", "RANGE"}
Ages == [r \in Regimes |-> IF r = "TREND" THEN 1 ELSE 0]
Trailing == [r \in Regimes |-> 1]
Adjustments == [r \in {"RANGE"} |-> 1]
=============================================================================
