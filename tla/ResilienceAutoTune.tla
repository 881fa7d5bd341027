-------------------------- MODULE ResilienceAutoTune --------------------------
(* core_brain/resilience_autotune.py: the thresholds of the                *)
(* ResilienceManager and how a recovery adjusts them.  The two cooldowns   *)
(* measured in seconds are left out: no property compares durations.       *)
EXTENDS Integers

CONSTANTS
  Low, High,     \* PARAM_BOUNDS, records over Tunable
  DefaultParams  \* DEFAULT_PARAMS

Tunable == {"caution", "degraded", "stability"}
Params  == [Tunable -> Nat]

ASSUME ParamsAssumption ==
  /\ Low \in Params /\ High \in Params /\ DefaultParams \in Params
  /\ \A n \in Tunable : 1 <= Low[n] /\ Low[n] <= DefaultParams[n] /\ DefaultParams[n] <= High[n]

ASSUME OrderAssumption == DefaultParams.caution < DefaultParams.degraded /\ High.caution < High.degraded

(* Mutant: a parameter may pass its upper bound. *)
Unclamped(n, x) == IF x < Low[n] THEN Low[n] ELSE x

Clamped(n, x) == IF x < Low[n] THEN Low[n] ELSE IF x > High[n] THEN High[n] ELSE x

(* Mutant: the degraded threshold is not among the targets. *)
HardenForgets(p) ==
  [n \in Tunable |-> IF n = "degraded" THEN p[n] ELSE Clamped(n, (23 * p[n] + 19) \div 20)]

(* _harden: ceil of 1.15 times the value, inside the bounds. *)
Harden(p) == [n \in Tunable |-> Clamped(n, (23 * p[n] + 19) \div 20)]

(* _soften: floor of 0.90 times the value, inside the bounds. *)
Soften(p) == [n \in Tunable |-> Clamped(n, (9 * p[n]) \div 10)]

(* record_recovery: erosion comes first, then a false positive. *)
Recovered(p, cycles, eroded) ==
  IF eroded THEN Harden(p)
  ELSE IF cycles < p.stability THEN Soften(p)
  ELSE p
=============================================================================
