---------------------------- MODULE MCResilience ----------------------------
(* Instances of Resilience for TLC: reports of every kind on two scopes,   *)
(* and a lockdown beside exhausted healing; thresholds a few steps apart.  *)
EXTENDS Resilience

CONSTANTS a, b, p1, none, modules

Record(act, s, p, i) == [action |-> act, scope |-> s, provider |-> p, issue |-> i]

OneScope    == {a}
TwoScopes   == {a, b}
OneProvider == {p1}
NoProviders == {}
TheModules  == {modules}
AnyOutcome  == BOOLEAN

Reports ==
  {Record("SELF_HEAL", a, none, "Check_Database"), Record("MUTE", a, none, "Spread_Anomaly"),
   Record("MUTE", b, none, "none"), Record("LOCKDOWN", b, none, "none"),
   Record("QUARANTINE", a, p1, "none"), Record("QUARANTINE", b, p1, "none")}
LockdownReports == {Record("LOCKDOWN", a, none, "none"), Record("SELF_HEAL", a, none, "Check_Database")}

Level(cau, deg, sta) == [n \in Tunable |-> CASE n = "caution" -> cau [] n = "degraded" -> deg [] OTHER -> sta]
SmallLow == Level(1, 1, 1)
SmallDefault == Level(1, 2, 1)
SmallHigh == Level(2, 3, 2)

=============================================================================
