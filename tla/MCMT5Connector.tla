--------------------------- MODULE MCMT5Connector ---------------------------
(* Instances of MT5Connector for TLC: one connector configured with a demo *)
(* account on a terminal that was left on a real one.                       *)
EXTENDS MT5Connector, TLC

CONSTANTS bot, paper, live, t1, t2, t3

OneInstance == [c \in Conns |-> paper]
OfBot == [t \in Chains \cup Callers |-> bot]
===========================================================================
