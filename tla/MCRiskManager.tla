---------------------------- MODULE MCRiskManager ----------------------------
(* An instance of RiskManager for TLC: the event loop and the EdgeMonitor  *)
(* thread, and one caller that writes the whole of sys_config back.        *)
EXTENDS RiskManager

CONSTANTS main, edge, tuner

BothThreads == {main, edge}
OneWriter   == {tuner}
AnyOutcome  == BOOLEAN
=============================================================================
