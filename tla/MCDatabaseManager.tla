-------------------------- MODULE MCDatabaseManager --------------------------
(* Small instances of DatabaseManager for TLC. *)
EXTENDS DatabaseManager

CONSTANTS r1, w1, l1, c1, c2, c3, c4, k1, k2, k3, k4

OneRepository == {r1}
OneWriter == {w1}
OneLegacy == {l1}
Nobody == {}
Connections == {c1, c2, c3, c4}
Locks == {k1, k2, k3, k4}
=============================================================================
