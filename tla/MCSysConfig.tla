----------------------------- MODULE MCSysConfig -----------------------------
(***************************************************************************)
(* Instances of SysConfig for TLC: the main loop and another thread, on    *)
(* the same store or on another.                                           *)
(***************************************************************************)
EXTENDS SysConfig

CONSTANTS loop, other, main, web

Errands == [t \in Thread |-> IF t = Loop THEN {} ELSE {"direct", "raise"}]
==============================================================================
