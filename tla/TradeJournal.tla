---------------------------- MODULE TradeJournal ----------------------------
(***************************************************************************)
(* What the trade closure path promises about the rows it writes: a row is *)
(* written once, its result is reported to the risk manager at most once   *)
(* and never before it is written, and only a stopped process loses the    *)
(* report of a written row.                                                *)
(***************************************************************************)
CONSTANT Row       \* possible rows of usr_trades and sys_trades

VARIABLE status    \* what happened to each row

Init == status = [r \in Row |-> "none"]

Move(r, from, to) ==
  status[r] = from /\ status' = [status EXCEPT ![r] = to]

Write(r)  == Move(r, "none", "saved")
Report(r) == Move(r, "saved", "counted")

(* The process stops: what was written and not reported never will be. *)
Crash ==
  status' = [r \in Row |-> IF status[r] = "saved" THEN "lost" ELSE status[r]]

Next == Crash \/ \E r \in Row : Write(r) \/ Report(r)

Spec == Init /\ [][Next]_status
=============================================================================
