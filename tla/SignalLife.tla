----------------------------- MODULE SignalLife -----------------------------
(***************************************************************************)
(* What the execution of signals promises: a signal is sent once at most,  *)
(* one order at a time and only while no open position is known as         *)
(* executed; a refused signal is never sent; what is known of a sent       *)
(* signal only grows, from sent to executed to closed, unless its answer   *)
(* is lost: then it stays lost.                                            *)
(***************************************************************************)
CONSTANT Signal

VARIABLES
  life,  \* what became of each signal
  held   \* signals whose position is open at the broker

Init == life = [s \in Signal |-> "waiting"] /\ held = {}

Become(s, from, to) == life[s] = from /\ life' = [life EXCEPT ![s] = to]

(* The trader is told in time that the signal is rejected. *)
Refuse(s) == Become(s, "waiting", "refused") /\ UNCHANGED held

(* The broker fills the order of s. *)
Send(s) ==
  /\ \A t \in Signal : life[t] # "sent"
  /\ \A t \in held : life[t] # "executed"
  /\ Become(s, "waiting", "sent")
  /\ held' = held \cup {s}

(* The answer arrives and is written, or it is lost: to an error, or to    *)
(* the process that stops.                                                 *)
Settle(s) ==
  /\ \E to \in {"executed", "lost"} : Become(s, "sent", to)
  /\ UNCHANGED held

(* The broker closes a position. *)
Leave(s) == s \in held /\ held' = held \ {s} /\ UNCHANGED life

(* Executed signals are recorded as closed, once some position has left.   *)
Record(S) ==
  /\ \A s \in S : life[s] = "executed"
  /\ \E t \in Signal \ held : life[t] \notin {"waiting", "refused"}
  /\ life' = [s \in Signal |-> IF s \in S THEN "closed" ELSE life[s]]
  /\ UNCHANGED held

Next ==
  \/ \E s \in Signal : Refuse(s) \/ Send(s) \/ Settle(s) \/ Leave(s)
  \/ \E S \in SUBSET Signal : Record(S)

Spec == Init /\ [][Next]_<<life, held>>
=============================================================================
