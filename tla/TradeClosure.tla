---------------------------- MODULE TradeClosure ----------------------------
(***************************************************************************)
(* From a position closed at the broker to a row and a counted result.     *)
(*                                                                         *)
(* Two workers feed one TradeClosureListener: the poller, on the event     *)
(* loop, sees a position by the ticket of its opening order and keeps a    *)
(* cursor; the edge thread reconciles exit deals by the ticket of the      *)
(* deal.  The ClosingMonitor, a task of the event loop, writes rows of its *)
(* own and closes signals.  Position p is the p-th opened; signal p opened *)
(* it.                                                                     *)
(*                                                                         *)
(* Left out: prices, the 24 h history window (rounds are a minute apart),  *)
(* partial closes, tuning, equal numbers of an order and a deal.           *)
(***************************************************************************)
EXTENDS Integers, Sequences

CONSTANTS
  Position,      \* positions of the bot, in opening order
  Linked,        \* their deals carry the signal id ("Aethelgard_<id>"); the
                 \* comments MT5Connector writes today ("AE_...") never do
  Recent,        \* the opening deal is still in the reconciled history
  Shadow,        \* opened by a strategy in SHADOW mode
  ShadowTables,  \* where the mode resolved for a SHADOW trade sends it
  MaxRetries,    \* TradeClosureListener(max_retries)
  MaxRestarts,   \* bound: restarts of the process
  MaxRounds      \* bound: rounds of the ClosingMonitor

ASSUME PositionAssumption == Position \subseteq Nat \ {0}
ASSUME SubsetAssumption   == {Linked, Recent, Shadow} \subseteq SUBSET Position
ASSUME TablesAssumption   == ShadowTables \in (SUBSET {"usr", "sys"}) \ {{}}
ASSUME BoundsAssumption   == /\ MaxRetries \in Nat \ {0}
                             /\ MaxRestarts \in Nat /\ MaxRounds \in Nat

VARIABLES
  closed,    \* broker: positions closed, in closing order
  rows,      \* rows of usr_trades and sys_trades the listener wrote
  counted,   \* calls of record_trade_result for each row
  lost,      \* rows whose result died with the process
  cursor,    \* orch._last_checked_deal_ticket
  task,      \* where each worker is
  signal,    \* sys_signals.status of each signal
  monitor,   \* where the ClosingMonitor is
  monitorRows, \* rows of usr_trades the ClosingMonitor wrote for each signal
  restarts, rounds

listenerVars == <<rows, counted, lost, cursor, task>>
monitorVars  == <<signal, monitor, monitorRows, rounds>>
vars == <<closed, listenerVars, monitorVars, restarts>>

Worker == {"poller", "edge"}
Table  == {"usr", "sys"}
Row    == Worker \X Position \X Table   \* the id is the worker's ticket

Closed == {closed[i] : i \in DOMAIN closed}

(* A batch is the history as it was fetched: closed[next .. upto], without *)
(* the tickets that were not above the cursor.                             *)
Idle  == [pc |-> "idle", next |-> 1, upto |-> 0, above |-> 0,
          table |-> "usr", attempt |-> 0]
Quiet == [pc |-> "idle", next |-> 1, upto |-> 0, executed |-> {}, target |-> {}]
Current(w)    == closed[task[w].next]
CurrentRow(w) == <<w, Current(w), task[w].table>>

Init ==
  /\ closed = <<>> /\ rows = {} /\ lost = {} /\ cursor = 0
  /\ counted = [r \in Row |-> 0]
  /\ task = [w \in Worker |-> Idle]
  /\ signal = [p \in Position |-> "EXECUTED"]
  /\ monitor = Quiet /\ monitorRows = [p \in Position |-> 0]
  /\ restarts = 0 /\ rounds = 0

(* The broker closes a position; stops and targets are hit in any order. *)
Close(p) ==
  /\ p \notin Closed
  /\ closed' = Append(closed, p)
  /\ UNCHANGED <<listenerVars, monitorVars, restarts>>

-----------------------------------------------------------------------------
(* The poller and the ClosingMonitor share the event loop: the poller runs *)
(* when no round of the monitor does, and lets one in only while it sleeps *)
(* between two attempts to save.                                           *)
MayRun(w) == w = "poller" => monitor.pc = "idle"
LoopFree  == \/ task["poller"].pc = "idle"
             \/ task["poller"].pc = "save" /\ task["poller"].attempt > 1

(* Mutant: the reconciliation honours the cursor of the poller. *)
SharedCursor(w) == cursor

(* check_closed_usr_positions keeps tickets above the cursor;              *)
(* reconcile_closed_usr_trades takes every exit deal of the history.       *)
Above(w) == IF w = "poller" THEN cursor ELSE 0

(* The poller needs the signal, edge the opening deal, or skip the trade. *)
Handled(w, p) ==
  p > task[w].above /\ p \in IF w = "poller" THEN Linked ELSE Recent

(* _resolve_shadow_context: LIVE unless the signal leads to a strategy in  *)
(* SHADOW mode.                                                            *)
TablesOf(p) == IF p \in Linked \cap Shadow THEN ShadowTables ELSE {"usr"}

Fetched(w) == [pc |-> "next", next |-> 1, upto |-> Len(closed),
               above |-> Above(w), table |-> "usr", attempt |-> 0]

Fetch(w) ==
  /\ MayRun(w) /\ task[w].pc = "idle" /\ \E p \in Closed : p > Above(w)
  /\ task' = [task EXCEPT ![w] = Fetched(w)]
  /\ UNCHANGED <<closed, rows, counted, lost, cursor, monitorVars, restarts>>

HasNext(w) == MayRun(w) /\ task[w].pc = "next" /\ task[w].next <= task[w].upto
Popped(w) == [task[w] EXCEPT !.pc = "next", !.next = @ + 1,
                             !.table = "usr", !.attempt = 0]
Pop(w)    == task' = [task EXCEPT ![w] = Popped(w)]

(* The handler returned, True or False: the poller moves its cursor. *)
Finish(w) ==
  /\ Pop(w)
  /\ cursor' = IF w = "poller" /\ Current(w) > cursor THEN Current(w) ELSE cursor

Skip(w) ==
  /\ HasNext(w) /\ ~Handled(w, Current(w))
  /\ Pop(w)
  /\ UNCHANGED <<closed, rows, counted, lost, cursor, monitorVars, restarts>>

(* _is_trade_already_processed: trade_exists looks in usr_trades only. *)
AlreadyProcessed(w) ==
  /\ HasNext(w) /\ Handled(w, Current(w))
  /\ <<w, Current(w), "usr">> \in rows
  /\ Finish(w)
  /\ UNCHANGED <<closed, rows, counted, lost, monitorVars, restarts>>

(* Mutant: the result is counted, and the row is left for later. *)
CountUnsaved(w) ==
  /\ HasNext(w) /\ Handled(w, Current(w))
  /\ \E t \in TablesOf(Current(w)) :
       task' = [task EXCEPT ![w] = [@ EXCEPT !.pc = "count", !.table = t]]
  /\ UNCHANGED <<closed, rows, counted, lost, cursor, monitorVars, restarts>>

(* Not there, or the query failed and the trade is taken for new. *)
Resolve(w) ==
  /\ HasNext(w) /\ Handled(w, Current(w))
  /\ \E t \in TablesOf(Current(w)) :
       task' = [task EXCEPT ![w] =
                  [@ EXCEPT !.pc = "save", !.table = t, !.attempt = 1]]
  /\ UNCHANGED <<closed, rows, counted, lost, cursor, monitorVars, restarts>>

(* An error outside the listener leaves the rest of the batch for the next *)
(* call of check_closed_usr_positions.                                     *)
PollError ==
  /\ HasNext("poller")
  /\ task' = [task EXCEPT !["poller"] = Idle]
  /\ UNCHANGED <<closed, rows, counted, lost, cursor, monitorVars, restarts>>

EndBatch(w) ==
  /\ MayRun(w) /\ task[w].pc = "next" /\ task[w].next > task[w].upto
  /\ task' = [task EXCEPT ![w] = Idle]
  /\ UNCHANGED <<closed, rows, counted, lost, cursor, monitorVars, restarts>>

(* Mutant: no primary key. *)
SaveAgain(w) ==
  /\ MayRun(w) /\ task[w].pc = "save"
  /\ rows' = rows \cup {CurrentRow(w)}
  /\ task' = [task EXCEPT ![w].pc = "count"]
  /\ UNCHANGED <<closed, counted, lost, cursor, monitorVars, restarts>>

(* _save_trade_with_retry: the id is the primary key of either table. *)
SaveOk(w) ==
  /\ MayRun(w) /\ task[w].pc = "save" /\ CurrentRow(w) \notin rows
  /\ rows' = rows \cup {CurrentRow(w)}
  /\ task' = [task EXCEPT ![w].pc = "count"]
  /\ UNCHANGED <<closed, counted, lost, cursor, monitorVars, restarts>>

SaveLocked(w) ==
  /\ MayRun(w) /\ task[w].pc = "save" /\ task[w].attempt < MaxRetries
  /\ task' = [task EXCEPT ![w].attempt = @ + 1]
  /\ UNCHANGED <<closed, rows, counted, lost, cursor, monitorVars, restarts>>

(* A duplicate key, any other error, or the last attempt locked out: the   *)
(* handler returns False.                                                  *)
SaveFail(w) ==
  /\ MayRun(w) /\ task[w].pc = "save"
  /\ Finish(w)
  /\ UNCHANGED <<closed, rows, counted, lost, monitorVars, restarts>>

(* risk_manager.record_trade_result, then the feedback and tuning calls. *)
Count(w) ==
  /\ MayRun(w) /\ task[w].pc = "count"
  /\ counted' = [counted EXCEPT ![CurrentRow(w)] = @ + 1]
  /\ Finish(w)
  /\ UNCHANGED <<closed, rows, lost, monitorVars, restarts>>

-----------------------------------------------------------------------------
(* ClosingMonitor.check_closed_usr_positions: a round runs when some       *)
(* signal is EXECUTED, over every closed position of the history.          *)
MonitorStart ==
  /\ LoopFree /\ monitor.pc = "idle" /\ rounds < MaxRounds /\ closed # <<>>
  /\ \E p \in Position : signal[p] = "EXECUTED"
  /\ monitor' = [Quiet EXCEPT !.pc = "save", !.upto = Len(closed),
                   !.executed = {p \in Position : signal[p] = "EXECUTED"}]
  /\ rounds' = rounds + 1
  /\ UNCHANGED <<closed, listenerVars, signal, monitorRows, restarts>>

(* A position without the id of its signal is matched by ticket, a number  *)
(* against the text the executor stored: never; then by order_id, which    *)
(* neither side has: None equals None for the first EXECUTED signal.       *)
Matches(p) == IF p \in Linked THEN {p} ELSE monitor.executed

(* Mutant: the status is set first and the row is left to the next round. *)
StatusFirst ==
  /\ monitor.pc = "save" /\ monitor.next <= monitor.upto
  /\ \E s \in Matches(closed[monitor.next]) :
       monitor' = [monitor EXCEPT !.pc = "status", !.target = {s}]
  /\ UNCHANGED <<closed, listenerVars, signal, monitorRows, rounds, restarts>>

(* save_trade_result with an id of its own and the default mode, LIVE. *)
MonitorSave ==
  /\ monitor.pc = "save" /\ monitor.next <= monitor.upto
  /\ \E s \in Matches(closed[monitor.next]) :
       /\ monitorRows' = [monitorRows EXCEPT ![s] = @ + 1]
       /\ monitor' = [monitor EXCEPT !.pc = "status", !.target = {s}]
  /\ UNCHANGED <<closed, listenerVars, signal, rounds, restarts>>

NextPosition ==
  monitor' = [monitor EXCEPT !.pc = "save", !.target = {}, !.next = @ + 1]

(* update_signal_status(signal_id, "CLOSED"). *)
MonitorClose ==
  /\ monitor.pc = "status"
  /\ signal' = [p \in Position |->
                  IF p \in monitor.target THEN "CLOSED" ELSE signal[p]]
  /\ NextPosition
  /\ UNCHANGED <<closed, listenerVars, monitorRows, rounds, restarts>>

(* Either call may raise; _update_trade_result logs it. *)
MonitorError ==
  /\ \/ monitor.pc = "status"
     \/ monitor.pc = "save" /\ monitor.next <= monitor.upto
  /\ NextPosition
  /\ UNCHANGED <<closed, listenerVars, signal, monitorRows, rounds, restarts>>

MonitorEnd ==
  /\ monitor.pc = "save" /\ monitor.next > monitor.upto
  /\ monitor' = Quiet
  /\ UNCHANGED <<closed, listenerVars, signal, monitorRows, rounds, restarts>>

-----------------------------------------------------------------------------
(* The process stops anywhere and starts again, with the cursor at zero. *)
Restart ==
  /\ restarts < MaxRestarts /\ restarts' = restarts + 1
  /\ lost' = lost \cup {CurrentRow(w) : w \in {v \in Worker : task[v].pc = "count"}}
  /\ task' = [w \in Worker |-> Idle] /\ cursor' = 0 /\ monitor' = Quiet
  /\ UNCHANGED <<closed, rows, counted, signal, monitorRows, rounds>>

WorkerStep(w) ==
  \/ Fetch(w) \/ Skip(w) \/ AlreadyProcessed(w) \/ Resolve(w) \/ EndBatch(w)
  \/ SaveOk(w) \/ SaveLocked(w) \/ SaveFail(w) \/ Count(w)

MonitorStep == \/ MonitorStart \/ MonitorSave \/ MonitorClose
               \/ MonitorError \/ MonitorEnd

Next ==
  \/ \E p \in Position : Close(p)
  \/ \E w \in Worker : WorkerStep(w)
  \/ PollError
  \/ MonitorStep
  \/ Restart

Spec == Init /\ [][Next]_vars

(* The EdgeMonitor thread runs a round every minute for ever, and the      *)
(* database is not locked or failing on every single attempt.  Nothing is  *)
(* assumed of the poller, which the main cycle reaches only after a cycle  *)
(* with orders and without lockdown.                                       *)
FairSpec == Spec /\ WF_vars(WorkerStep("edge")) /\ SF_vars(SaveOk("edge"))
-----------------------------------------------------------------------------
TaskType == [pc : {"idle", "next", "save", "count"}, next : Nat \ {0}, upto : Nat,
             above : Nat, table : Table, attempt : 0..MaxRetries]

MonitorType == [pc : {"idle", "save", "status"}, next : Nat \ {0}, upto : Nat,
                executed : SUBSET Position, target : SUBSET Position]

(* A batch lies within the history; a worker saves or counts a trade of it. *)
InBatch(r) ==
  /\ r.upto <= Len(closed)
  /\ r.pc \in {"save", "count"} => r.next <= r.upto

TypeOK ==
  /\ closed \in Seq(Position) /\ cursor \in Nat
  /\ rows \subseteq Row /\ lost \subseteq Row
  /\ counted \in [Row -> Nat]
  /\ task \in [Worker -> TaskType]
  /\ \A w \in Worker : InBatch(task[w])
  /\ signal \in [Position -> {"EXECUTED", "CLOSED"}]
  /\ monitor \in MonitorType /\ monitor.upto <= Len(closed)
  /\ monitorRows \in [Position -> Nat]
  /\ restarts \in 0..MaxRestarts /\ rounds \in 0..MaxRounds

InFlight(r) == \E w \in Worker : task[w].pc = "count" /\ CurrentRow(w) = r

(* The row and the risk manager agree: every row the listener wrote has    *)
(* its result counted exactly once, or about to be counted, or lost with a *)
(* stopped process, and no result is counted without its row.              *)
RowsAccounted ==
  \A r \in Row :
    /\ r \in lost => r \in rows
    /\ counted[r] = IF r \in rows /\ r \notin lost /\ ~InFlight(r) THEN 1 ELSE 0
    /\ InFlight(r) => r \in rows /\ r \notin lost

(* A signal the ClosingMonitor closed has a row of usr_trades, wherever a  *)
(* call failed or the process stopped in between.                          *)
ClosedHasRow ==
  \A p \in Position : signal[p] = "CLOSED" \/ p \in monitor.target =>
                         monitorRows[p] > 0

(* The listener, its two workers and the restarts implement TradeJournal. *)
Reported(r) == IF counted[r] = 1 THEN "counted" ELSE "counted twice"
StatusOf(r) ==
  IF r \in lost THEN "lost"
  ELSE IF counted[r] > 0 THEN Reported(r)
  ELSE IF r \in rows THEN "saved" ELSE "none"

Status == [r \in Row |-> StatusOf(r)]

Journal == INSTANCE TradeJournal WITH status <- Status

ImplementsJournal == Journal!Spec

(* A closed position whose opening deal is recent enough gets a row from   *)
(* the reconciliation, whatever the poller and the restarts do.            *)
Reconciled ==
  \A p \in Recent :
    p \in Closed ~> \E t \in Table : <<"edge", p, t>> \in rows
=============================================================================
