-------------------------- MODULE SignalExecution --------------------------
(***************************************************************************)
(* From a signal to an order: the cycle of the MainOrchestrator, the       *)
(* OrderExecutor, the queue of B/C-grade signals a trader may answer for   *)
(* five minutes, and the expiration of signals nobody executed.            *)
(*                                                                         *)
(* The cycle runs on one event loop, which other tasks enter while an      *)
(* order is at the broker; the trader's answers arrive in the process of   *)
(* the API, between any two statements of the cycle.                       *)
(*                                                                         *)
(* Signals share a symbol and a timeframe.  Left out: what the checks of   *)
(* the executor compute (any may refuse), scoring, cooldowns, and the      *)
(* manual execution of an approved signal, which reads an undefined name   *)
(* and never gets to the broker.                                           *)
(***************************************************************************)
EXTENDS Integers, FiniteSets

CONSTANTS
  Signal,
  Direction,   \* BUY or SELL of each signal
  Reviewed,    \* signals the quality scorer grades B or C
  Traced,      \* signals that carry the trace_id of their cycle: all of
               \* them in production
  MaxRestarts  \* bound: restarts of the process of the cycle

ASSUME SubsetAssumption   == Traced \subseteq Signal /\ Reviewed \subseteq Signal
ASSUME RestartsAssumption == MaxRestarts \in Nat

VARIABLES
  row,      \* sys_signals.status; "unsaved": save_signal failed
  review,   \* sys_signals.review_status
  due,      \* review_timeout_at has passed
  aged,     \* older than four candles: the window of expiration, and of
            \* has_recent_signal
  fills,    \* orders the broker filled for a signal
  open,     \* signals whose position is open at the broker
  phase,    \* where the cycle is
  todo,     \* timed-out reviews it fetched
  batch,    \* signals it is going to execute
  exec,     \* where the executor is with a signal
  locked,   \* RiskManager.is_locked()
  overrun,  \* orders filled under the lockdown in force
  request,  \* answers of the trader that were read and not yet written
  told,     \* rejections confirmed to the trader, written before the
            \* cycle had the signal as timed out
  restarts

brokerVars == <<fills, open, overrun>>
cycleVars  == <<phase, todo, batch, exec>>
traderVars == <<request, told>>
clockVars  == <<due, aged>>
vars == <<row, review, clockVars, brokerVars, cycleVars, locked, traderVars, restarts>>

Verdict == {"APPROVED", "REJECTED"}

Init ==
  /\ row = [s \in Signal |-> "none"] /\ review = [s \in Signal |-> "NONE"]
  /\ due = {} /\ aged = {}
  /\ fills = [s \in Signal |-> 0] /\ open = {} /\ overrun = 0
  /\ phase = "idle" /\ todo = {} /\ batch = {}
  /\ exec = [s \in Signal |-> "none"]
  /\ locked = FALSE
  /\ request = [s \in Signal |-> "none"] /\ told = {}
  /\ restarts = 0

(* update_signal_status: UPDATE ... WHERE id, whatever the status was. *)
HasRow(s)      == row[s] \notin {"none", "unsaved"}
Updated(s, st) == IF HasRow(s) THEN [row EXCEPT ![s] = st] ELSE row

(* has_open_position; a position the broker does not have is a ghost. *)
Ghosts       == {s \in Signal : row[s] = "EXECUTED"}
SlotFree     == Ghosts # {} => open = {}
HasRecent(s) == \E t \in Signal \ (aged \cup {s}) :
                  row[t] = "PENDING" /\ Direction[t] = Direction[s]
-----------------------------------------------------------------------------
(* run_pre_phase: check_and_execute_timed_out_reviews.                     *)

(* Mutants: the reviews come from _pending_reviews, which an answer        *)
(* through the API does not clear; those of old signals are left out.      *)
FetchCached ==
  /\ phase = "idle" /\ phase' = "mark"
  /\ todo' = {s \in due : review[s] \in {"PENDING", "REJECTED"}}
  /\ UNCHANGED <<row, review, clockVars, brokerVars, batch, exec, locked, traderVars, restarts>>

FetchFresh ==
  /\ phase = "idle" /\ phase' = "mark"
  /\ todo' = {s \in due \ aged : review[s] = "PENDING"}
  /\ UNCHANGED <<row, review, clockVars, brokerVars, batch, exec, locked, traderVars, restarts>>

(* The query, with the timeout compared in Python. *)
StartCycle ==
  /\ phase = "idle" /\ phase' = "mark"
  /\ todo' = {s \in due : review[s] = "PENDING"}
  /\ UNCHANGED <<row, review, clockVars, brokerVars, batch, exec, locked, traderVars, restarts>>

(* Mutants: the review is left as it is until the signal is executed; the  *)
(* status is set with the review.                                          *)
MarkUnwritten(s) ==
  /\ phase = "mark" /\ s \in todo
  /\ todo' = todo \ {s} /\ batch' = batch \cup {s}
  /\ UNCHANGED <<row, review, clockVars, brokerVars, phase, exec, locked, traderVars, restarts>>
MarkExecuted(s) ==
  /\ phase = "mark" /\ s \in todo
  /\ row' = Updated(s, "EXECUTED") /\ review' = [review EXCEPT ![s] = "AUTO_EXECUTED"]
  /\ todo' = todo \ {s} /\ batch' = batch \cup {s}
  /\ UNCHANGED <<clockVars, brokerVars, phase, exec, locked, traderVars, restarts>>

(* _auto_execute_on_timeout: no look at what the review is by now. *)
Mark(s) ==
  /\ phase = "mark" /\ s \in todo
  /\ review' = [review EXCEPT ![s] = "AUTO_EXECUTED"]
  /\ todo' = todo \ {s} /\ batch' = batch \cup {s}
  /\ UNCHANGED <<row, clockVars, brokerVars, phase, exec, locked, traderVars, restarts>>

MarkFails(s) ==
  /\ phase = "mark" /\ s \in todo /\ todo' = todo \ {s}
  /\ UNCHANGED <<row, review, clockVars, brokerVars, phase, batch, exec, locked, traderVars, restarts>>

MarksDone ==
  /\ phase = "mark" /\ todo = {} /\ phase' = "auto"
  /\ UNCHANGED <<row, review, clockVars, brokerVars, todo, batch, exec, locked, traderVars, restarts>>
-----------------------------------------------------------------------------
(* OrderExecutor.execute_signal, for the timed-out reviews and for the     *)
(* signals of the cycle, one at a time.                                    *)
Quiet       == \A t \in Signal : exec[t] = "none"
Takes(s)    == phase \in {"auto", "trade"} /\ Quiet /\ s \in batch
SetExec(s, pc) == exec' = [exec EXCEPT ![s] = pc]

(* register_failed; the write itself may raise. *)
RegisterFailed(s) == row' \in {row, Updated(s, "REJECTED")}

Refuse(s) ==
  /\ Takes(s) /\ RegisterFailed(s) /\ batch' = batch \ {s}
  /\ UNCHANGED <<review, clockVars, brokerVars, phase, todo, exec, locked, traderVars, restarts>>

(* Mutants: no look at the open positions; none at the lockdown; signals   *)
(* executed as concurrent tasks.                                           *)
AdmitSecond(s) ==
  /\ Takes(s) /\ ~locked /\ ~HasRecent(s)
  /\ SetExec(s, "admitted") /\ batch' = batch \ {s}
  /\ UNCHANGED <<row, review, clockVars, brokerVars, phase, todo, locked, traderVars, restarts>>
AdmitLocked(s) ==
  /\ Takes(s) /\ SlotFree /\ ~HasRecent(s)
  /\ SetExec(s, "admitted") /\ batch' = batch \ {s}
  /\ UNCHANGED <<row, review, clockVars, brokerVars, phase, todo, locked, traderVars, restarts>>

AdmitTogether(s) ==
  /\ phase \in {"auto", "trade"} /\ s \in batch /\ ~locked /\ SlotFree /\ ~HasRecent(s)
  /\ SetExec(s, "admitted") /\ batch' = batch \ {s}
  /\ UNCHANGED <<row, review, clockVars, brokerVars, phase, todo, locked, traderVars, restarts>>

(* The checks run without an await.  clear_ghost_position selects from a   *)
(* table that is gone: a ghost keeps its status and no longer counts.      *)
Admit(s) ==
  /\ Takes(s) /\ ~locked /\ SlotFree /\ ~HasRecent(s)
  /\ SetExec(s, "admitted") /\ batch' = batch \ {s}
  /\ UNCHANGED <<row, review, clockVars, brokerVars, phase, todo, locked, traderVars, restarts>>

(* Connector disabled or not connected in time, slippage veto, rejection. *)
NotSent(s) ==
  /\ exec[s] = "admitted" /\ RegisterFailed(s) /\ SetExec(s, "none")
  /\ UNCHANGED <<review, clockVars, brokerVars, phase, todo, batch, locked, traderVars, restarts>>

(* The order goes out from a thread: the lockdown is not read again. *)
Fill(s) ==
  /\ exec[s] = "admitted" /\ SetExec(s, "filled")
  /\ fills' = [fills EXCEPT ![s] = @ + 1] /\ open' = open \cup {s}
  /\ overrun' = IF locked THEN overrun + 1 ELSE overrun
  /\ UNCHANGED <<row, review, clockVars, phase, todo, batch, locked, traderVars, restarts>>

Answered(s) ==
  /\ exec[s] = "filled" /\ row' = Updated(s, "EXECUTED") /\ SetExec(s, "none")
  /\ UNCHANGED <<review, clockVars, brokerVars, phase, todo, batch, locked, traderVars, restarts>>

(* No ticket, or an exception after order_send, the one that follows the   *)
(* EXECUTED of register_successful included: the order is taken for        *)
(* rejected.                                                               *)
AnswerLost(s) ==
  /\ exec[s] = "filled" /\ RegisterFailed(s) /\ SetExec(s, "none")
  /\ UNCHANGED <<review, clockVars, brokerVars, phase, todo, batch, locked, traderVars, restarts>>

ExecutorStep(s) == Refuse(s) \/ Admit(s) \/ NotSent(s) \/ Fill(s) \/ Answered(s) \/ AnswerLost(s)
-----------------------------------------------------------------------------
(* The rest of the cycle.                                                  *)
Moves(from, to) == phase = from /\ phase' = to

AutoDone ==
  /\ Moves("auto", "expire") /\ batch = {} /\ Quiet
  /\ UNCHANGED <<row, review, clockVars, brokerVars, todo, batch, exec, locked, traderVars, restarts>>

(* Mutant: a signal that was queued for review does not expire. *)
ExpireUnreviewed(s) ==
  /\ phase = "expire" /\ s \in aged /\ row[s] = "PENDING" /\ review[s] = "NONE"
  /\ row' = Updated(s, "EXPIRED")
  /\ UNCHANGED <<review, clockVars, brokerVars, cycleVars, locked, traderVars, restarts>>

(* expire_old_sys_signals. *)
Expire(s) ==
  /\ phase = "expire" /\ s \in aged /\ row[s] = "PENDING"
  /\ row' = Updated(s, "EXPIRED")
  /\ UNCHANGED <<review, clockVars, brokerVars, cycleVars, locked, traderVars, restarts>>

ExpireDone ==
  /\ Moves("expire", "scan") /\ \A s \in aged : row[s] # "PENDING"
  /\ UNCHANGED <<row, review, clockVars, brokerVars, todo, batch, exec, locked, traderVars, restarts>>

(* is_duplicate, then _process_valid_signal: a position the broker does    *)
(* not have is closed in the table.  When save_signal fails the signal     *)
(* goes on without an id.                                                  *)
Emit(s) ==
  /\ phase = "scan" /\ row[s] = "none" /\ SlotFree /\ ~HasRecent(s)
  /\ \E st \in {"PENDING", "unsaved"} :
       row' = [t \in Signal |-> IF t = s THEN st
                                ELSE IF t \in Ghosts THEN "CLOSED" ELSE row[t]]
  /\ batch' = batch \cup {s}
  /\ UNCHANGED <<review, clockVars, brokerVars, phase, todo, exec, locked, traderVars, restarts>>

(* run_signal_filter: risk validation, vetoes, toggles; none in lockdown. *)
Filter ==
  /\ Moves("scan", "trade") /\ ~locked
  /\ batch' \in SUBSET batch
  /\ UNCHANGED <<row, review, clockVars, brokerVars, todo, exec, locked, traderVars, restarts>>

(* Duplicate, cooling down, not authorised, grade D or F, or an error. *)
Drop(s) ==
  /\ phase = "trade" /\ Takes(s) /\ batch' = batch \ {s}
  /\ UNCHANGED <<row, review, clockVars, brokerVars, phase, todo, exec, locked, traderVars, restarts>>

(* Mutant: the signal is queued and executed as well. *)
QueueAndGo(s) ==
  /\ phase = "trade" /\ s \in Reviewed /\ Takes(s) /\ review[s] = "NONE"
  /\ review' = IF HasRow(s) /\ s \notin Traced
                 THEN [review EXCEPT ![s] = "PENDING"] ELSE review
  /\ UNCHANGED <<row, clockVars, brokerVars, cycleVars, locked, traderVars, restarts>>

(* Grade B or C: queue_for_review updates the row whose id is the trace_id *)
(* when there is one: no row.                                              *)
Queue(s) ==
  /\ phase = "trade" /\ s \in Reviewed /\ Takes(s) /\ batch' = batch \ {s}
  /\ review' = IF HasRow(s) /\ s \notin Traced
                 THEN [review EXCEPT ![s] = "PENDING"] ELSE review
  /\ UNCHANGED <<row, clockVars, brokerVars, phase, todo, exec, locked, traderVars, restarts>>

(* The cycle is over, or a guard or an error ends it early. *)
EndCycle ==
  /\ \/ phase \in {"expire", "scan"}
     \/ phase = "trade" /\ batch = {} /\ Quiet
  /\ phase' = "idle" /\ batch' = {}
  /\ UNCHANGED <<row, review, clockVars, brokerVars, todo, exec, locked, traderVars, restarts>>

CycleStep ==
  \/ StartCycle \/ MarksDone \/ AutoDone \/ ExpireDone \/ Filter \/ EndCycle
  \/ \E s \in Signal : \/ Mark(s) \/ MarkFails(s) \/ ExecutorStep(s)
                       \/ Expire(s) \/ Emit(s) \/ Drop(s) \/ Queue(s)
-----------------------------------------------------------------------------
(* The trader, through the API: process_trader_approval and _rejection     *)
(* read the review and then write the answer, without a condition.         *)
TraderReads(s, v) ==
  /\ request[s] = "none" /\ review[s] = "PENDING"
  /\ request' = [request EXCEPT ![s] = v]
  /\ UNCHANGED <<row, review, clockVars, brokerVars, cycleVars, locked, told, restarts>>

InTime(s) == review[s] = "PENDING" /\ s \notin todo

(* The row of sys_audit_logs may fail after it: the trader is told nothing *)
(* was done.                                                               *)
TraderWrites(s) ==
  /\ request[s] # "none"
  /\ review' = [review EXCEPT ![s] = request[s]]
  /\ told' \in {told, told \cup {t \in {s} : request[s] = "REJECTED" /\ InTime(s)}}
  /\ request' = [request EXCEPT ![s] = "none"]
  /\ UNCHANGED <<row, clockVars, brokerVars, cycleVars, locked, restarts>>

TraderFails(s) ==
  /\ request[s] # "none" /\ request' = [request EXCEPT ![s] = "none"]
  /\ UNCHANGED <<row, review, clockVars, brokerVars, cycleVars, locked, told, restarts>>

(* Trade results lock and unlock the RiskManager from other tasks. *)
Lock ==
  /\ ~locked /\ locked' = TRUE
  /\ UNCHANGED <<row, review, clockVars, brokerVars, cycleVars, traderVars, restarts>>
Unlock ==
  /\ locked /\ locked' = FALSE /\ overrun' = 0
  /\ UNCHANGED <<row, review, clockVars, fills, open, cycleVars, traderVars, restarts>>

TimeOut(s) ==
  /\ review[s] = "PENDING" /\ s \notin due /\ due' = due \cup {s}
  /\ UNCHANGED <<row, review, aged, brokerVars, cycleVars, locked, traderVars, restarts>>
Age(s) ==
  /\ row[s] = "PENDING" /\ s \notin aged /\ aged' = aged \cup {s}
  /\ UNCHANGED <<row, review, due, brokerVars, cycleVars, locked, traderVars, restarts>>

PositionCloses(s) ==
  /\ s \in open /\ open' = open \ {s}
  /\ UNCHANGED <<row, review, clockVars, fills, overrun, cycleVars, locked, traderVars, restarts>>

(* The ClosingMonitor: some closed position is taken for that of s, which  *)
(* it finds by ticket or order among the executed ones; the comment of an  *)
(* order gives no id that a row has.                                       *)
RecordClosed(s) ==
  /\ row[s] = "EXECUTED" /\ \E t \in Signal \ open : fills[t] > 0
  /\ row' = [row EXCEPT ![s] = "CLOSED"]
  /\ UNCHANGED <<review, clockVars, brokerVars, cycleVars, locked, traderVars, restarts>>

(* The process of the cycle stops anywhere and starts again. *)
Restart ==
  /\ restarts < MaxRestarts /\ restarts' = restarts + 1
  /\ phase' = "idle" /\ todo' = {} /\ batch' = {}
  /\ exec' = [s \in Signal |-> "none"]
  /\ UNCHANGED <<row, review, clockVars, brokerVars, locked, traderVars>>

TraderStep(s) == (\E v \in Verdict : TraderReads(s, v)) \/ TraderWrites(s) \/ TraderFails(s)

Next ==
  \/ CycleStep
  \/ \E s \in Signal : \/ TraderStep(s) \/ TimeOut(s) \/ Age(s)
                       \/ PositionCloses(s) \/ RecordClosed(s)
  \/ Lock \/ Unlock \/ Restart

Spec == Init /\ [][Next]_vars

(* The cycle repeats for ever, the broker answers, time passes, and the    *)
(* writes that mark a review or expire a signal do not fail every time.    *)
FairSpec ==
  /\ Spec /\ WF_vars(CycleStep)
  /\ \A s \in Signal : /\ WF_vars(TimeOut(s)) /\ WF_vars(Age(s))
                       /\ SF_vars(Mark(s)) /\ SF_vars(Expire(s))
-----------------------------------------------------------------------------
TypeOK ==
  /\ row \in [Signal -> {"none", "unsaved", "PENDING", "EXECUTED", "REJECTED",
                         "EXPIRED", "CLOSED"}]
  /\ review \in [Signal -> {"NONE", "PENDING", "AUTO_EXECUTED"} \cup Verdict]
  /\ due \subseteq Signal /\ aged \subseteq Signal
  /\ fills \in [Signal -> Nat] /\ open \subseteq Signal /\ overrun \in Nat
  /\ phase \in {"idle", "mark", "auto", "expire", "scan", "trade"}
  /\ todo \subseteq Signal /\ batch \subseteq Signal
  /\ exec \in [Signal -> {"none", "admitted", "filled"}]
  /\ locked \in BOOLEAN
  /\ request \in [Signal -> {"none"} \cup Verdict]
  /\ told \subseteq Signal
  /\ restarts \in 0..MaxRestarts
  /\ \A s, t \in Signal : exec[s] # "none" /\ exec[t] # "none" => s = t

(* A signal is filled at most once, however the timeout of its review, the *)
(* trader, lost answers and restarts interleave.                           *)
FilledOnce == \A s \in Signal : fills[s] <= 1

(* A signal the tables call executed was filled. *)
ExecutedWasFilled == \A s \in Signal : row[s] \in {"EXECUTED", "CLOSED"} => fills[s] > 0

(* Of the positions open at the broker at most one is known as executed,   *)
(* although several signals are saved, queued and timed out at once.       *)
OneTracked ==
  \A s, t \in open : row[s] = "EXECUTED" /\ row[t] = "EXECUTED" => s = t

(* After a lockdown begins at most the one order in flight still goes out. *)
LockdownOverrun == overrun <= 1

(* A question still open to the trader is about a signal not executed. *)
OpenQuestion ==
  \A s \in Signal : review[s] = "PENDING" => fills[s] = 0 /\ exec[s] = "none"

(* A rejection the trader was told of in time keeps the signal out of the  *)
(* execution path for good.                                                *)
RejectionHolds ==
  \A s \in told :
    review[s] = "REJECTED" /\ fills[s] = 0 /\ exec[s] = "none" /\ s \notin batch

(* What became of a signal, for the broker, the tables and the trader.     *)
LifeOf(s) ==
  IF fills[s] = 0 THEN IF s \in told THEN "refused" ELSE "waiting"
  ELSE IF row[s] = "EXECUTED" THEN "executed"
  ELSE IF row[s] = "CLOSED" THEN "closed"
  ELSE IF exec[s] = "filled" THEN "sent" ELSE "lost"

LifeOfSignals == [s \in Signal |-> LifeOf(s)]

Life == INSTANCE SignalLife WITH life <- LifeOfSignals, held <- open

(* Whatever the cycle, the trader, the broker, expiry and restarts do to a *)
(* signal, its life is one SignalLife allows: no status of a filled signal *)
(* is ever taken back.                                                     *)
ImplementsLife == Life!Spec

(* No signal stays PENDING: it is executed, rejected or expires. *)
PendingResolved == \A s \in Signal : row[s] = "PENDING" ~> row[s] # "PENDING"

(* No review stays PENDING: it is answered or times out. *)
ReviewAnswered == \A s \in Reviewed : review[s] = "PENDING" ~> review[s] # "PENDING"
=============================================================================
