----------------------------- MODULE RiskManager -----------------------------
(***************************************************************************)
(* The lockdown state of core_brain/risk_manager.py.                       *)
(*                                                                         *)
(* One RiskManager object is shared by the asyncio loop (MainThread: the   *)
(* orchestrator's trade closure polling and the economic and anomaly       *)
(* guards) and by the EdgeMonitor thread, which reconciles closed trades   *)
(* with the broker and runs the same listener in a loop of its own.  The   *)
(* object takes no lock, so the calls interleave.  A statement without a   *)
(* call is one step: the interpreter changes threads at calls and loop     *)
(* back-edges only.  A step therefore ends where the method calls another  *)
(* Python function, or writes to the database.                             *)
(*                                                                         *)
(* The lockdown is also a row of sys_config, which others write as well:   *)
(* update_dynamic_params and update_risk_settings (data_vault/             *)
(* system_db.py) take the whole table as they have read it, change one     *)
(* entry of theirs and write every row back.  The main loop does so in its *)
(* scans, and the tuners and the API do.                                   *)
(*                                                                         *)
(* Left out: capital, the wording of sys_config values, logging.           *)
(***************************************************************************)
EXTENDS Integers, FiniteSets

CONSTANTS
  Thread,               \* threads that reach the RiskManager
  MainThread,           \* the asyncio event loop
  MaxConsecutiveLosses, \* risk_settings["max_consecutive_losses"]
  MaxResults,           \* bound: trade results recorded in a behaviour
  Writer,               \* callers that write a whole sys_config back
  NoState,              \* such a caller has read nothing
  WriteOutcome          \* TRUE: sys_config written; FALSE: error swallowed

ASSUME MainThreadAssumption == MainThread \in Thread
ASSUME MaxLossesAssumption  == MaxConsecutiveLosses \in Nat \ {0}
ASSUME MaxResultsAssumption == MaxResults \in Nat
ASSUME OutcomeAssumption    == WriteOutcome \subseteq BOOLEAN
ASSUME NoStateAssumption    == NoState \notin BOOLEAN

VARIABLES
  losses,     \* self.consecutive_losses
  lockdown,   \* self.lockdown_mode
  stored,     \* sys_config["lockdown_mode"] in the database
  pc,         \* where each thread is inside the RiskManager
  results,    \* trade results recorded so far
  stale,      \* the last write of sys_config was swallowed
  overlap,    \* the last lockdown change began while another was unsaved
  correction, \* last outcome of HealthManager.auto_correct_lockdown
  seen,       \* the lockdown in the table that a Writer has read
  undone      \* a Writer put an older lockdown over the last one saved

table == <<seen, undone>>
vars == <<losses, lockdown, stored, pc, results, stale, overlap, correction, seen, undone>>

Pc == {"idle", "deactivate", "activate", "setLockdown", "saveOn", "saveOff"}

(* A thread that changed lockdown_mode and has not yet written sys_config. *)
Unsaved(t) == pc[t] \in {"saveOn", "saveOff"}
Go(t, to)  == pc' = [pc EXCEPT ![t] = to]

Init ==
  /\ losses = 0 /\ lockdown = FALSE /\ stored = FALSE
  /\ pc = [t \in Thread |-> "idle"]
  /\ results = 0 /\ stale = FALSE /\ overlap = FALSE /\ correction = "none"
  /\ seen = [w \in Writer |-> NoState] /\ undone = FALSE

(* update_sys_config catches and logs every exception: a failed write      *)
(* leaves the row as it was and the caller cannot tell.                    *)
Persist(value) ==
  \E ok \in WriteOutcome :
    /\ stored' = IF ok THEN value ELSE stored
    /\ stale' = ~ok
    /\ undone' = (undone /\ ~ok)

-----------------------------------------------------------------------------
(* record_trade_result(is_win=True), up to the call of _deactivate_lockdown. *)
RecordWin(t) ==
  /\ pc[t] = "idle" /\ results < MaxResults
  /\ results' = results + 1
  /\ losses' = 0
  /\ Go(t, IF lockdown THEN "deactivate" ELSE "idle")
  /\ UNCHANGED <<lockdown, stored, stale, overlap, correction, table>>

(* Mutant: > instead of >= in the comparison with the limit. *)
LimitExceeded(t) ==
  /\ pc[t] = "idle" /\ results < MaxResults
  /\ results' = results + 1 /\ losses' = losses + 1
  /\ Go(t, IF losses + 1 > MaxConsecutiveLosses THEN "activate" ELSE "idle")
  /\ UNCHANGED <<lockdown, stored, stale, overlap, correction, table>>

(* record_trade_result(is_win=False), up to the call of _activate_lockdown. *)
RecordLoss(t) ==
  /\ pc[t] = "idle" /\ results < MaxResults
  /\ results' = results + 1
  /\ losses' = losses + 1
  /\ Go(t, IF losses + 1 >= MaxConsecutiveLosses THEN "activate" ELSE "idle")
  /\ UNCHANGED <<lockdown, stored, stale, overlap, correction, table>>

(* Mutant: the lift is not written. *)
LiftNotSaved(t) ==
  /\ pc[t] = "deactivate" /\ lockdown' = FALSE /\ losses' = 0
  /\ Go(t, "idle") /\ UNCHANGED <<stored, results, stale, overlap, correction, table>>

(* _deactivate_lockdown: nothing if another thread already lifted it. *)
Deactivate(t) ==
  /\ pc[t] = "deactivate"
  /\ IF lockdown
     THEN /\ lockdown' = FALSE /\ losses' = 0
          /\ overlap' = (\E u \in Thread \ {t} : Unsaved(u))
          /\ Go(t, "saveOff")
     ELSE Go(t, "idle") /\ UNCHANGED <<lockdown, losses, overlap>>
  /\ UNCHANGED <<stored, results, stale, correction, table>>

(* Mutant: the limit is logged and nothing is locked. *)
OnlyLogged(t) ==
  /\ pc[t] = "activate" /\ Go(t, "idle")
  /\ UNCHANGED <<losses, lockdown, stored, results, stale, overlap, correction, table>>

(* _activate_lockdown: the test, then (after datetime.now) the assignment. *)
Activate(t) ==
  /\ pc[t] = "activate"
  /\ Go(t, IF lockdown THEN "idle" ELSE "setLockdown")
  /\ UNCHANGED <<losses, lockdown, stored, results, stale, overlap, correction, table>>

LockNow(t) ==
  /\ lockdown' = TRUE
  /\ overlap' = (\E u \in Thread \ {t} : Unsaved(u))
  /\ Go(t, "saveOn")
  /\ UNCHANGED <<losses, stored, results, stale, correction, table>>

SetLockdown(t) == pc[t] = "setLockdown" /\ LockNow(t)

(* The coroutine activate_lockdown, called by the economic and anomaly     *)
(* guards on the event loop, whatever lockdown_mode is.                    *)
ActivateExternal == pc[MainThread] = "idle" /\ LockNow(MainThread)

SaveLockdown(t) ==
  /\ Unsaved(t)
  /\ Persist(pc[t] = "saveOn")
  /\ Go(t, "idle")
  /\ UNCHANGED <<losses, lockdown, results, overlap, correction, seen>>

(* Mutant: the correction writes the attribute of the object. *)
CorrectInMemory ==
  /\ pc[MainThread] = "idle"
  /\ lockdown' = (lockdown /\ losses >= MaxConsecutiveLosses)
  /\ UNCHANGED <<losses, stored, pc, results, stale, overlap, correction, table>>

(* HealthManager.auto_correct_lockdown, every tenth cycle: with a lockdown *)
(* in force it queries the table trade_results, renamed to usr_trades, and *)
(* reads an undefined name sys_config: the except clause reports ERROR.    *)
AutoCorrectLockdown ==
  /\ pc[MainThread] = "idle"
  /\ correction' = IF lockdown THEN "ERROR" ELSE "NO_ACTION"
  /\ UNCHANGED <<losses, lockdown, stored, pc, results, stale, overlap, table>>

(* The process stops at any point and __init__ runs again: the streak is   *)
(* not read back, the lockdown is, unless _should_reset_lockdown lifts it  *)
(* (balance recovered 2%, or 24 hours of rest: either can hold or not).    *)
(* The tables that callers in this process had read are lost.              *)
Restart ==
  /\ pc' = [t \in Thread |-> "idle"]
  /\ losses' = 0 /\ overlap' = FALSE /\ correction' = "none"
  /\ \/ lockdown' = stored /\ stale' = FALSE /\ undone' = FALSE /\ UNCHANGED stored
     \/ stored /\ lockdown' = FALSE /\ Persist(FALSE)
  /\ \E lost \in SUBSET Writer : seen' = [w \in Writer |-> IF w \in lost THEN NoState ELSE seen[w]]
  /\ UNCHANGED results

(* The SELECT of get_sys_config: the table is kept, as the copy of a store  *)
(* and by the callers it is returned to.  (As long as no lockdown was ever *)
(* saved there is no row, and a caller that reads then is no Writer.)      *)
ReadState(w) ==
  /\ seen' = [seen EXCEPT ![w] = stored]
  /\ UNCHANGED <<losses, lockdown, stored, pc, results, stale, overlap, correction, undone>>

(* update_dynamic_params, update_risk_settings: every row as it was read.  *)
(* When the write fails nothing changes, and the caller may try again with *)
(* what it has.                                                            *)
WriteBack(w) ==
  /\ seen[w] # NoState
  /\ stored' = seen[w]
  /\ undone' = (undone \/ seen[w] # stored)
  /\ seen' = [seen EXCEPT ![w] = NoState]
  /\ UNCHANGED <<losses, lockdown, pc, results, stale, overlap, correction>>

Step(t) == \/ Deactivate(t) \/ Activate(t) \/ SetLockdown(t) \/ SaveLockdown(t)

Next ==
  \/ \E t \in Thread : RecordWin(t) \/ RecordLoss(t) \/ Step(t)
  \/ ActivateExternal
  \/ AutoCorrectLockdown
  \/ Restart
  \/ \E w \in Writer : ReadState(w) \/ WriteBack(w)

Spec == Init /\ [][Next]_vars

(* Every thread inside the object is scheduled again. *)
FairSpec == Spec /\ \A t \in Thread : WF_vars(Step(t))
-----------------------------------------------------------------------------
TypeOK ==
  /\ losses \in Nat /\ results \in 0..MaxResults
  /\ lockdown \in BOOLEAN /\ stored \in BOOLEAN
  /\ stale \in BOOLEAN /\ overlap \in BOOLEAN
  /\ pc \in [Thread -> Pc]
  /\ correction \in {"none", "NO_ACTION", "ERROR"}
  /\ seen \in [Writer -> BOOLEAN \cup {NoState}] /\ undone \in BOOLEAN

(* A losing streak at the limit with no lockdown is seen only while some   *)
(* thread is still between counting the loss and setting the lockdown,     *)
(* however record_trade_result and _deactivate_lockdown interleave.        *)
StreakLocks ==
  losses >= MaxConsecutiveLosses /\ ~lockdown =>
    \E t \in Thread : pc[t] \in {"activate", "setLockdown"}

(* With no write pending sys_config says what the object does, and a       *)
(* restart finds the lockdown that was in force, with three exceptions:    *)
(* two changes overlapped, the write was swallowed, or a caller of         *)
(* update_dynamic_params or update_risk_settings has put the row back as   *)
(* it was before the write (risk_manager.py, _activate_lockdown,           *)
(* _deactivate_lockdown; system_db.py).                                    *)
StoredAgrees ==
  ~overlap /\ ~stale /\ ~undone /\ (\A t \in Thread : ~Unsaved(t)) => stored = lockdown

(* Unless two changes overlapped, one thread at most has a lockdown change *)
(* to write, and it will write the value in memory.                        *)
PendingWrite ==
  ~overlap =>
    \A t \in Thread : Unsaved(t) =>
      /\ lockdown = (pc[t] = "saveOn")
      /\ \A u \in Thread : Unsaved(u) => u = t

(* A lockdown is lifted in memory only by a thread that recorded a win and *)
(* entered _deactivate_lockdown, or by a restart: no losing trade, guard   *)
(* or automatic correction ever lifts it.                                  *)
LiftedByWinOrRestart ==
  [][lockdown /\ ~lockdown' =>
       Restart \/ \E t \in Thread : pc[t] = "deactivate" /\ losses' = 0]_vars

(* A streak at the limit is answered: the lockdown comes into force or the *)
(* streak is broken.                                                       *)
StreakAnswered ==
  losses >= MaxConsecutiveLosses ~> lockdown \/ losses < MaxConsecutiveLosses
=============================================================================
