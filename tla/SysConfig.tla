------------------------------ MODULE SysConfig ------------------------------
(***************************************************************************)
(* The table sys_config and the copy of it that every StorageManager keeps *)
(* for ten seconds (data_vault/system_db.py), with those who read, change  *)
(* and write through that copy: the main loop, which consumes the repair   *)
(* flags (core_brain/orchestrators/_background_tasks.py), puts the ADX     *)
(* into dynamic_params (_scan_methods.py) and rewrites session_stats       *)
(* (data_vault/storage.py, _lifecycle.py); and the edge monitor, the tuner *)
(* and the API.                                                            *)
(*                                                                         *)
(* A read returns the very dictionary that is the copy, and some callers   *)
(* change it in place; update_dynamic_params and update_risk_settings then *)
(* write all of it back, every row of the table.  The copy has no lock.    *)
(* The interpreter changes threads at calls, so a read is a test of the    *)
(* copy, a SELECT and a fill, and a write is a transaction and an          *)
(* invalidation, each one step.                                            *)
(*                                                                         *)
(* Two rows are followed.  The flag is a repair flag whose row exists,     *)
(* raised or null.  The setting is any key that is written with its        *)
(* caller's own value, lockdown_mode and the ledger among them.  Of the    *)
(* keys whose value is changed inside the dictionary (dynamic_params,      *)
(* risk_settings, modules_enabled, session_stats) it is followed only      *)
(* whether the copy shows values of theirs that are not in the table.      *)
(***************************************************************************)
EXTENDS Naturals

CONSTANTS
  Store,    \* StorageManager objects, of one process or several
  Home,     \* the store that the main loop uses
  Loop,     \* the thread of the main loop
  Other,    \* the other threads
  Does,     \* Does[t]: what a thread writes without reading
  NoCopy,
  Setting,  \* values of the setting
  TTL,      \* _SYS_CONFIG_CACHE_TTL_SECONDS, in ticks of the clock
  MaxStops  \* bound: times the process of the main loop ends

Thread  == {Loop} \cup Other
Rows    == [flag : BOOLEAN, setting : Setting]
Blind   == {"set", "direct", "raise"}
Writes  == Blind \cup {"consume", "whole", "key"}

ASSUME ThreadAssumption ==
  /\ Loop \notin Other /\ Home \in Store
  /\ Does \in [Thread -> SUBSET Blind]
ASSUME ValueAssumption == Setting # {} /\ NoCopy \notin Rows
ASSUME BoundAssumption == TTL \in Nat \ {0} /\ MaxStops \in Nat

VARIABLES
  of,      \* the store that a thread uses, for good
  row,     \* what the table holds
  copy,    \* _sys_config_cache of a store
  age,     \* ticks since its _sys_config_cache_ts
  inner,   \* whether a copy shows values that were changed in place
  pc,      \* where a thread is in its call; when it is to write, what
  got,     \* the dictionary that it has read
  sharing, \* threads whose dictionary is the very copy of their store
  since,   \* ticks since it asked for the time
  past,    \* history: the settings the table held between the last ticks,
           \* the latest first
  late,    \* history: threads whose SELECT came before a write of since
  tainted, \* history: stores whose copy was filled by such a thread, or
           \* passed over by a write through another store or past the copy
  owed,    \* history: a flag was raised that no repair has followed
  stops    \* how often the process of the main loop has ended

copies  == <<copy, age, inner>>
call    == <<got, since>>
history == <<past, late, tainted, owed, stops>>
vars == <<of, row, copy, age, inner, pc, got, sharing, since, past, late, tainted, owed, stops>>

Blank == [flag |-> FALSE, setting |-> CHOOSE v \in Setting : TRUE]

Init ==
  /\ of \in {f \in [Thread -> Store] : f[Loop] = Home}
  /\ row = Blank
  /\ copy = [s \in Store |-> NoCopy] /\ age = [s \in Store |-> 0]
  /\ inner = [s \in Store |-> "saved"]
  /\ pc = [t \in Thread |-> "idle"]
  /\ got = [t \in Thread |-> Blank] /\ sharing = {} /\ since = [t \in Thread |-> 0]
  /\ past = [i \in 0..TTL - 1 |-> {row.setting}]
  /\ late = {} /\ tainted = [s \in Store |-> FALSE]
  /\ owed = FALSE /\ stops = 0

To(t, place) == pc' = [pc EXCEPT ![t] = place]

Drops(t) ==
  /\ got' = [got EXCEPT ![t] = Blank] /\ since' = [since EXCEPT ![t] = 0]
  /\ sharing' = sharing \ {t}
Done(t) == To(t, "idle") /\ Drops(t)

Lower(a, b) == IF a < b THEN a ELSE b

-----------------------------------------------------------------------------
(* get_sys_config                                                           *)

(* Mutant: a copy never grows old. *)
EverFresh(s) == copy[s] # NoCopy
Fresh(s) == copy[s] # NoCopy /\ age[s] < TTL

(* A fresh copy is returned as it is, the dictionary itself. *)
Ask(t) ==
  /\ pc[t] = "idle"
  /\ IF Fresh(of[t])
     THEN got' = [got EXCEPT ![t] = copy[of[t]]] /\ sharing' = sharing \cup {t} /\ To(t, "use")
     ELSE To(t, "select") /\ UNCHANGED <<got, sharing>>
  /\ UNCHANGED <<of, row, copies, since, history>>

Select(t) ==
  /\ pc[t] = "select" /\ got' = [got EXCEPT ![t] = row] /\ To(t, "fill")
  /\ UNCHANGED <<of, row, copies, sharing, since, history>>

(* An error reaches the caller.  Most let the call go, but session_stats   *)
(* is then written without the snapshots.                                  *)
SelectFails(t) ==
  /\ pc[t] = "select"
  /\ \/ Done(t)
     \/ t = Loop /\ To(t, "key") /\ Drops(t)
  /\ UNCHANGED <<of, row, copies, history>>

(* The copy is dated by the time at which the reader asked. *)
FilledAt(t, when) ==
  /\ pc[t] = "fill" /\ To(t, "use")
  /\ copy' = [copy EXCEPT ![of[t]] = got[t]] /\ age' = [age EXCEPT ![of[t]] = when]
  /\ sharing' = {u \in sharing : of[u] # of[t]} \cup {t}
  /\ tainted' = [tainted EXCEPT ![of[t]] = t \in late] /\ late' = late \ {t}
  /\ inner' = [inner EXCEPT ![of[t]] = "saved"]
  /\ UNCHANGED <<of, row, call, past, owed, stops>>

(* Mutant: the copy is dated when it is filled. *)
FilledNow(t) == FilledAt(t, 0)
Fill(t) == FilledAt(t, since[t])

Look(t) ==
  /\ pc[t] = "use" /\ Done(t)
  /\ UNCHANGED <<of, row, copies, history>>

-----------------------------------------------------------------------------
(* Callers, with what they have read                                        *)

(* consume_oem_repair_flags repairs first and clears the flag afterwards. *)
Repair ==
  /\ pc[Loop] = "use" /\ Drops(Loop)
  /\ IF got[Loop].flag
     THEN To(Loop, "consume") /\ owed' = FALSE
     ELSE To(Loop, "idle") /\ UNCHANGED owed
  /\ UNCHANGED <<of, row, copies, past, late, tainted, stops>>

(* A value inside the dictionary is changed where it stands: when that is  *)
(* the copy, the copy shows the value before, and even without, its being  *)
(* saved.                                                                  *)
InPlace(t, mark) ==
  inner' = IF t \in sharing /\ inner[of[t]] # "unsaved" THEN [inner EXCEPT ![of[t]] = mark] ELSE inner

(* The caller of get_dynamic_params changes the inner dictionary, before   *)
(* the call that saves it.                                                 *)
Adapt(t) ==
  /\ pc[t] = "use" /\ Done(t) /\ InPlace(t, "unsaved")
  /\ UNCHANGED <<of, row, copy, age, history>>

(* update_dynamic_params and update_risk_settings *)
ChangeWhole(t) ==
  /\ pc[t] = "use" /\ To(t, "whole") /\ InPlace(t, "saving")
  /\ UNCHANGED <<of, row, copy, age, call, sharing, history>>

(* set_global_module_enabled and persist_funnel_snapshot *)
ChangeKey(t) ==
  /\ pc[t] = "use" /\ To(t, "key") /\ Drops(t) /\ InPlace(t, "saving")
  /\ UNCHANGED <<of, row, copy, age, history>>

(* persist_session_stats_impl puts the snapshots it has read into a new    *)
(* session_stats.                                                          *)
Statistics ==
  /\ pc[Loop] = "use" /\ To(Loop, "key") /\ Drops(Loop)
  /\ UNCHANGED <<of, row, copies, history>>

(* The edge monitor and the API raise a flag, and many write a setting,    *)
(* without reading; some of them past the copy.                            *)
Begin(t, what) ==
  /\ pc[t] = "idle" /\ what \in Does[t] /\ To(t, what)
  /\ UNCHANGED <<of, row, copies, call, sharing, history>>

-----------------------------------------------------------------------------
(* update_sys_config, and the writes past it                                *)

(* What the two rows may hold after the write of a thread: a key of its    *)
(* own is set, or every row as the dictionary has it.                      *)
Written(t) ==
  CASE pc[t] = "whole" -> {got[t]}
    [] pc[t] = "key" -> {row}
    [] pc[t] \in {"set", "direct"} -> {[row EXCEPT !.setting = v] : v \in Setting}
    [] pc[t] = "raise" -> {[row EXCEPT !.flag = TRUE]}
    [] pc[t] = "consume" -> {[row EXCEPT !.flag = FALSE]}

(* A raise between the repair and the write that clears the flag is lost,  *)
(* and so is one that a write of the whole dictionary undoes.              *)
Clearing == pc[Loop] = "consume"
Undoes(t, rows) == pc[t] = "whole" /\ row.flag /\ ~rows.flag

(* After the writes past the copy nothing is invalidated:                  *)
(* update_user_config, append_to_system_ledger, save_resilience_params.    *)
Write(t) ==
  /\ pc[t] \in Writes
  /\ \E rows \in Written(t) :
       /\ row' = rows
       /\ past' = [past EXCEPT ![0] = @ \cup {rows.setting}]
       /\ owed' = ((owed /\ ~Undoes(t, rows)) \/ (pc[t] = "raise" /\ ~Clearing))
  /\ got' = [got EXCEPT ![t] = Blank] /\ sharing' = sharing \ {t}
  /\ To(t, IF pc[t] = "direct" THEN "idle" ELSE "invalidate")
  /\ late' = late \cup {u \in Thread \ {t} : pc[u] = "fill"}
  /\ tainted' = [s \in Store |->
       tainted[s] \/ (copy[s] # NoCopy /\ (s # of[t] \/ pc[t] = "direct"))]
  /\ UNCHANGED <<of, copies, since, stops>>

(* An error is logged, and the copy stands. *)
WriteFails(t) ==
  /\ pc[t] \in Writes /\ Done(t)
  /\ inner' = IF pc[t] \in {"whole", "key"} /\ inner[of[t]] = "saving"
              THEN [inner EXCEPT ![of[t]] = "unsaved"] ELSE inner
  /\ UNCHANGED <<of, row, copy, age, history>>

(* Mutant: the caller's store keeps its copy. *)
KeepsCopy(t) ==
  /\ pc[t] = "invalidate" /\ Done(t)
  /\ UNCHANGED <<of, row, copies, history>>

(* _invalidate_sys_config_cache *)
Invalidate(t) ==
  /\ pc[t] = "invalidate" /\ To(t, "idle")
  /\ copy' = [copy EXCEPT ![of[t]] = NoCopy] /\ age' = [age EXCEPT ![of[t]] = 0]
  /\ sharing' = {u \in sharing : of[u] # of[t]}
  /\ tainted' = [tainted EXCEPT ![of[t]] = FALSE] /\ inner' = [inner EXCEPT ![of[t]] = "saved"]
  /\ UNCHANGED <<of, row, call, past, late, owed, stops>>

-----------------------------------------------------------------------------
Tick ==
  /\ age' = [s \in Store |-> IF copy[s] = NoCopy THEN 0 ELSE Lower(age[s] + 1, TTL)]
  /\ since' = [t \in Thread |-> IF pc[t] \in {"select", "fill"} THEN Lower(since[t] + 1, TTL) ELSE since[t]]
  /\ past' = [i \in 0..TTL - 1 |-> IF i = 0 THEN {row.setting} ELSE past[i - 1]]
  /\ UNCHANGED <<of, row, copy, inner, pc, got, sharing, late, tainted, owed, stops>>

(* The process of the main loop stops at any point (shutdown_impl writes   *)
(* session_stats first, one more key) and is started again; its copies     *)
(* were in memory.                                                         *)
Ours == {t \in Thread : of[t] = Home}
Restart ==
  /\ stops < MaxStops /\ stops' = stops + 1
  /\ pc' = [t \in Thread |-> IF t \in Ours THEN "idle" ELSE pc[t]]
  /\ got' = [t \in Thread |-> IF t \in Ours THEN Blank ELSE got[t]]
  /\ since' = [t \in Thread |-> IF t \in Ours THEN 0 ELSE since[t]]
  /\ copy' = [copy EXCEPT ![Home] = NoCopy] /\ age' = [age EXCEPT ![Home] = 0]
  /\ tainted' = [tainted EXCEPT ![Home] = FALSE] /\ inner' = [inner EXCEPT ![Home] = "saved"]
  /\ sharing' = sharing \ Ours /\ late' = late \ Ours
  /\ UNCHANGED <<of, row, past, owed>>

Turn(t) ==
  \/ Select(t) \/ SelectFails(t) \/ Fill(t)
  \/ Look(t) \/ Adapt(t) \/ ChangeWhole(t) \/ ChangeKey(t)
  \/ Write(t) \/ WriteFails(t) \/ Invalidate(t)

Next ==
  \/ \E t \in Thread : Ask(t) \/ Turn(t)
  \/ \E t \in Thread, what \in Blind : Begin(t, what)
  \/ Repair \/ Statistics \/ Tick \/ Restart

Spec == Init /\ [][Next]_vars

(* Time passes, the main loop goes on and comes to the head of its cycle   *)
(* again and again, and the database does not refuse all of its reads.     *)
FairSpec ==
  /\ Spec
  /\ WF_vars(Tick) /\ WF_vars(Ask(Loop) \/ Turn(Loop) \/ Repair)
  /\ SF_vars(Select(Loop)) /\ SF_vars(Repair)

-----------------------------------------------------------------------------
(* Properties                                                               *)

(* The variables have their types. *)
TypeOK ==
  /\ of \in [Thread -> Store] /\ of[Loop] = Home
  /\ row \in Rows /\ copy \in [Store -> Rows \cup {NoCopy}]
  /\ age \in [Store -> 0..TTL] /\ since \in [Thread -> 0..TTL]
  /\ inner \in [Store -> {"saved", "saving", "unsaved"}]
  /\ pc \in [Thread -> {"idle", "select", "fill", "use", "invalidate"} \cup Writes]
  /\ got \in [Thread -> Rows] /\ sharing \subseteq Thread
  /\ past \in [0..TTL - 1 -> SUBSET Setting]
  /\ late \subseteq Thread /\ tainted \in [Store -> BOOLEAN]
  /\ owed \in BOOLEAN /\ stops \in 0..MaxStops

(* A copy that is returned without a SELECT, and may be written back whole *)
(* by the caller, holds a setting that the table held at most TTL before:  *)
(* whichever threads fill, change and invalidate copies meanwhile, write   *)
(* whole dictionaries back or write past the copy, through how many        *)
(* stores, and however long a SELECT takes.  (Of values that nobody        *)
(* changes inside the dictionary: those are shown before, or without,      *)
(* their being saved.)                                                     *)
BoundedStaleness ==
  \A s \in Store : Fresh(s) => copy[s].setting \in UNION {past[i] : i \in 0..TTL - 1}

(* A copy shows what the table holds until the write that changed the      *)
(* table has invalidated it, and values changed in place only while they   *)
(* are being saved.  What leaves it behind is a SELECT that a write        *)
(* overtook, another store's write, and a write past the copy; and it      *)
(* shows unsaved values when their write failed, or did not follow.        *)
Coherent ==
  \A s \in Store :
    copy[s] # NoCopy =>
      \/ /\ tainted[s] \/ copy[s] = row
         /\ inner[s] = "saving" => \E t \in Thread : of[t] = s /\ pc[t] \in {"whole", "key"}
      \/ \E t \in Thread : of[t] = s /\ pc[t] = "invalidate"

(* A repair flag, once raised, is followed by its repair, through stale    *)
(* copies, failed writes and restarts, with two exceptions: it was raised  *)
(* between the repair for an earlier one and the write that clears it, or  *)
(* update_dynamic_params or update_risk_settings wrote back a dictionary   *)
(* read before it was raised.                                              *)
FlagServed == owed ~> ~owed
=============================================================================
