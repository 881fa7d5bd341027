--------------------------- MODULE DatabaseManager ---------------------------
(***************************************************************************)
(* data_vault/database_manager.py: the connection that all threads of a    *)
(* process share for one database, its transaction lock and the per-thread *)
(* nesting depth, with the retries and the recovery of                     *)
(* drivers/sqlite_driver.py and the read-only mode of db_policy_tuner.py.  *)
(*                                                                         *)
(* A thread is of one of three kinds: a Repository runs a block of two     *)
(* statements in driver.transaction(), a Writer one statement in           *)
(* driver.execute(), a Legacy one statement and conn.commit() on           *)
(* _get_conn(), which takes no lock (save_trade_result and about forty     *)
(* other functions).  What a call has written is in no transaction (saved) *)
(* or in the one its connection has open (pending).                        *)
(*                                                                         *)
(* SQLite is external: one connection at a time writes, COMMIT and         *)
(* ROLLBACK act on all that the connection has pending, whoever wrote it.  *)
(* Another process may hold the database, so BEGIN may fail at any time.   *)
(* Left out: the other databases, metrics, the busy timeout, plain reads.  *)
(***************************************************************************)
EXTENDS Naturals, FiniteSets

CONSTANTS
  Repository, Writer, Legacy,  \* threads, by what they call
  Conn, NoConn,                \* connections; one is used again once forgotten
  Lock, NoLock, NoThread,      \* transaction locks, likewise
  MaxRetries,                  \* retry_max_attempts
  MaxCalls, MaxCloses          \* bounds of a run: calls, closes from outside

Thread == Repository \cup Writer \cup Legacy

ASSUME KindAssumption ==
  /\ Repository \cap Writer = {} /\ Repository \cap Legacy = {} /\ Writer \cap Legacy = {}
  /\ NoThread \notin Thread
ASSUME NameAssumption == NoConn \notin Conn /\ NoLock \notin Lock
ASSUME RetryAssumption == MaxRetries \in Nat \ {0}

VARIABLES
  pool,      \* _connection_pool[db_path]
  alive,     \* connections that are open
  inTx,      \* connections with a transaction open
  queryOnly, \* connections with PRAGMA query_only
  txLock,    \* _tx_lock_pool[db_path]
  owner,     \* the thread that holds a lock
  writeLock, \* the thread that holds the driver's write lock
  degraded,  \* db_path is in _degraded_dbs
  readOnly,  \* db_path is in _read_only_dbs
  pc, conn, mine, depth, outer, attempts, \* of every thread
  done,      \* statements the running call has executed
  saved,     \* those whose effect is in the file
  pending,   \* what the transaction of a connection holds, <<thread, statement>>
  result,    \* outcome of the last call
  mixed,     \* history: another thread used the transaction of the call
  calls, closes \* how many there were

file   == <<pool, alive, inTx, queryOnly>>
locks  == <<txLock, owner, writeLock>>
mode   == <<degraded, readOnly>>
local  == <<conn, mine, depth, outer, attempts>>
written == <<saved, pending, mixed>>
effect == <<done, written>>
budget == <<calls, closes>>
vars == <<pool, alive, inTx, queryOnly, txLock, owner, writeLock, degraded, readOnly,
          pc, conn, mine, depth, outer, attempts, done, saved, pending, result, mixed,
          calls, closes>>

Statement(t) == IF t \in Repository THEN {1, 2} ELSE {1}

Init ==
  /\ pool = NoConn /\ alive = {} /\ inTx = {} /\ queryOnly = {}
  /\ txLock = NoLock /\ owner = [l \in Lock |-> NoThread] /\ writeLock = NoThread
  /\ degraded = FALSE /\ readOnly = FALSE
  /\ pc = [t \in Thread |-> "idle"] /\ conn = [t \in Thread |-> NoConn]
  /\ mine = [t \in Thread |-> NoLock] /\ depth = [t \in Thread |-> 0]
  /\ outer = [t \in Thread |-> FALSE] /\ attempts = [t \in Thread |-> 0]
  /\ done = [t \in Thread |-> {}] /\ saved = [t \in Thread |-> {}]
  /\ pending = [c \in Conn |-> {}] /\ mixed = [t \in Thread |-> FALSE]
  /\ result = [t \in Thread |-> "none"]
  /\ calls = 0 /\ closes = 0

To(t, label) == pc' = [pc EXCEPT ![t] = label]

(* The locals of an attempt go with it. *)
Leave(t, label) ==
  /\ To(t, label)
  /\ conn' = [conn EXCEPT ![t] = NoConn] /\ mine' = [mine EXCEPT ![t] = NoLock]
  /\ done' = [done EXCEPT ![t] = {}]

(* The call returns or raises; a Writer leaves the driver's lock. *)
Return(t, r) ==
  /\ Leave(t, "idle") /\ result' = [result EXCEPT ![t] = r]
  /\ attempts' = [attempts EXCEPT ![t] = 0]
  /\ writeLock' = IF writeLock = t THEN NoThread ELSE writeLock

(* A call begins; execute() has taken the driver's lock of the database.   *)
Call(t) ==
  /\ pc[t] = "idle" /\ calls < MaxCalls /\ calls' = calls + 1
  /\ IF t \in Writer THEN writeLock = NoThread /\ writeLock' = t ELSE UNCHANGED writeLock
  /\ To(t, "enter")
  /\ saved' = [saved EXCEPT ![t] = {}]
  /\ pending' = [c \in Conn |-> {p \in pending[c] : p[1] # t}] /\ mixed' = [mixed EXCEPT ![t] = FALSE]
  /\ outer' = [outer EXCEPT ![t] = FALSE] /\ result' = [result EXCEPT ![t] = "none"]
  /\ UNCHANGED <<file, txLock, owner, mode, conn, mine, depth, attempts, done, closes>>

(* transaction() is refused while the database is read-only. *)
Refused(t) == t \notin Legacy /\ readOnly
Refuse(t) ==
  /\ pc[t] = "enter" /\ Refused(t)
  /\ Return(t, "error")
  /\ UNCHANGED <<file, txLock, owner, mode, depth, outer, written>>

(* A connection nothing refers to is collected and its name free again. *)
Unused == {c \in Conn \ (inTx \cup {pool}) : \A t \in Thread : conn[t] # c}
Ready(t) == IF t \in Legacy THEN "write" ELSE "lock"

(* get_connection reads the pool without a lock ... *)
FastPath(t) ==
  /\ pc[t] = "enter" /\ ~Refused(t) /\ pool # NoConn
  /\ conn' = [conn EXCEPT ![t] = pool]
  /\ To(t, IF pool \in alive THEN Ready(t) ELSE "stale")
  /\ UNCHANGED <<file, locks, mode, mine, depth, outer, attempts, effect, result>>

(* ... and deletes what the pool holds by then; with nothing there the     *)
(* KeyError leaves the call.  The edge monitor counts these events and     *)
(* makes the database read-only after twenty in a minute.                  *)
Stale(t) ==
  /\ pc[t] = "stale"
  /\ \/ /\ pool # NoConn /\ pool' = NoConn /\ readOnly' \in {readOnly, TRUE}
        /\ To(t, "create") /\ UNCHANGED <<conn, mine, done, attempts, result, writeLock>>
     \/ pool = NoConn /\ Return(t, "error") /\ UNCHANGED <<pool, readOnly>>
  /\ UNCHANGED <<alive, inTx, queryOnly, txLock, owner, degraded, depth, outer, written>>

(* Under the pool lock: the pooled connection if it is healthy, a new one. *)
Opened ==
  IF pool \in alive THEN UNCHANGED file
  ELSE /\ Unused # {} /\ pool' = CHOOSE c \in Unused : TRUE
       /\ alive' = alive \cup {pool'} /\ queryOnly' = queryOnly \ {pool'}
       /\ UNCHANGED inTx

Creates(t) == pc[t] = "create" \/ (pc[t] = "enter" /\ ~Refused(t) /\ pool = NoConn)
Create(t) ==
  /\ Creates(t)
  /\ Opened /\ conn' = [conn EXCEPT ![t] = pool'] /\ To(t, Ready(t))
  /\ UNCHANGED <<locks, mode, mine, depth, outer, attempts, effect, result>>

(* _with_retry after an error: again, the recovery, or give up.  Only a    *)
(* Writer retries, and only after "locked" or "busy".                      *)
Failed(t, locked) ==
  IF t \in Writer /\ locked /\ attempts[t] < MaxRetries
  THEN /\ attempts' = [attempts EXCEPT ![t] = @ + 1]
       /\ Leave(t, IF attempts[t] + 1 < MaxRetries THEN "enter" ELSE "recover")
       /\ UNCHANGED <<result, writeLock>>
  ELSE Return(t, "error")

CreateFails(t) ==
  /\ Creates(t)
  /\ \E locked \in BOOLEAN : Failed(t, locked)
  /\ UNCHANGED <<file, txLock, owner, mode, depth, outer, written>>

Free == {l \in Lock \ {txLock} : owner[l] = NoThread /\ \A t \in Thread : mine[t] # l}

(* _tx_lock_pool.setdefault(db_path, RLock()) *)
Register(t) ==
  /\ pc[t] = "lock"
  /\ IF txLock # NoLock THEN UNCHANGED txLock
     ELSE Free # {} /\ txLock' = CHOOSE l \in Free : TRUE
  /\ mine' = [mine EXCEPT ![t] = txLock'] /\ To(t, "wait")
  /\ UNCHANGED <<file, owner, writeLock, mode, conn, depth, outer, attempts, effect, result>>

(* with tx_lock: only the outermost call of the thread issues BEGIN. *)
Acquire(t) ==
  /\ pc[t] = "wait" /\ owner[mine[t]] = NoThread
  /\ owner' = [owner EXCEPT ![mine[t]] = t]
  /\ outer' = [outer EXCEPT ![t] = depth[t] = 0] /\ depth' = [depth EXCEPT ![t] = @ + 1]
  /\ To(t, IF depth[t] = 0 THEN "begin" ELSE "body")
  /\ UNCHANGED <<file, txLock, writeLock, mode, conn, mine, attempts, effect, result>>

Begin(t) ==
  /\ pc[t] = "begin" /\ conn[t] \in alive /\ inTx = {}
  /\ inTx' = {conn[t]} /\ To(t, "body")
  /\ UNCHANGED <<pool, alive, queryOnly, locks, mode, local, effect, result>>

(* A closed connection raises another error than "locked". *)
Raised(t) == \E locked \in BOOLEAN : (locked => conn[t] \in alive) /\ Failed(t, locked)
(* Mutant: the lock is not released. *)
KeepsLock(t) == UNCHANGED owner
Unlocked(t) == owner' = [owner EXCEPT ![mine[t]] = NoThread]

(* BEGIN IMMEDIATE stands before the try: when it raises, the lock is left *)
(* and the depth is not restored.                                          *)
BeginFails(t) ==
  /\ pc[t] = "begin"
  /\ Unlocked(t)
  /\ Raised(t)
  /\ UNCHANGED <<file, txLock, mode, depth, outer, written>>

(* The threads inside the transaction they began. *)
Owns(t) == pc[t] \in {"body", "abort"} /\ outer[t]
Others(t) == {u \in Thread \ {t} : Owns(u) /\ conn[u] = conn[t]}
Mix(t) == mixed' = [u \in Thread |-> mixed[u] \/ (Others(t) # {} /\ u \in Others(t) \cup {t})]

(* A statement joins whatever transaction the connection has open; without *)
(* one it is in the file at once.                                          *)
Execute(t, k) ==
  /\ conn[t] \in alive /\ conn[t] \notin queryOnly /\ inTx \subseteq {conn[t]}
  /\ done' = [done EXCEPT ![t] = @ \cup {k}]
  /\ IF conn[t] \in inTx
     THEN pending' = [pending EXCEPT ![conn[t]] = @ \cup {<<t, k>>}] /\ Mix(t) /\ UNCHANGED saved
     ELSE saved' = [saved EXCEPT ![t] = @ \cup {k}] /\ UNCHANGED <<pending, mixed>>

Run(t) ==
  /\ pc[t] = "body"
  /\ \E k \in Statement(t) \ done[t] : (\A j \in Statement(t) \ done[t] : k <= j) /\ Execute(t, k)
  /\ UNCHANGED <<file, locks, mode, pc, local, result>>

(* The statement, the code of the block or COMMIT raises. *)
Raise(t) ==
  /\ pc[t] = "body" /\ To(t, "abort")
  /\ t \in Repository \/ outer[t] \/ done[t] = {}
  /\ UNCHANGED <<file, locks, mode, local, effect, result>>

(* The transaction of a connection ends, for all who wrote in it. *)
Ended(c, commit) ==
  /\ inTx' = inTx \ {c}
  /\ pending' = [pending EXCEPT ![c] = {}]
  /\ saved' = [u \in Thread |->
       saved[u] \cup {k \in {1, 2} : commit /\ <<u, k>> \in pending[c]}]

(* Mutant: an error commits. *)
CommitsAlways(t, commit) ==
  IF conn[t] \in inTx THEN Ended(conn[t], TRUE) /\ Mix(t)
  ELSE UNCHANGED <<inTx, pending, saved, mixed>>

(* Mutant: an error leaves the transaction open. *)
NoRollback(t, commit) ==
  IF conn[t] \in inTx /\ commit THEN Ended(conn[t], TRUE) /\ Mix(t)
  ELSE UNCHANGED <<inTx, pending, saved, mixed>>

(* COMMIT or ROLLBACK of t, when its connection has a transaction open. *)
End(t, commit) ==
  IF conn[t] \in inTx THEN Ended(conn[t], commit) /\ Mix(t)
  ELSE UNCHANGED <<inTx, pending, saved, mixed>>

Restored(t) == depth' = [depth EXCEPT ![t] = @ - 1]

(* The block is over: COMMIT if this call began a transaction and one is   *)
(* still open.  A closed connection raises when it is asked.               *)
Commit(t) ==
  /\ pc[t] = "body" /\ done[t] = Statement(t)
  /\ outer[t] => conn[t] \in alive
  /\ IF outer[t] THEN End(t, TRUE) ELSE UNCHANGED <<inTx, pending, saved, mixed>>
  /\ Unlocked(t) /\ Restored(t) /\ Return(t, "ok")
  /\ UNCHANGED <<pool, alive, queryOnly, txLock, mode, outer>>

Abort(t) ==
  /\ pc[t] = "abort"
  /\ IF outer[t] THEN End(t, FALSE) ELSE UNCHANGED <<inTx, pending, saved, mixed>>
  /\ Unlocked(t) /\ Restored(t) /\ Raised(t)
  /\ UNCHANGED <<pool, alive, queryOnly, txLock, mode, outer>>

(* A Legacy executes and commits what is open on the shared connection. *)
LegacyWrite(t) ==
  /\ pc[t] = "write"
  /\ Execute(t, 1) /\ To(t, "commit")
  /\ UNCHANGED <<file, locks, mode, local, result>>

LegacyFails(t) ==
  /\ pc[t] = "write" \/ (pc[t] = "commit" /\ conn[t] \notin alive)
  /\ Return(t, "error")
  /\ UNCHANGED <<file, txLock, owner, mode, depth, outer, written>>

LegacyCommit(t) ==
  /\ pc[t] = "commit" /\ conn[t] \in alive
  /\ End(t, TRUE) /\ Return(t, "ok")
  /\ UNCHANGED <<pool, alive, queryOnly, txLock, owner, mode, depth, outer>>

(* close_connection: the checkpoint fails inside a transaction, and then   *)
(* the connection is forgotten without being closed.  The lock goes too.   *)
Forget ==
  /\ pool' = NoConn /\ txLock' = NoLock
  /\ alive' = alive \/ (pool \notin inTx /\ alive' = alive \ {pool})
  /\ UNCHANGED <<inTx, queryOnly>>

(* StorageManager.close and restore_database *)
Close ==
  /\ pool # NoConn /\ Forget
  /\ closes < MaxCloses /\ closes' = closes + 1
  /\ UNCHANGED <<calls, owner, writeLock, mode, pc, local, effect, result>>

(* Business code closes the connection it got from the pool: the lockdown  *)
(* reset and the calendar query of the economic veto.  The transaction of  *)
(* whoever has one is rolled back.                                         *)
StrayClose ==
  /\ pool \in alive
  /\ alive' = alive \ {pool} /\ Ended(pool, FALSE)
  /\ closes < MaxCloses /\ closes' = closes + 1
  /\ UNCHANGED <<calls, pool, queryOnly, locks, mode, pc, local, done, mixed, result>>

(* recover_from_lock: nothing is tried on a degraded database. *)
SkipRecovery(t) ==
  /\ pc[t] = "recover" /\ degraded
  /\ Return(t, "error")
  /\ UNCHANGED <<file, txLock, owner, mode, depth, outer, written>>

(* attempt_recovery: a checkpoint on the shared connection, which fails    *)
(* inside a transaction ...                                                *)
Checkpoint(t) ==
  /\ pc[t] = "recover" /\ ~degraded
  /\ \/ Opened /\ pool' \notin inTx /\ To(t, "enter")
     \/ (Opened \/ UNCHANGED file) /\ To(t, "reconnect")
  /\ UNCHANGED <<locks, mode, local, effect, result>>

(* ... or a new one, ... *)
Disconnect(t) ==
  /\ pc[t] = "reconnect" /\ To(t, "reopen")
  /\ IF pool # NoConn THEN Forget ELSE UNCHANGED <<file, txLock>>
  /\ UNCHANGED <<owner, writeLock, mode, local, effect, result>>

Reconnect(t) ==
  /\ pc[t] = "reopen" /\ Opened /\ To(t, "enter")
  /\ UNCHANGED <<locks, mode, local, effect, result>>

(* ... and when that fails too the database is degraded and, unless it     *)
(* already is, read-only.                                                  *)
Degrade(t) ==
  /\ pc[t] = "reopen" /\ Return(t, "error")
  /\ degraded' = TRUE /\ readOnly' = TRUE
  /\ queryOnly' = IF ~degraded /\ ~readOnly /\ pool # NoConn THEN queryOnly \cup {pool} ELSE queryOnly
  /\ UNCHANGED <<pool, alive, inTx, txLock, owner, depth, outer, written>>

Step(t) ==
  \/ Refuse(t) \/ FastPath(t) \/ Stale(t)
  \/ Create(t) \/ CreateFails(t) \/ Register(t) \/ Begin(t) \/ BeginFails(t)
  \/ Run(t) \/ Raise(t) \/ Commit(t) \/ Abort(t)
  \/ LegacyWrite(t) \/ LegacyFails(t) \/ LegacyCommit(t)
  \/ SkipRecovery(t) \/ Checkpoint(t) \/ Disconnect(t) \/ Reconnect(t) \/ Degrade(t)

Go(t) == UNCHANGED budget /\ (Acquire(t) \/ Step(t))

Next ==
  \/ \E t \in Thread : Call(t) \/ Go(t)
  \/ Close \/ StrayClose

Spec == Init /\ [][Next]_vars

-----------------------------------------------------------------------------

Label == {"idle", "enter", "stale", "create", "lock", "wait", "begin", "body",
          "abort", "write", "commit", "recover", "reconnect", "reopen"}

(* The variables have their types (see VARIABLES). *)
TypeOK ==
  /\ pool \in Conn \cup {NoConn} /\ alive \subseteq Conn
  /\ inTx \subseteq Conn /\ queryOnly \subseteq Conn
  /\ txLock \in Lock \cup {NoLock} /\ owner \in [Lock -> Thread \cup {NoThread}]
  /\ writeLock \in Thread \cup {NoThread}
  /\ degraded \in BOOLEAN /\ readOnly \in BOOLEAN
  /\ pc \in [Thread -> Label] /\ conn \in [Thread -> Conn \cup {NoConn}]
  /\ mine \in [Thread -> Lock \cup {NoLock}] /\ depth \in [Thread -> 0..2]
  /\ outer \in [Thread -> BOOLEAN] /\ attempts \in [Thread -> 0..MaxRetries]
  /\ done \in [Thread -> SUBSET {1, 2}] /\ saved \in [Thread -> SUBSET {1, 2}]
  /\ pending \in [Conn -> SUBSET (Thread \X {1, 2})] /\ mixed \in [Thread -> BOOLEAN]
  /\ result \in [Thread -> {"none", "ok", "error"}]

(* A transaction that is open belongs to a thread that is still in its     *)
(* block and will end it: whatever recovery, close and errors do, none is  *)
(* left behind to hold the write lock of the file.                         *)
NoStrandedTransaction ==
  \A c \in inTx : c \in alive /\ \E t \in Thread : Owns(t) /\ conn[t] = c

(* A call that began a transaction of its own or is a single statement,    *)
(* and shared no transaction, never shows the half of it in the file.  When *)
(* it is over it wrote all its statements if it returned, whichever attempt *)
(* did it, and none if it raised.  The last is not so of a Legacy: its     *)
(* statement is in the file before conn.commit(), which raises when the    *)
(* connection was closed in between.                                       *)
AllOrNothing ==
  \A t \in Thread :
    ~mixed[t] /\ (outer[t] \/ t \notin Repository) =>
      /\ saved[t] \in {{}, Statement(t)}
      /\ pc[t] = "idle" =>
           /\ result[t] = "ok" => saved[t] = Statement(t)
           /\ result[t] = "error" /\ t \notin Legacy => saved[t] = {}

(* data_vault/base_repo.py:118 promises of every call of transaction(),    *)
(* "Auto-commits on success, rolls back on error": a block that raised has *)
(* left nothing in the file.                                               *)
RollsBackOnError ==
  \A t \in Repository : pc[t] = "idle" /\ result[t] = "error" => saved[t] = {}

(* A lock is held by a thread that is in the block it guards: no error,    *)
(* retry, recovery or close of the connection leaves one locked for good.  *)
LocksReleased ==
  /\ \A l \in Lock, t \in Thread :
       owner[l] = t => mine[t] = l /\ pc[t] \in {"begin", "body", "abort"}
  /\ \A t \in Thread : writeLock = t => pc[t] # "idle"
=============================================================================
