----------------------- MODULE DatabaseManagerProofs -----------------------
(***************************************************************************)
(* Proofs about DatabaseManager for every set of repositories, writers,    *)
(* legacy functions, connections and locks, every number of retries and    *)
(* every bound.                                                            *)
(***************************************************************************)
EXTENDS DatabaseManager, TLAPS

-----------------------------------------------------------------------------
(* The parts that actions are made of.  Every way out of a call, or of one  *)
(* attempt of a Writer, is Left.                                            *)

Left(t, r) ==
  \E label \in {"idle", "enter", "recover"} :
    /\ Leave(t, label) /\ attempts' \in [Thread -> 0..MaxRetries]
    /\ label = "idle" => /\ result' = [result EXCEPT ![t] = r]
                         /\ writeLock' = IF writeLock = t THEN NoThread ELSE writeLock
    /\ label # "idle" => /\ r = "error" /\ t \in Writer
                         /\ UNCHANGED <<result, writeLock>>

FileOK == /\ pool \in Conn \cup {NoConn} /\ alive \subseteq Conn
          /\ inTx \subseteq Conn /\ queryOnly \subseteq Conn
LocksOK == /\ txLock \in Lock \cup {NoLock} /\ owner \in [Lock -> Thread \cup {NoThread}]
           /\ writeLock \in Thread \cup {NoThread}
ModeOK == degraded \in BOOLEAN /\ readOnly \in BOOLEAN
PcOK == pc \in [Thread -> Label] /\ result \in [Thread -> {"none", "ok", "error"}]
HandlesOK == conn \in [Thread -> Conn \cup {NoConn}] /\ mine \in [Thread -> Lock \cup {NoLock}]
DepthOK == depth \in [Thread -> 0..2]
OuterOK == outer \in [Thread -> BOOLEAN]
AttemptsOK == attempts \in [Thread -> 0..MaxRetries]
DoneOK == done \in [Thread -> SUBSET {1, 2}]
WrittenOK == /\ saved \in [Thread -> SUBSET {1, 2}]
             /\ pending \in [Conn -> SUBSET (Thread \X {1, 2})]
             /\ mixed \in [Thread -> BOOLEAN]

LEMMA TypeParts ==
  /\ TypeOK <=> /\ FileOK /\ LocksOK /\ ModeOK /\ PcOK /\ HandlesOK /\ DepthOK
                /\ OuterOK /\ AttemptsOK /\ DoneOK /\ WrittenOK
  /\ TypeOK' <=> /\ FileOK' /\ LocksOK' /\ ModeOK' /\ PcOK' /\ HandlesOK' /\ DepthOK'
                 /\ OuterOK' /\ AttemptsOK' /\ DoneOK' /\ WrittenOK'
  BY DEF TypeOK, FileOK, LocksOK, ModeOK, PcOK, HandlesOK, DepthOK, OuterOK,
     AttemptsOK, DoneOK, WrittenOK

LEMMA ReturnLeft ==
  ASSUME TypeOK, NEW t \in Thread, NEW r, Return(t, r) PROVE Left(t, r)
<1>1. attempts' \in [Thread -> 0..MaxRetries]
  BY RetryAssumption DEF Return, TypeOK
<1> QED
  BY <1>1 DEF Return, Left

LEMMA FailedLeft ==
  ASSUME TypeOK, NEW t \in Thread, NEW locked \in BOOLEAN, Failed(t, locked)
  PROVE  Left(t, "error")
<1>1. CASE t \in Writer /\ locked /\ attempts[t] < MaxRetries
  <2>1. attempts' \in [Thread -> 0..MaxRetries]
    <3>1. attempts[t] + 1 \in 0..MaxRetries
      BY <1>1, RetryAssumption DEF TypeOK
    <3>2. attempts' = [attempts EXCEPT ![t] = attempts[t] + 1]
      BY <1>1 DEF Failed
    <3> QED
      BY <3>1, <3>2 DEF TypeOK
  <2> DEFINE label == IF attempts[t] + 1 < MaxRetries THEN "enter" ELSE "recover"
  <2>2. Leave(t, label) /\ UNCHANGED <<result, writeLock>>
    BY <1>1 DEF Failed
  <2>3. label \in {"idle", "enter", "recover"} /\ label # "idle"
    OBVIOUS
  <2> HIDE DEF label
  <2> QED
    BY <1>1, <2>1, <2>2, <2>3 DEF Left
<1>2. CASE ~(t \in Writer /\ locked /\ attempts[t] < MaxRetries)
  BY <1>2, ReturnLeft DEF Failed
<1> QED
  BY <1>1, <1>2

LEMMA RaisedLeft ==
  ASSUME TypeOK, NEW t \in Thread, Raised(t) PROVE Left(t, "error")
  BY FailedLeft DEF Raised

LEMMA LeftType ==
  ASSUME TypeOK, NEW t \in Thread, NEW r \in {"ok", "error"}, Left(t, r)
  PROVE  PcOK' /\ HandlesOK' /\ AttemptsOK' /\ DoneOK' /\ writeLock' \in Thread \cup {NoThread}
<1> PICK label \in {"idle", "enter", "recover"} :
      /\ Leave(t, label) /\ attempts' \in [Thread -> 0..MaxRetries]
      /\ label = "idle" => /\ result' = [result EXCEPT ![t] = r]
                           /\ writeLock' = IF writeLock = t THEN NoThread ELSE writeLock
      /\ label # "idle" => UNCHANGED <<result, writeLock>>
  BY DEF Left
<1>1. pc' \in [Thread -> Label]
  BY DEF Leave, To, TypeOK, Label
<1>2. HandlesOK' /\ DoneOK'
  BY DEF Leave, TypeOK, HandlesOK, DoneOK
<1>3. result' \in [Thread -> {"none", "ok", "error"}] /\ writeLock' \in Thread \cup {NoThread}
  BY DEF TypeOK
<1> QED
  BY <1>1, <1>2, <1>3 DEF PcOK, AttemptsOK

(* What get_connection opens was used by nobody. *)
LEMMA OpenedIs ==
  ASSUME TypeOK, Opened
  PROVE  /\ FileOK' /\ inTx' = inTx /\ pool' \in Conn /\ alive \subseteq alive'
         /\ \A c \in alive' \ alive : c \in Unused
<1>1. CASE pool \in alive
  BY <1>1 DEF Opened, TypeOK, FileOK, file
<1>2. CASE pool \notin alive
  <2>1. pool' \in Unused
    BY <1>2 DEF Opened
  <2> QED
    BY <1>2, <2>1 DEF Opened, Unused, TypeOK, FileOK
<1> QED
  BY <1>1, <1>2

LEMMA ForgetIs ==
  ASSUME TypeOK, Forget
  PROVE  /\ FileOK' /\ inTx' = inTx /\ txLock' = NoLock
         /\ alive' \subseteq alive /\ alive \cap inTx \subseteq alive'
  BY DEF Forget, TypeOK, FileOK

LEMMA EndedType ==
  ASSUME TypeOK, NEW c, NEW commit \in BOOLEAN, Ended(c, commit)
  PROVE  /\ inTx' \subseteq Conn /\ saved' \in [Thread -> SUBSET {1, 2}]
         /\ pending' \in [Conn -> SUBSET (Thread \X {1, 2})]
<1>1. saved' \in [Thread -> SUBSET {1, 2}]
  BY DEF Ended, TypeOK
<1>2. inTx' \subseteq Conn
  BY DEF Ended, TypeOK
<1>3. pending' \in [Conn -> SUBSET (Thread \X {1, 2})]
  BY DEF Ended, TypeOK
<1> QED
  BY <1>1, <1>2, <1>3

LEMMA MixType ==
  ASSUME TypeOK, NEW t \in Thread, Mix(t)
  PROVE  mixed' \in [Thread -> BOOLEAN] /\ \A u \in Thread : mixed[u] => mixed'[u]
  BY DEF Mix, TypeOK

LEMMA EndType ==
  ASSUME TypeOK, NEW t \in Thread, NEW commit \in BOOLEAN, End(t, commit)
  PROVE  inTx' \subseteq Conn /\ WrittenOK' /\ \A u \in Thread : mixed[u] => mixed'[u]
<1>1. CASE conn[t] \in inTx
  <2>1. Ended(conn[t], commit) /\ Mix(t)
    BY <1>1 DEF End
  <2> QED
    BY <2>1, EndedType, MixType DEF WrittenOK
<1>2. CASE conn[t] \notin inTx
  BY <1>2 DEF End, TypeOK, WrittenOK
<1> QED
  BY <1>1, <1>2

LEMMA ExecuteType ==
  ASSUME TypeOK, NEW t \in Thread, NEW k \in {1, 2}, Execute(t, k)
  PROVE  DoneOK' /\ WrittenOK' /\ \A u \in Thread : mixed[u] => mixed'[u]
<1>0. done' = [done EXCEPT ![t] = done[t] \cup {k}]
  BY DEF Execute
<1>1. DoneOK'
  BY <1>0 DEF TypeOK, DoneOK
<1>2. CASE conn[t] \in inTx
  <2>1. pending' = [pending EXCEPT ![conn[t]] = pending[conn[t]] \cup {<<t, k>>}] /\ Mix(t) /\ saved' = saved
    BY <1>2 DEF Execute
  <2>2. pending' \in [Conn -> SUBSET (Thread \X {1, 2})]
    BY <1>2, <2>1 DEF TypeOK
  <2> QED
    BY <1>1, <2>1, <2>2, MixType DEF WrittenOK, TypeOK
<1>3. CASE conn[t] \notin inTx
  <2>1. saved' = [saved EXCEPT ![t] = saved[t] \cup {k}] /\ UNCHANGED <<pending, mixed>>
    BY <1>3 DEF Execute
  <2> QED
    BY <1>1, <2>1 DEF WrittenOK, TypeOK
<1> QED
  BY <1>2, <1>3

-----------------------------------------------------------------------------
(* Where a thread is, and what its locals say of it: a BEGIN that fails     *)
(* leaves the depth at one, so that it reaches two in the next call and no  *)
(* more.                                                                    *)

Inside(t) == pc[t] \in {"begin", "body", "abort"}
DepthAt(t) ==
  /\ pc[t] = "begin" => depth[t] = 1
  /\ pc[t] \in {"body", "abort"} => depth[t] \in {1, 2}
  /\ ~Inside(t) => depth[t] \in {0, 1}
PlaceAt(t) ==
  /\ pc[t] \in {"wait", "begin", "body", "abort"} => mine[t] \in Lock
  /\ pc[t] \in {"lock", "wait", "begin", "body", "abort"} => t \notin Legacy
  /\ pc[t] \in {"write", "commit"} => t \in Legacy
  /\ pc[t] = "begin" => outer[t]
  /\ pc[t] \notin {"body", "abort", "commit"} => done[t] = {}
Placed == \A t \in Thread : PlaceAt(t) /\ DepthAt(t)
Typed == TypeOK /\ Placed

LEMMA InitTyped == Init => Typed
<1> SUFFICES ASSUME Init PROVE Typed
  OBVIOUS
<1>1. /\ depth \in [Thread -> 0..2] /\ attempts \in [Thread -> 0..MaxRetries]
      /\ \A t \in Thread : depth[t] = 0
  BY RetryAssumption DEF Init
<1>2. FileOK /\ LocksOK /\ ModeOK
  BY DEF Init, FileOK, LocksOK, ModeOK
<1>3. PcOK /\ HandlesOK /\ OuterOK /\ DoneOK /\ WrittenOK
  BY DEF Init, PcOK, HandlesOK, OuterOK, DoneOK, WrittenOK, Label
<1>4. TypeOK
  BY <1>1, <1>2, <1>3, TypeParts DEF DepthOK, AttemptsOK
<1>5. ASSUME NEW t \in Thread PROVE PlaceAt(t) /\ DepthAt(t)
  <2>1. pc[t] = "idle" /\ done[t] = {} /\ depth[t] = 0
    BY <1>1 DEF Init
  <2> QED
    BY <2>1 DEF PlaceAt, DepthAt, Inside
<1> QED
  BY <1>4, <1>5 DEF Typed, Placed

(* A step of t that touches the locals of no other thread. *)
LEMMA PlacedBy ==
  ASSUME Typed, NEW t \in Thread, PlaceAt(t)', DepthAt(t)',
         \A u \in Thread \ {t} :
           /\ pc'[u] = pc[u] /\ mine'[u] = mine[u] /\ outer'[u] = outer[u]
           /\ done'[u] = done[u] /\ depth'[u] = depth[u]
  PROVE  Placed'
<1>1. ASSUME NEW u \in Thread \ {t} PROVE PlaceAt(u)' /\ DepthAt(u)'
  BY <1>1 DEF Typed, Placed, PlaceAt, DepthAt, Inside
<1> QED
  BY <1>1 DEF Placed

(* Moves between the places before the lock, and of the recovery. *)
LEMMA MoveTyped ==
  ASSUME Typed, NEW t \in Thread,
         \/ FastPath(t) \/ Create(t) \/ Register(t)
         \/ Checkpoint(t) \/ Disconnect(t) \/ Reconnect(t)
  PROVE  Typed'
<1>1. PICK label \in {"enter", "stale", "create", "lock", "wait", "write", "reconnect", "reopen"} :
        /\ To(t, label)
        /\ label \in {"write", "lock"} => label = Ready(t)
        /\ label = "wait" => pc[t] = "lock" /\ mine'[t] \in Lock
  <2>1. Ready(t) \in {"write", "lock"}
    BY DEF Ready
  <2>2. CASE FastPath(t)
    BY <2>1, <2>2 DEF FastPath
  <2>3. CASE Create(t)
    BY <2>1, <2>3 DEF Create
  <2>4. CASE Register(t)
    BY <2>4, NameAssumption DEF Register, Free, Typed, TypeOK
  <2>5. CASE Checkpoint(t) \/ Disconnect(t) \/ Reconnect(t)
    BY <2>5 DEF Checkpoint, Disconnect, Reconnect
  <2> QED
    BY <2>2, <2>3, <2>4, <2>5
<1>2. pc[t] \in {"enter", "create", "lock", "recover", "reconnect", "reopen"}
  BY DEF FastPath, Create, Creates, Register, Checkpoint, Disconnect, Reconnect
<1>3. UNCHANGED <<owner, writeLock, mode, depth, outer, attempts, effect, result>>
  BY DEF FastPath, Create, Register, Checkpoint, Disconnect, Reconnect, locks, local
<1>4. FileOK'
  BY OpenedIs, ForgetIs DEF FastPath, Create, Register, Checkpoint, Disconnect,
     Reconnect, Typed, TypeOK, FileOK, file
<1>5. HandlesOK' /\ LocksOK' /\ \A u \in Thread \ {t} : mine'[u] = mine[u]
  <2>1. CASE Register(t)
    <3>1. txLock' \in Lock
      BY <2>1, NameAssumption DEF Register, Free, Typed, TypeOK
    <3> QED
      BY <1>3, <2>1, <3>1 DEF Register, Typed, TypeOK, HandlesOK, LocksOK
  <2>2. CASE FastPath(t) \/ Create(t)
    BY <1>3, <1>4, <2>2 DEF FastPath, Create, locks, Typed, TypeOK, HandlesOK, LocksOK, FileOK
  <2>3. CASE Checkpoint(t) \/ Disconnect(t) \/ Reconnect(t)
    BY <1>3, <2>3, ForgetIs DEF Checkpoint, Disconnect, Reconnect, locks, local,
       Typed, TypeOK, HandlesOK, LocksOK
  <2> QED
    BY <2>1, <2>2, <2>3
<1>6. pc' \in [Thread -> Label] /\ pc'[t] = label /\ \A u \in Thread \ {t} : pc'[u] = pc[u]
  BY <1>1 DEF To, Typed, TypeOK, Label
<1>7. TypeOK'
  BY <1>3, <1>4, <1>5, <1>6, TypeParts DEF Typed, ModeOK, PcOK, DepthOK, OuterOK,
     AttemptsOK, DoneOK, WrittenOK, mode, effect, written
<1>8. PlaceAt(t)'
  BY <1>1, <1>2, <1>3, <1>6 DEF Typed, Placed, PlaceAt, Ready, effect
<1>9. DepthAt(t)'
  BY <1>2, <1>3, <1>6 DEF Typed, Placed, DepthAt, Inside
<1>10. Placed'
  BY <1>3, <1>5, <1>6, <1>8, <1>9, PlacedBy DEF effect
<1> QED
  BY <1>7, <1>10 DEF Typed

LEMMA LeftIs ==
  ASSUME TypeOK, NEW t \in Thread, NEW r, Left(t, r)
  PROVE  /\ pc'[t] \in {"idle", "enter", "recover"} /\ done'[t] = {} /\ mine'[t] = NoLock
         /\ conn'[t] = NoConn
         /\ pc'[t] = "idle" => result'[t] = r /\ writeLock' = IF writeLock = t THEN NoThread ELSE writeLock
         /\ pc'[t] # "idle" => r = "error" /\ t \in Writer /\ UNCHANGED <<result, writeLock>>
         /\ \A u \in Thread \ {t} :
              /\ pc'[u] = pc[u] /\ conn'[u] = conn[u] /\ mine'[u] = mine[u]
              /\ done'[u] = done[u] /\ result'[u] = result[u]
<1> PICK label \in {"idle", "enter", "recover"} :
      /\ Leave(t, label)
      /\ label = "idle" => /\ result' = [result EXCEPT ![t] = r]
                           /\ writeLock' = IF writeLock = t THEN NoThread ELSE writeLock
      /\ label # "idle" => r = "error" /\ t \in Writer /\ UNCHANGED <<result, writeLock>>
  BY DEF Left
<1>1. /\ pc'[t] = label /\ done'[t] = {} /\ mine'[t] = NoLock /\ conn'[t] = NoConn
      /\ \A u \in Thread \ {t} :
           /\ pc'[u] = pc[u] /\ conn'[u] = conn[u] /\ mine'[u] = mine[u] /\ done'[u] = done[u]
  BY DEF Leave, To, TypeOK
<1>2. /\ label = "idle" => result'[t] = r
      /\ \A u \in Thread \ {t} : result'[u] = result[u]
  BY DEF TypeOK
<1> QED
  BY <1>1, <1>2

LEMMA LeftPlaced ==
  ASSUME Typed, NEW t \in Thread, NEW r, Left(t, r), outer' = outer,
         depth'[t] \in {0, 1}, \A u \in Thread \ {t} : depth'[u] = depth[u]
  PROVE  Placed'
<1>1. PlaceAt(t)' /\ DepthAt(t)'
  BY LeftIs, NameAssumption DEF PlaceAt, DepthAt, Inside, Typed
<1> QED
  BY <1>1, LeftIs, PlacedBy DEF Typed

(* The ends of a call outside a block. *)
LEMMA QuitTyped ==
  ASSUME Typed, NEW t \in Thread,
         \/ Refuse(t) \/ CreateFails(t) \/ LegacyFails(t) \/ SkipRecovery(t) \/ Degrade(t)
  PROVE  Typed'
<1>1. Left(t, "error")
  BY ReturnLeft, FailedLeft DEF Refuse, CreateFails, LegacyFails, SkipRecovery, Degrade, Typed
<1>2. ~Inside(t)
  BY DEF Refuse, CreateFails, Creates, LegacyFails, SkipRecovery, Degrade, Inside
<1>3. UNCHANGED <<txLock, owner, depth, outer, written>>
  BY DEF Refuse, CreateFails, LegacyFails, SkipRecovery, Degrade
<1>4. FileOK' /\ ModeOK'
  <2>1. CASE Degrade(t)
    BY <2>1 DEF Degrade, Typed, TypeOK, FileOK, ModeOK
  <2>2. CASE Refuse(t) \/ CreateFails(t) \/ LegacyFails(t) \/ SkipRecovery(t)
    BY <2>2 DEF Refuse, CreateFails, LegacyFails, SkipRecovery, Typed, TypeOK,
       FileOK, ModeOK, file, mode
  <2> QED
    BY <2>1, <2>2
<1>5. TypeOK'
  BY <1>1, <1>3, <1>4, LeftType, TypeParts DEF Typed, LocksOK, DepthOK, OuterOK, WrittenOK, written
<1>6. depth'[t] \in {0, 1}
  BY <1>2, <1>3 DEF Typed, Placed, DepthAt
<1> QED
  BY <1>1, <1>3, <1>5, <1>6, LeftPlaced DEF Typed

LEMMA StaleTyped == ASSUME Typed, NEW t \in Thread, Stale(t) PROVE Typed'
<1>1. pc[t] = "stale" /\ UNCHANGED <<alive, inTx, queryOnly, txLock, owner, degraded, depth, outer, written>>
  BY DEF Stale
<1>2. depth'[t] \in {0, 1}
  BY <1>1 DEF Typed, Placed, DepthAt, Inside
<1>3. CASE Return(t, "error") /\ UNCHANGED <<pool, readOnly>>
  <2>1. Left(t, "error")
    BY <1>3, ReturnLeft DEF Typed
  <2>2. TypeOK'
    BY <1>1, <1>3, <2>1, LeftType, TypeParts DEF Typed, TypeOK, FileOK, ModeOK, LocksOK,
       DepthOK, OuterOK, WrittenOK, written
  <2> QED
    BY <1>1, <1>2, <2>1, <2>2, LeftPlaced DEF Typed
<1>4. CASE /\ pool # NoConn /\ pool' = NoConn /\ readOnly' \in {readOnly, TRUE}
           /\ To(t, "create") /\ UNCHANGED <<conn, mine, done, attempts, result, writeLock>>
  <2>1. pc' \in [Thread -> Label] /\ pc'[t] = "create" /\ \A u \in Thread \ {t} : pc'[u] = pc[u]
    BY <1>4 DEF To, Typed, TypeOK, Label
  <2>2. readOnly' \in BOOLEAN
    BY <1>4 DEF Typed, TypeOK
  <2>3. TypeOK'
    BY <1>1, <1>4, <2>1, <2>2 DEF Typed, TypeOK, written
  <2>4. PlaceAt(t)' /\ DepthAt(t)'
    BY <1>1, <1>2, <1>4, <2>1 DEF PlaceAt, DepthAt, Inside, Typed, Placed
  <2> QED
    BY <1>1, <1>4, <2>1, <2>3, <2>4, PlacedBy DEF Typed
<1> QED
  BY <1>3, <1>4 DEF Stale

LEMMA UnlockedType ==
  ASSUME TypeOK, NEW t \in Thread, Unlocked(t)
  PROVE  owner' \in [Lock -> Thread \cup {NoThread}]
  BY DEF Unlocked, TypeOK

LEMMA BeginFailsTyped == ASSUME Typed, NEW t \in Thread, BeginFails(t) PROVE Typed'
<1>1. Left(t, "error") /\ pc[t] = "begin"
  BY RaisedLeft DEF BeginFails, Typed
<1>2. UNCHANGED <<file, txLock, mode, depth, outer, written>>
  BY DEF BeginFails
<1>3. TypeOK'
  BY <1>1, <1>2, LeftType, UnlockedType, TypeParts DEF BeginFails, Typed, TypeOK, FileOK, ModeOK,
     LocksOK, DepthOK, OuterOK, WrittenOK, written, file, mode
<1>4. depth'[t] \in {0, 1}
  BY <1>1, <1>2 DEF Typed, Placed, DepthAt
<1> QED
  BY <1>1, <1>2, <1>3, <1>4, LeftPlaced DEF Typed

(* The end of a block brings the depth back to what it was before it. *)
LEMMA RestoredIs ==
  ASSUME Typed, NEW t \in Thread, pc[t] \in {"body", "abort"}, Restored(t)
  PROVE  /\ DepthOK' /\ depth'[t] \in {0, 1}
         /\ \A u \in Thread \ {t} : depth'[u] = depth[u]
<1>1. depth[t] - 1 \in {0, 1}
  BY DEF Typed, Placed, DepthAt
<1>2. depth' = [depth EXCEPT ![t] = depth[t] - 1]
  BY DEF Restored
<1>3. depth \in [Thread -> 0..2]
  BY DEF Typed, TypeOK
<1> QED
  BY <1>1, <1>2, <1>3 DEF DepthOK

LEMMA BlockTyped ==
  ASSUME Typed, NEW t \in Thread, Commit(t) \/ Abort(t) PROVE Typed'
<1>1. PICK r \in {"ok", "error"} : Left(t, r)
  BY ReturnLeft, RaisedLeft DEF Commit, Abort, Typed
<1>2. /\ pc[t] \in {"body", "abort"} /\ Unlocked(t) /\ Restored(t)
      /\ UNCHANGED <<pool, alive, queryOnly, txLock, mode, outer>>
  BY DEF Commit, Abort
<1>3. inTx' \subseteq Conn /\ WrittenOK'
  BY EndType DEF Commit, Abort, Typed, TypeOK, WrittenOK
<1>4. TypeOK'
  BY <1>1, <1>2, <1>3, LeftType, UnlockedType, RestoredIs, TypeParts
  DEF Typed, TypeOK, FileOK, ModeOK, LocksOK, OuterOK, mode
<1> QED
  BY <1>1, <1>2, <1>4, RestoredIs, LeftPlaced DEF Typed

LEMMA LegacyCommitTyped == ASSUME Typed, NEW t \in Thread, LegacyCommit(t) PROVE Typed'
<1>1. Left(t, "ok") /\ pc[t] = "commit" /\ End(t, TRUE)
  BY ReturnLeft DEF LegacyCommit, Typed
<1>2. UNCHANGED <<pool, alive, queryOnly, txLock, owner, mode, depth, outer>>
  BY DEF LegacyCommit
<1>3. TypeOK'
  BY <1>1, <1>2, EndType, LeftType, TypeParts DEF Typed, TypeOK, FileOK, ModeOK, LocksOK,
     DepthOK, OuterOK, mode
<1>4. depth'[t] \in {0, 1}
  BY <1>1, <1>2 DEF Typed, Placed, DepthAt, Inside
<1> QED
  BY <1>1, <1>2, <1>3, <1>4, LeftPlaced DEF Typed

LEMMA CallTyped == ASSUME Typed, NEW t \in Thread, Call(t) PROVE Typed'
<1>1. /\ pc[t] = "idle" /\ pc'[t] = "enter" /\ \A u \in Thread \ {t} : pc'[u] = pc[u]
      /\ pc' \in [Thread -> Label]
  BY DEF Call, To, Typed, TypeOK, Label
<1>2. UNCHANGED <<file, txLock, owner, mode, conn, mine, depth, attempts, done>>
  BY DEF Call
<1>3. /\ outer' \in [Thread -> BOOLEAN] /\ mixed' \in [Thread -> BOOLEAN]
      /\ \A u \in Thread \ {t} : outer'[u] = outer[u]
  BY DEF Call, Typed, TypeOK
<1>4. /\ saved' \in [Thread -> SUBSET {1, 2}]
      /\ pending' \in [Conn -> SUBSET (Thread \X {1, 2})]
      /\ result' \in [Thread -> {"none", "ok", "error"}]
      /\ writeLock' \in Thread \cup {NoThread}
  BY DEF Call, Typed, TypeOK
<1>5. TypeOK'
  BY <1>1, <1>2, <1>3, <1>4, TypeParts DEF Typed, TypeOK, FileOK, LocksOK, ModeOK, PcOK,
     HandlesOK, DepthOK, OuterOK, AttemptsOK, DoneOK, WrittenOK, file, mode
<1>6. PlaceAt(t)'
  BY <1>1, <1>2 DEF PlaceAt, Typed, Placed
<1>7. DepthAt(t)'
  BY <1>1, <1>2 DEF DepthAt, Inside, Typed, Placed
<1> QED
  BY <1>1, <1>2, <1>3, <1>5, <1>6, <1>7, PlacedBy DEF Typed

LEMMA AcquireTyped == ASSUME Typed, NEW t \in Thread, Acquire(t) PROVE Typed'
<1>1. /\ pc[t] = "wait" /\ mine[t] \in Lock /\ t \notin Legacy /\ done[t] = {}
      /\ depth[t] \in {0, 1}
  BY DEF Acquire, Typed, Placed, PlaceAt, DepthAt, Inside
<1>2. UNCHANGED <<file, txLock, writeLock, mode, conn, mine, attempts, effect, result>>
  BY DEF Acquire
<1>3. /\ pc' = [pc EXCEPT ![t] = IF depth[t] = 0 THEN "begin" ELSE "body"]
      /\ depth' = [depth EXCEPT ![t] = depth[t] + 1]
      /\ owner' = [owner EXCEPT ![mine[t]] = t]
  BY DEF Acquire, To
<1>4. /\ pc' \in [Thread -> Label] /\ \A u \in Thread \ {t} : pc'[u] = pc[u]
      /\ depth[t] = 0 => pc'[t] = "begin"
      /\ depth[t] = 1 => pc'[t] = "body"
  BY <1>1, <1>3 DEF Typed, TypeOK, Label
<1>5. /\ depth' \in [Thread -> 0..2] /\ \A u \in Thread \ {t} : depth'[u] = depth[u]
      /\ depth[t] = 0 => depth'[t] = 1
      /\ depth[t] = 1 => depth'[t] = 2
  BY <1>1, <1>3 DEF Typed, TypeOK
<1>6. /\ outer' \in [Thread -> BOOLEAN] /\ \A u \in Thread \ {t} : outer'[u] = outer[u]
      /\ depth[t] = 0 => outer'[t]
  <2>1. CASE depth[t] = 0
    <3>1. (depth[t] = 0) = TRUE
      BY <2>1
    <3>2. outer' = [outer EXCEPT ![t] = TRUE]
      BY <3>1, Zenon DEF Acquire
    <3> QED
      BY <3>2 DEF Typed, TypeOK
  <2>2. CASE depth[t] # 0
    <3>1. (depth[t] = 0) = FALSE
      BY <2>2
    <3>2. outer' = [outer EXCEPT ![t] = FALSE]
      BY <3>1, Zenon DEF Acquire
    <3> QED
      BY <2>2, <3>2 DEF Typed, TypeOK
  <2> QED
    BY <2>1, <2>2
<1>7. LocksOK'
  BY <1>1, <1>2, <1>3 DEF Typed, TypeOK, LocksOK
<1>8. TypeOK'
  BY <1>2, <1>4, <1>5, <1>6, <1>7, TypeParts DEF Typed, TypeOK, FileOK, ModeOK, PcOK,
     HandlesOK, DepthOK, OuterOK, AttemptsOK, DoneOK, WrittenOK, file, mode, effect, written
<1>9. PlaceAt(t)'
  BY <1>1, <1>2, <1>4, <1>6 DEF PlaceAt, effect
<1>10. DepthAt(t)'
  BY <1>1, <1>4, <1>5 DEF DepthAt, Inside
<1> QED
  BY <1>2, <1>4, <1>5, <1>6, <1>8, <1>9, <1>10, PlacedBy DEF Typed, effect

LEMMA BodyTyped ==
  ASSUME Typed, NEW t \in Thread, Begin(t) \/ Run(t) \/ Raise(t) \/ LegacyWrite(t)
  PROVE  Typed'
<1>1. CASE Begin(t)
  <2>1. /\ pc' \in [Thread -> Label] /\ pc[t] = "begin" /\ pc'[t] = "body"
        /\ \A u \in Thread \ {t} : pc'[u] = pc[u]
    BY <1>1 DEF Begin, To, Typed, TypeOK, Label
  <2>2. UNCHANGED <<pool, alive, queryOnly, locks, mode, local, effect, result>> /\ inTx' \subseteq Conn
    BY <1>1 DEF Begin, Typed, TypeOK
  <2>3. TypeOK'
    BY <2>1, <2>2, TypeParts DEF Typed, TypeOK, FileOK, LocksOK, ModeOK, PcOK, HandlesOK, DepthOK,
       OuterOK, AttemptsOK, DoneOK, WrittenOK, mode, locks, local, effect, written
  <2>4. PlaceAt(t)'
    BY <2>1, <2>2 DEF PlaceAt, Typed, Placed, local
  <2>5. DepthAt(t)'
    BY <2>1, <2>2 DEF DepthAt, Inside, Typed, Placed, local
  <2> QED
    BY <2>1, <2>2, <2>3, <2>4, <2>5, PlacedBy DEF Typed, local, effect
<1>2. CASE Raise(t)
  <2>1. /\ pc' \in [Thread -> Label] /\ pc[t] = "body" /\ pc'[t] = "abort"
        /\ \A u \in Thread \ {t} : pc'[u] = pc[u]
    BY <1>2 DEF Raise, To, Typed, TypeOK, Label
  <2>2. UNCHANGED <<file, locks, mode, local, effect, result>>
    BY <1>2 DEF Raise
  <2>3. TypeOK'
    BY <2>1, <2>2, TypeParts DEF Typed, TypeOK, FileOK, LocksOK, ModeOK, PcOK, HandlesOK, DepthOK,
       OuterOK, AttemptsOK, DoneOK, WrittenOK, file, mode, locks, local, effect, written
  <2>4. PlaceAt(t)'
    BY <2>1, <2>2 DEF PlaceAt, Typed, Placed, local
  <2>5. DepthAt(t)'
    BY <2>1, <2>2 DEF DepthAt, Inside, Typed, Placed, local
  <2> QED
    BY <2>1, <2>2, <2>3, <2>4, <2>5, PlacedBy DEF Typed, local, effect
<1>3. CASE Run(t)
  <2>1. /\ pc[t] = "body" /\ UNCHANGED <<file, locks, mode, pc, local, result>>
        /\ \E k \in {1, 2} : Execute(t, k)
    BY <1>3 DEF Run, Statement
  <2>2. /\ DoneOK' /\ WrittenOK' /\ \A u \in Thread \ {t} : done'[u] = done[u]
    BY <2>1, ExecuteType DEF Execute, Typed, TypeOK
  <2>3. TypeOK'
    BY <2>1, <2>2, TypeParts DEF Typed, TypeOK, FileOK, LocksOK, ModeOK, PcOK, HandlesOK, DepthOK,
       OuterOK, AttemptsOK, file, mode, locks, local
  <2>4. PlaceAt(t)'
    BY <2>1 DEF PlaceAt, Typed, Placed, local
  <2>5. DepthAt(t)'
    BY <2>1 DEF DepthAt, Inside, Typed, Placed, local
  <2> QED
    BY <2>1, <2>2, <2>3, <2>4, <2>5, PlacedBy DEF Typed, local
<1>4. CASE LegacyWrite(t)
  <2>1. /\ pc' \in [Thread -> Label] /\ pc[t] = "write" /\ pc'[t] = "commit"
        /\ \A u \in Thread \ {t} : pc'[u] = pc[u]
    BY <1>4 DEF LegacyWrite, To, Typed, TypeOK, Label
  <2>2. Execute(t, 1) /\ UNCHANGED <<file, locks, mode, local, result>>
    BY <1>4 DEF LegacyWrite
  <2>3. DoneOK' /\ WrittenOK' /\ \A u \in Thread \ {t} : done'[u] = done[u]
    BY <2>2, ExecuteType DEF Execute, Typed, TypeOK
  <2>4. TypeOK'
    BY <2>1, <2>2, <2>3, TypeParts DEF Typed, TypeOK, FileOK, LocksOK, ModeOK, PcOK, HandlesOK,
       DepthOK, OuterOK, AttemptsOK, file, mode, locks, local
  <2>5. PlaceAt(t)'
    BY <2>1 DEF PlaceAt, Typed, Placed
  <2>6. DepthAt(t)'
    BY <2>1, <2>2 DEF DepthAt, Inside, Typed, Placed, local
  <2> QED
    BY <2>1, <2>2, <2>3, <2>4, <2>5, <2>6, PlacedBy DEF Typed, local
<1> QED
  BY <1>1, <1>2, <1>3, <1>4

LEMMA CloseTyped == ASSUME Typed, Close \/ StrayClose PROVE Typed'
<1>1. UNCHANGED <<owner, writeLock, mode, pc, local, done, mixed, result>>
  BY DEF Close, StrayClose, effect, written, locks
<1>2. FileOK' /\ WrittenOK' /\ LocksOK'
  <2>1. CASE Close
    BY <2>1, ForgetIs DEF Close, effect, written, Typed, TypeOK, WrittenOK, LocksOK
  <2>2. CASE StrayClose
    BY <2>2, EndedType DEF StrayClose, locks, Typed, TypeOK, FileOK, WrittenOK, LocksOK
  <2> QED
    BY <2>1, <2>2
<1>3. TypeOK'
  BY <1>1, <1>2, TypeParts DEF Typed, TypeOK, ModeOK, PcOK, HandlesOK, DepthOK, OuterOK,
     AttemptsOK, DoneOK, mode, local
<1>4. Placed'
  BY <1>1 DEF Typed, Placed, PlaceAt, DepthAt, Inside, local
<1> QED
  BY <1>3, <1>4 DEF Typed

LEMMA TypedStep == ASSUME Typed, [Next]_vars PROVE Typed'
<1>1. CASE UNCHANGED vars
  BY <1>1 DEF vars, Typed, TypeOK, Placed, PlaceAt, DepthAt, Inside
<1>2. ASSUME NEW t \in Thread, Step(t) PROVE Typed'
  BY <1>2, MoveTyped, QuitTyped, StaleTyped, BeginFailsTyped, BlockTyped,
     LegacyCommitTyped, BodyTyped DEF Step
<1> QED
  BY <1>1, <1>2, CallTyped, AcquireTyped, CloseTyped DEF Next, Go

(* Every variable stays in its set; the nesting depth never exceeds two,    *)
(* however many times BEGIN failed before (transaction()).                  *)
THEOREM TypeCorrect == Spec => []TypeOK
<1>1. Typed => TypeOK
  BY DEF Typed
<1> QED
  BY <1>1, InitTyped, TypedStep, PTL DEF Spec

-----------------------------------------------------------------------------
(* The locks: who holds one is inside the block it guards, and the other    *)
(* way round, so that two threads are never inside under the same lock.     *)

Held == \A l \in Lock, t \in Thread : owner[l] = t <=> mine[t] = l /\ Inside(t)
Writing == \A t \in Thread : writeLock = t => pc[t] # "idle"

LEMMA HeldKept ==
  ASSUME Held, owner' = owner,
         \A u \in Thread : Inside(u)' = Inside(u) /\ (Inside(u) => mine'[u] = mine[u])
  PROVE  Held'
BY DEF Held

LEMMA HeldReleased ==
  ASSUME Typed, Held, NEW t \in Thread, NEW r, Inside(t), Unlocked(t), Left(t, r)
  PROVE  Held'
<1>1. mine[t] \in Lock /\ owner[mine[t]] = t
  BY DEF Typed, Placed, PlaceAt, Held, Inside
<1>2. owner' = [owner EXCEPT ![mine[t]] = NoThread] /\ owner \in [Lock -> Thread \cup {NoThread}]
  BY DEF Unlocked, Typed, TypeOK
<1>3. /\ ~Inside(t)' /\ \A u \in Thread \ {t} : Inside(u)' = Inside(u) /\ mine'[u] = mine[u]
  BY LeftIs DEF Inside, Typed
<1>4. ASSUME NEW l \in Lock, NEW u \in Thread
      PROVE  owner'[l] = u <=> mine'[u] = l /\ Inside(u)'
  <2>1. CASE u = t
    BY <1>1, <1>2, <1>3, <2>1, KindAssumption DEF Held
  <2>2. CASE u # t
    BY <1>1, <1>2, <1>3, <2>2, KindAssumption DEF Held
  <2> QED
    BY <2>1, <2>2
<1> QED
  BY <1>4 DEF Held

LEMMA HeldAcquired == ASSUME Typed, Held, NEW t \in Thread, Acquire(t) PROVE Held'
<1>1. /\ pc[t] = "wait" /\ mine[t] \in Lock /\ owner[mine[t]] = NoThread /\ mine' = mine
      /\ owner' = [owner EXCEPT ![mine[t]] = t]
  BY DEF Acquire, Typed, Placed, PlaceAt
<1>2. Inside(t)' /\ ~Inside(t) /\ \A u \in Thread \ {t} : Inside(u)' = Inside(u)
  BY DEF Acquire, To, Inside, Typed, TypeOK
<1>3. owner \in [Lock -> Thread \cup {NoThread}]
  BY DEF Typed, TypeOK
<1>4. ASSUME NEW l \in Lock, NEW u \in Thread
      PROVE  owner'[l] = u <=> mine'[u] = l /\ Inside(u)'
  <2>1. CASE u = t
    BY <1>1, <1>2, <1>3, <2>1, KindAssumption DEF Held
  <2>2. CASE u # t
    BY <1>1, <1>2, <1>3, <2>2, KindAssumption DEF Held
  <2> QED
    BY <2>1, <2>2
<1> QED
  BY <1>4 DEF Held

LEMMA HeldStep == ASSUME Typed, Held, [Next]_vars PROVE Held'
<1>1. CASE UNCHANGED vars
  BY <1>1 DEF vars, Held, Inside
<1>2. ASSUME NEW t \in Thread, BeginFails(t) \/ Commit(t) \/ Abort(t) PROVE Held'
  <2>1. Inside(t) /\ Unlocked(t) /\ \E r : Left(t, r)
    BY <1>2, ReturnLeft, RaisedLeft DEF BeginFails, Commit, Abort, Typed, Inside
  <2> QED
    BY <2>1, HeldReleased
<1>3. ASSUME NEW t \in Thread,
             \/ Refuse(t) \/ CreateFails(t) \/ LegacyFails(t) \/ SkipRecovery(t) \/ Degrade(t)
             \/ LegacyCommit(t)
      PROVE  Held'
  <2>1. ~Inside(t) /\ owner' = owner /\ \E r : Left(t, r)
    BY <1>3, ReturnLeft, FailedLeft DEF Refuse, CreateFails, Creates, LegacyFails, LegacyCommit,
       SkipRecovery, Degrade, Typed, Inside
  <2> QED
    BY <2>1, HeldKept, LeftIs DEF Typed, Inside
<1>4. ASSUME NEW t \in Thread, Stale(t) PROVE Held'
  <2>1. owner' = owner /\ pc[t] = "stale"
    BY <1>4 DEF Stale
  <2>2. CASE Return(t, "error")
    <3>1. Left(t, "error")
      BY <2>2, ReturnLeft DEF Typed
    <3> QED
      BY <2>1, <3>1, HeldKept, LeftIs DEF Typed, Inside
  <2>3. CASE To(t, "create") /\ UNCHANGED mine
    <3>1. pc'[t] = "create" /\ \A u \in Thread \ {t} : pc'[u] = pc[u]
      BY <2>3 DEF To, Typed, TypeOK
    <3> QED
      BY <2>1, <2>3, <3>1, HeldKept DEF Inside
  <2> QED
    BY <1>4, <2>2, <2>3 DEF Stale
<1>5. ASSUME NEW t \in Thread,
             \/ Call(t) \/ FastPath(t) \/ Create(t) \/ Checkpoint(t) \/ Disconnect(t)
             \/ Reconnect(t) \/ LegacyWrite(t) \/ Begin(t) \/ Raise(t) \/ Run(t)
      PROVE  Held'
  <2>1. UNCHANGED <<owner, mine>>
    BY <1>5 DEF Call, FastPath, Create, Checkpoint, Disconnect, Reconnect, LegacyWrite, Begin,
       Raise, Run, locks, local
  <2>2. \A u \in Thread : Inside(u)' = Inside(u)
    <3>1. CASE Begin(t) \/ Raise(t)
      BY <3>1 DEF Begin, Raise, To, Inside, Typed, TypeOK
    <3>2. CASE Run(t)
      BY <3>2 DEF Run, Inside
    <3>3. CASE \/ Call(t) \/ FastPath(t) \/ Create(t) \/ Checkpoint(t) \/ Disconnect(t)
               \/ Reconnect(t) \/ LegacyWrite(t)
      <4>1. PICK label \in Label \ {"begin", "body", "abort"} : To(t, label)
        BY <3>3 DEF Call, FastPath, Create, Checkpoint, Disconnect, Reconnect, LegacyWrite,
           Ready, Label
      <4>2. ~Inside(t)
        BY <3>3 DEF Call, FastPath, Create, Creates, Checkpoint, Disconnect, Reconnect,
           LegacyWrite, Inside
      <4> QED
        BY <4>1, <4>2 DEF To, Inside, Typed, TypeOK
    <3> QED
      BY <1>5, <3>1, <3>2, <3>3
  <2> QED
    BY <2>1, <2>2, HeldKept
<1>6. ASSUME NEW t \in Thread, Register(t) PROVE Held'
  <2>1. /\ owner' = owner /\ pc[t] = "lock" /\ pc'[t] = "wait"
        /\ \A u \in Thread \ {t} : pc'[u] = pc[u] /\ mine'[u] = mine[u]
    BY <1>6 DEF Register, To, Typed, TypeOK
  <2> QED
    BY <2>1, HeldKept DEF Inside
<1>7. CASE Close \/ StrayClose
  BY <1>7, HeldKept DEF Close, StrayClose, locks, local, Inside
<1> QED
  BY <1>1, <1>2, <1>3, <1>4, <1>5, <1>6, <1>7, HeldAcquired DEF Next, Go, Step

LEMMA WritingStep == ASSUME Typed, Writing, [Next]_vars PROVE Writing'
<1>0. NoThread \notin Thread /\ pc \in [Thread -> Label]
  BY KindAssumption DEF Typed, TypeOK
<1>1. CASE UNCHANGED vars
  BY <1>1 DEF vars, Writing
<1>2. ASSUME NEW t \in Thread, NEW r, Left(t, r) PROVE Writing'
  BY <1>0, <1>2, LeftIs DEF Writing, Typed
<1>3. ASSUME NEW t \in Thread, Go(t), writeLock' = writeLock,
             NEW label \in Label \ {"idle"}, To(t, label)
      PROVE  Writing'
  BY <1>0, <1>3 DEF To, Writing
<1>4. ASSUME NEW t \in Thread, Call(t) PROVE Writing'
  BY <1>0, <1>4 DEF Call, To, Writing
<1>5. ASSUME NEW t \in Thread,
             \/ Refuse(t) \/ CreateFails(t) \/ LegacyFails(t) \/ SkipRecovery(t) \/ Degrade(t)
             \/ LegacyCommit(t) \/ BeginFails(t) \/ Commit(t) \/ Abort(t)
      PROVE  \E r : Left(t, r)
  BY <1>5, ReturnLeft, FailedLeft, RaisedLeft DEF Refuse, CreateFails, LegacyFails, LegacyCommit,
     SkipRecovery, Degrade, BeginFails, Commit, Abort, Typed
<1>6. ASSUME NEW t \in Thread,
             \/ Acquire(t) \/ FastPath(t) \/ Create(t) \/ Register(t) \/ Checkpoint(t)
             \/ Disconnect(t) \/ Reconnect(t) \/ LegacyWrite(t) \/ Begin(t) \/ Raise(t)
      PROVE  writeLock' = writeLock /\ \E label \in Label \ {"idle"} : To(t, label)
  BY <1>6 DEF Acquire, FastPath, Create, Register, Checkpoint, Disconnect, Reconnect,
     LegacyWrite, Begin, Raise, Ready, Label, locks
<1>7. ASSUME NEW t \in Thread, Stale(t)
      PROVE  \/ Left(t, "error")
             \/ writeLock' = writeLock /\ \E label \in Label \ {"idle"} : To(t, label)
  BY <1>7, ReturnLeft DEF Stale, Label, Typed
<1>8. ASSUME NEW t \in Thread, Run(t) PROVE Writing'
  BY <1>8 DEF Run, locks, Writing
<1>9. CASE Close \/ StrayClose
  BY <1>9 DEF Close, StrayClose, locks, Writing
<1>10. ASSUME NEW t \in Thread, Go(t) PROVE Writing'
  <2>1. CASE Run(t)
    BY <1>8, <2>1
  <2>2. CASE \E r : Left(t, r)
    BY <1>2, <2>2
  <2>3. CASE writeLock' = writeLock /\ \E label \in Label \ {"idle"} : To(t, label)
    BY <1>3, <1>10, <2>3
  <2> QED
    BY <1>5, <1>6, <1>7, <1>10, <2>1, <2>2, <2>3 DEF Go, Step
<1> QED
  BY <1>1, <1>4, <1>9, <1>10 DEF Next

LEMMA InitLocking == Init => Held /\ Writing
  BY KindAssumption, NameAssumption DEF Init, Held, Writing, Inside

(* No error, retry, recovery or close leaves a lock held by a thread that   *)
(* is outside the block: neither a transaction lock, whichever of those     *)
(* that were forgotten it is, nor the driver's write lock.                  *)
THEOREM LocksAlwaysReleased == Spec => []LocksReleased
<1> DEFINE Inv == Typed /\ Held /\ Writing
<1>1. Init => Inv
  BY InitTyped, InitLocking
<1>2. Inv /\ [Next]_vars => Inv'
  BY TypedStep, HeldStep, WritingStep
<1>3. Inv => LocksReleased
  BY DEF Held, Writing, LocksReleased, Inside
<1> QED
  BY <1>1, <1>2, <1>3, PTL DEF Spec

(* Two threads are never in their blocks under the same lock. *)
OneInside == \A t, u \in Thread : Inside(t) /\ Inside(u) /\ mine[t] = mine[u] => t = u

THEOREM LocksExclude == Spec => []OneInside
<1> DEFINE Inv == Typed /\ Held /\ Writing
<1>1. Init => Inv
  BY InitTyped, InitLocking
<1>2. Inv /\ [Next]_vars => Inv'
  BY TypedStep, HeldStep, WritingStep
<1>3. Inv => OneInside
  BY DEF Held, OneInside, Inside, Typed, Placed, PlaceAt
<1> QED
  BY <1>1, <1>2, <1>3, PTL DEF Spec

-----------------------------------------------------------------------------
(* The open transaction has an owner. *)

LEMMA OwnedKept ==
  ASSUME NoStrandedTransaction, inTx' \subseteq inTx, alive \cap inTx' \subseteq alive',
         \A u \in Thread : Owns(u) /\ conn[u] \in inTx' => Owns(u)' /\ conn'[u] = conn[u]
  PROVE  NoStrandedTransaction'
BY DEF NoStrandedTransaction

LEMMA EndedTx ==
  ASSUME NEW c, NEW commit, Ended(c, commit) PROVE inTx' = inTx \ {c}
BY DEF Ended

LEMMA EndTx ==
  ASSUME NEW t, NEW commit, End(t, commit) PROVE inTx' = inTx \ {conn[t]}
BY EndedTx DEF End

(* The steps that keep what Owns and the other threads have, by what they   *)
(* do to the open transactions.                                             *)
LEMMA OwnsKept ==
  ASSUME Typed, NEW t \in Thread, Go(t), ~Begin(t), NEW u \in Thread, Owns(u),
         u # t \/ ~(Commit(t) \/ Abort(t))
  PROVE  Owns(u)' /\ conn'[u] = conn[u]
<1>1. CASE \E r : Left(t, r)
  <2>1. /\ \A v \in Thread \ {t} : pc'[v] = pc[v] /\ conn'[v] = conn[v]
        /\ pc'[t] \in {"idle", "enter", "recover"}
    BY <1>1, LeftIs DEF Typed
  <2>2. outer' = outer /\ u # t
    <3>1. UNCHANGED outer /\ (pc[t] \notin {"body", "abort"} \/ Commit(t) \/ Abort(t))
      BY <2>1 DEF Go, Step, Refuse, FastPath, Stale, Create, Creates, CreateFails, Register,
         Begin, BeginFails, Run, Raise, Commit, Abort, LegacyWrite, LegacyFails, LegacyCommit,
         SkipRecovery, Checkpoint, Disconnect, Reconnect, Degrade, Acquire, local, To, Typed, TypeOK
    <3> QED
      BY <3>1 DEF Owns
  <2> QED
    BY <2>1, <2>2 DEF Owns
<1>2. CASE Raise(t) \/ Run(t)
  BY <1>2 DEF Raise, Run, To, local, Owns, Typed, TypeOK
<1>3. CASE FastPath(t) \/ Create(t) \/ Register(t) \/ Checkpoint(t) \/ Disconnect(t)
           \/ Reconnect(t) \/ LegacyWrite(t) \/ (Stale(t) /\ To(t, "create"))
  <2>1. pc[t] \notin {"body", "abort"} /\ outer' = outer /\ \E label : To(t, label)
    BY <1>3 DEF FastPath, Create, Creates, Register, Checkpoint, Disconnect, Reconnect, LegacyWrite,
       Stale, local
  <2>2. \A v \in Thread \ {t} : conn'[v] = conn[v] /\ pc'[v] = pc[v]
    <3>1. \A v \in Thread \ {t} : pc'[v] = pc[v]
      BY <2>1 DEF To, Typed, TypeOK
    <3>2. \A v \in Thread \ {t} : conn'[v] = conn[v]
      <4>1. CASE FastPath(t) \/ Create(t)
        BY <4>1 DEF FastPath, Create, Typed, TypeOK
      <4>2. CASE Register(t) \/ Checkpoint(t) \/ Disconnect(t) \/ Reconnect(t) \/ LegacyWrite(t)
        BY <4>2 DEF Register, Checkpoint, Disconnect, Reconnect, LegacyWrite, local
      <4>3. CASE Stale(t) /\ To(t, "create")
        BY <4>3, ReturnLeft, LeftIs DEF Stale, Typed
      <4> QED
        BY <1>3, <4>1, <4>2, <4>3
    <3> QED
      BY <3>1, <3>2
  <2> QED
    BY <2>1, <2>2 DEF Owns
<1>4. CASE Acquire(t)
  BY <1>4 DEF Acquire, To, Owns, Typed, TypeOK
<1>5. Stale(t) => Left(t, "error") \/ (Stale(t) /\ To(t, "create"))
  BY ReturnLeft DEF Stale, Typed
<1>6. ASSUME \/ Refuse(t) \/ CreateFails(t) \/ LegacyFails(t) \/ SkipRecovery(t) \/ Degrade(t)
             \/ LegacyCommit(t) \/ BeginFails(t) \/ Commit(t) \/ Abort(t)
      PROVE  \E r : Left(t, r)
  BY <1>6, ReturnLeft, FailedLeft, RaisedLeft DEF Refuse, CreateFails, LegacyFails, LegacyCommit,
     SkipRecovery, Degrade, BeginFails, Commit, Abort, Typed
<1> QED
  BY <1>1, <1>2, <1>3, <1>4, <1>5, <1>6 DEF Go, Step

LEMMA StrandedStep ==
  ASSUME Typed, NoStrandedTransaction, [Next]_vars PROVE NoStrandedTransaction'
<1>1. CASE UNCHANGED vars
  BY <1>1 DEF vars, NoStrandedTransaction, Owns
<1>2. ASSUME NEW t \in Thread, Go(t), Begin(t) PROVE NoStrandedTransaction'
  <2>1. /\ pc[t] = "begin" /\ outer[t] /\ conn[t] \in alive /\ inTx' = {conn[t]}
        /\ UNCHANGED <<alive, conn, outer>> /\ pc'[t] = "body"
    BY <1>2 DEF Begin, To, local, Typed, TypeOK, Placed, PlaceAt
  <2> QED
    BY <2>1 DEF NoStrandedTransaction, Owns
<1>3. ASSUME NEW t \in Thread, Go(t), Commit(t) \/ Abort(t) PROVE NoStrandedTransaction'
  <2>1. /\ alive' = alive /\ inTx' \subseteq inTx
        /\ Owns(t) => conn[t] \notin inTx'
    BY <1>3, EndTx DEF Commit, Abort, Owns
  <2>2. ~Begin(t)
    BY <1>3 DEF Begin, Commit, Abort
  <2>3. \A u \in Thread : Owns(u) /\ conn[u] \in inTx' => Owns(u)' /\ conn'[u] = conn[u]
    BY <1>3, <2>1, <2>2, OwnsKept
  <2> QED
    BY <2>1, <2>3, OwnedKept
<1>4. ASSUME NEW t \in Thread, Go(t), ~Begin(t), ~(Commit(t) \/ Abort(t))
      PROVE  NoStrandedTransaction'
  <2>1. inTx' \subseteq inTx /\ alive \cap inTx' \subseteq alive'
    <3>1. CASE LegacyCommit(t)
      BY <3>1, EndTx DEF LegacyCommit
    <3>2. CASE Create(t) \/ Checkpoint(t) \/ Reconnect(t)
      BY <3>2, OpenedIs DEF Create, Checkpoint, Reconnect, Typed, file
    <3>3. CASE Disconnect(t)
      BY <3>3, ForgetIs DEF Disconnect, Typed, file
    <3>4. CASE \/ Refuse(t) \/ FastPath(t) \/ Stale(t) \/ CreateFails(t) \/ Register(t)
               \/ BeginFails(t) \/ Run(t) \/ Raise(t) \/ LegacyWrite(t) \/ LegacyFails(t)
               \/ SkipRecovery(t) \/ Degrade(t) \/ Acquire(t)
      BY <3>4 DEF Refuse, FastPath, Stale, CreateFails, Register, BeginFails, Run, Raise,
         LegacyWrite, LegacyFails, SkipRecovery, Degrade, Acquire, file
    <3> QED
      BY <1>4, <3>1, <3>2, <3>3, <3>4 DEF Go, Step
  <2>2. \A u \in Thread : Owns(u) => Owns(u)' /\ conn'[u] = conn[u]
    BY <1>4, OwnsKept
  <2> QED
    BY <2>1, <2>2, OwnedKept
<1>5. ASSUME NEW t \in Thread, Call(t) PROVE NoStrandedTransaction'
  <2>1. /\ UNCHANGED <<inTx, alive, conn>> /\ ~Owns(t)
        /\ \A u \in Thread \ {t} : pc'[u] = pc[u] /\ outer'[u] = outer[u]
    BY <1>5 DEF Call, To, file, Owns, Typed, TypeOK
  <2> QED
    BY <2>1, OwnedKept DEF Owns
<1>6. CASE Close \/ StrayClose
  <2>1. UNCHANGED <<pc, outer, conn>>
    BY <1>6 DEF Close, StrayClose, local
  <2>2. inTx' \subseteq inTx /\ alive \cap inTx' \subseteq alive'
    BY <1>6, ForgetIs, EndedTx DEF Close, StrayClose, Typed
  <2> QED
    BY <2>1, <2>2, OwnedKept DEF Owns
<1> QED
  BY <1>1, <1>2, <1>3, <1>4, <1>5, <1>6 DEF Next

LEMMA InitStranded == Init => NoStrandedTransaction
  BY DEF Init, NoStrandedTransaction

(* No error, retry, recovery or close leaves a transaction open with nobody *)
(* left to end it, on a connection that nobody can reach any more.          *)
THEOREM TransactionsEnd == Spec => []NoStrandedTransaction
<1>1. Init => Typed /\ NoStrandedTransaction
  BY InitTyped, InitStranded
<1>2. Typed /\ NoStrandedTransaction /\ [Next]_vars => (Typed /\ NoStrandedTransaction)'
  BY TypedStep, StrandedStep
<1> QED
  BY <1>1, <1>2, PTL DEF Spec

-----------------------------------------------------------------------------
(* What an unmixed call has written.  Its statements are pending only on    *)
(* the connection of its own transaction, and are all of them there until   *)
(* the connection is closed under it; what it has saved is told by where it *)
(* stands.                                                                  *)

ClosedEmpty == \A c \in Conn \ inTx : pending[c] = {}

Waiting == {"enter", "stale", "create", "lock", "wait", "begin", "write",
            "recover", "reconnect", "reopen"}
Items(t) == {k \in {1, 2} : <<t, k>> \in pending[conn[t]]}

PendingAt(t) ==
  \A c \in Conn : \A k \in {1, 2} : <<t, k>> \in pending[c] => Owns(t) /\ conn[t] = c
OpenAt(t) ==
  Owns(t) => saved[t] = {} /\ (conn[t] \notin alive \/ (conn[t] \in inTx /\ Items(t) = done[t]))
SavedAt(t) ==
  /\ pc[t] \in Waiting => saved[t] = {}
  /\ pc[t] = "commit" => saved[t] = {1}
  /\ t \in Writer /\ ~outer[t] /\ pc[t] = "body" => saved[t] = done[t] /\ saved[t] \in {{}, {1}}
  /\ t \in Writer /\ ~outer[t] /\ pc[t] = "abort" => saved[t] = {}
OverAt(t) ==
  pc[t] = "idle" /\ (outer[t] \/ t \notin Repository) =>
    /\ result[t] = "ok" => saved[t] = Statement(t)
    /\ saved[t] \in {{}, Statement(t)}
    /\ result[t] = "error" /\ t \notin Legacy => saved[t] = {}
Kept(t) == PendingAt(t) /\ OpenAt(t) /\ SavedAt(t) /\ OverAt(t)
Whole == \A t \in Thread : ~mixed[t] => Kept(t)

LEMMA EndIs ==
  ASSUME TypeOK, NEW t \in Thread, NEW commit \in BOOLEAN, End(t, commit)
  PROVE  \/ /\ conn[t] \in inTx /\ Ended(conn[t], commit) /\ Mix(t)
         \/ conn[t] \notin inTx /\ UNCHANGED <<inTx, pending, saved, mixed>>
BY DEF End

LEMMA EndedIs ==
  ASSUME TypeOK, NEW c \in Conn, NEW commit \in BOOLEAN, Ended(c, commit)
  PROVE  /\ inTx' = inTx \ {c} /\ pending'[c] = {}
         /\ \A d \in Conn \ {c} : pending'[d] = pending[d]
         /\ \A u \in Thread :
              saved'[u] = saved[u] \cup {k \in {1, 2} : commit /\ <<u, k>> \in pending[c]}
BY DEF Ended, TypeOK

(* The steps that leave pending and the open transactions alone. *)
LEMMA Still ==
  ASSUME Typed, NEW t \in Thread, Go(t)
  PROVE  \/ UNCHANGED <<inTx, pending, saved, mixed>>
         \/ Begin(t) /\ UNCHANGED <<pending, saved, mixed>>
         \/ Run(t) \/ LegacyWrite(t) \/ Commit(t) \/ Abort(t) \/ LegacyCommit(t)
<1>1. CASE Create(t) \/ Checkpoint(t) \/ Reconnect(t)
  BY <1>1, OpenedIs DEF Create, Checkpoint, Reconnect, Typed, file, effect, written
<1>2. CASE Disconnect(t)
  BY <1>2, ForgetIs DEF Disconnect, Typed, file, effect, written
<1>3. CASE \/ Refuse(t) \/ FastPath(t) \/ Stale(t) \/ CreateFails(t) \/ Register(t)
           \/ BeginFails(t) \/ Raise(t) \/ LegacyFails(t) \/ SkipRecovery(t) \/ Degrade(t)
           \/ Acquire(t)
  BY <1>3 DEF Refuse, FastPath, Stale, CreateFails, Register, BeginFails, Raise,
     LegacyFails, SkipRecovery, Degrade, Acquire, file, effect, written
<1>4. CASE Begin(t)
  BY <1>4 DEF Begin, effect, written
<1> QED
  BY <1>1, <1>2, <1>3, <1>4 DEF Go, Step

LEMMA ClosedEmptyStep ==
  ASSUME Typed, ClosedEmpty, [Next]_vars PROVE ClosedEmpty'
<1>1. CASE UNCHANGED <<inTx, pending>>
  BY <1>1 DEF ClosedEmpty
<1>2. ASSUME NEW c \in Conn, NEW commit \in BOOLEAN, Ended(c, commit) PROVE ClosedEmpty'
  BY <1>2, EndedIs DEF ClosedEmpty, Typed
<1>3. ASSUME NEW t \in Thread, NEW k \in {1, 2}, Execute(t, k), inTx' = inTx PROVE ClosedEmpty'
  BY <1>3 DEF Execute, ClosedEmpty, Typed, TypeOK
<1>4. ASSUME NEW t \in Thread, NEW commit \in BOOLEAN, End(t, commit) PROVE ClosedEmpty'
  BY <1>1, <1>2, <1>4, EndIs DEF Typed, TypeOK
<1>5. ASSUME NEW t \in Thread, Run(t) \/ LegacyWrite(t) PROVE ClosedEmpty'
  BY <1>3, <1>5 DEF Run, LegacyWrite, Statement, file
<1>6. ASSUME NEW t \in Thread, Begin(t), UNCHANGED pending PROVE ClosedEmpty'
  BY <1>6 DEF Begin, ClosedEmpty
<1>7. ASSUME NEW t \in Thread, Commit(t) \/ Abort(t) \/ LegacyCommit(t) PROVE ClosedEmpty'
  BY <1>1, <1>4, <1>7 DEF Commit, Abort, LegacyCommit
<1>8. ASSUME NEW t \in Thread, Call(t) PROVE ClosedEmpty'
  BY <1>8 DEF Call, file, ClosedEmpty
<1>9. CASE StrayClose
  BY <1>2, <1>9 DEF StrayClose, Typed, TypeOK
<1>10. CASE Close
  BY <1>1, <1>10, ForgetIs DEF Close, effect, written, Typed
<1>11. ASSUME NEW t \in Thread, Go(t) PROVE ClosedEmpty'
  BY <1>1, <1>5, <1>6, <1>7, <1>11, Still
<1> QED
  BY <1>1, <1>8, <1>9, <1>10, <1>11 DEF Next, vars

(* A step keeps what a thread has written when it leaves its locals alone   *)
(* and its transaction too, unless it closes the connection.                *)
LEMMA KeptBy ==
  ASSUME Typed, NEW u \in Thread, Kept(u), saved'[u] = saved[u],
         pc'[u] = pc[u], conn'[u] = conn[u], outer'[u] = outer[u],
         done'[u] = done[u], result'[u] = result[u],
         \A c \in Conn : \A k \in {1, 2} : <<u, k>> \in pending'[c] => <<u, k>> \in pending[c],
         Owns(u) =>
           \/ conn[u] \notin alive'
           \/ /\ conn[u] \in inTx => conn[u] \in inTx'
              /\ \A k \in {1, 2} : <<u, k>> \in pending[conn[u]] => <<u, k>> \in pending'[conn[u]]
              /\ conn[u] \in alive' => conn[u] \in alive
  PROVE  Kept(u)'
<1>1. PendingAt(u)'
  BY DEF Kept, PendingAt, Owns
<1>2. OpenAt(u)'
  <2>1. SUFFICES ASSUME Owns(u), conn[u] \in alive'
                 PROVE  saved[u] = {} /\ conn[u] \in inTx' /\ Items(u)' = done[u]
    BY DEF Kept, OpenAt, Owns
  <2>2. saved[u] = {} /\ conn[u] \in inTx /\ conn[u] \in inTx' /\ Items(u) = done[u]
    BY <2>1 DEF Kept, OpenAt
  <2>3. conn[u] \in Conn
    BY <2>2 DEF Typed, TypeOK
  <2>4. \A k \in {1, 2} : <<u, k>> \in pending'[conn[u]] <=> <<u, k>> \in pending[conn[u]]
    BY <2>1, <2>3
  <2>5. Items(u)' = Items(u)
    BY <2>4 DEF Items
  <2> QED
    BY <2>2, <2>5
<1>3. SavedAt(u)' /\ OverAt(u)'
  BY DEF Kept, SavedAt, OverAt, Statement
<1> QED
  BY <1>1, <1>2, <1>3 DEF Kept

(* What a step of one thread does to the locals of another: nothing. *)
LEMMA OtherLocals ==
  ASSUME Typed, NEW t \in Thread, Go(t), NEW u \in Thread \ {t}
  PROVE  /\ pc'[u] = pc[u] /\ conn'[u] = conn[u] /\ outer'[u] = outer[u]
         /\ done'[u] = done[u] /\ result'[u] = result[u]
<1>1. ASSUME \/ Refuse(t) \/ CreateFails(t) \/ LegacyFails(t) \/ SkipRecovery(t) \/ Degrade(t)
             \/ LegacyCommit(t) \/ BeginFails(t) \/ Commit(t) \/ Abort(t)
      PROVE  outer' = outer /\ \E r : Left(t, r)
  BY <1>1, ReturnLeft, FailedLeft, RaisedLeft DEF Refuse, CreateFails, LegacyFails, LegacyCommit,
     SkipRecovery, Degrade, BeginFails, Commit, Abort, Typed
<1>2. CASE Stale(t)
  <2>1. CASE Return(t, "error")
    BY <1>2, <2>1, ReturnLeft, LeftIs DEF Stale, Typed
  <2>2. CASE To(t, "create") /\ UNCHANGED <<conn, done, result>>
    BY <1>2, <2>2 DEF Stale, To, Typed, TypeOK
  <2> QED
    BY <1>2, <2>1, <2>2 DEF Stale
<1>3. CASE FastPath(t) \/ Create(t) \/ Register(t)
  BY <1>3 DEF FastPath, Create, Register, To, Typed, TypeOK, effect
<1>4. CASE Checkpoint(t) \/ Disconnect(t) \/ Reconnect(t) \/ Begin(t) \/ Raise(t)
  BY <1>4 DEF Checkpoint, Disconnect, Reconnect, Begin, Raise, To, Typed, TypeOK, local, effect
<1>5. CASE Run(t) \/ LegacyWrite(t)
  BY <1>5 DEF Run, LegacyWrite, Execute, To, Typed, TypeOK, local
<1>6. CASE Acquire(t)
  BY <1>6 DEF Acquire, To, Typed, TypeOK, effect
<1> QED
  BY <1>1, <1>2, <1>3, <1>4, <1>5, <1>6, LeftIs DEF Go, Step, Typed

(* Connections open unused, so that none opens under a thread. *)
LEMMA NoneOpens ==
  ASSUME Typed, NEW t \in Thread, Go(t), NEW u \in Thread, conn[u] \in alive'
  PROVE  conn[u] \in alive
<1>1. CASE Create(t) \/ Checkpoint(t) \/ Reconnect(t)
  <2>1. Opened \/ alive' = alive
    BY <1>1 DEF Create, Checkpoint, Reconnect, file
  <2> QED
    BY <2>1, OpenedIs DEF Unused, Typed
<1>2. CASE Disconnect(t)
  BY <1>2, ForgetIs DEF Disconnect, Typed, file
<1>3. CASE \/ Refuse(t) \/ FastPath(t) \/ Stale(t) \/ CreateFails(t) \/ Register(t)
           \/ BeginFails(t) \/ Raise(t) \/ LegacyFails(t) \/ SkipRecovery(t) \/ Degrade(t)
           \/ Acquire(t) \/ Begin(t) \/ Run(t) \/ LegacyWrite(t) \/ Commit(t) \/ Abort(t)
           \/ LegacyCommit(t)
  BY <1>3 DEF Refuse, FastPath, Stale, CreateFails, Register, BeginFails, Raise, Begin, Run,
     LegacyFails, SkipRecovery, Degrade, Acquire, LegacyWrite, Commit, Abort, LegacyCommit, file
<1> QED
  BY <1>1, <1>2, <1>3 DEF Go, Step

(* The end of a transaction marks those who were in it; of the others it    *)
(* neither saves nor drops anything.                                        *)
LEMMA EndOther ==
  ASSUME Typed, NEW t \in Thread, NEW commit \in BOOLEAN, End(t, commit),
         NEW u \in Thread \ {t}, ~mixed'[u], ~mixed[u] => Kept(u)
  PROVE  /\ Kept(u) /\ saved'[u] = saved[u]
         /\ \A c \in Conn : \A k \in {1, 2} : <<u, k>> \in pending'[c] <=> <<u, k>> \in pending[c]
         /\ Owns(u) /\ conn[u] \in inTx => conn[u] \in inTx'
<1>1. ~mixed[u] /\ Kept(u)
  BY EndType DEF Typed
<1>2. CASE conn[t] \in inTx /\ Ended(conn[t], commit) /\ Mix(t)
  <2>1. u \notin Others(t)
    BY <1>2 DEF Mix
  <2>2. Owns(u) => conn[u] # conn[t]
    BY <2>1 DEF Others
  <2>3. conn[t] \in Conn
    BY <1>2 DEF Typed, TypeOK
  <2>4. \A k \in {1, 2} : <<u, k>> \notin pending[conn[t]]
    BY <1>1, <2>2, <2>3 DEF Kept, PendingAt
  <2>5. /\ inTx' = inTx \ {conn[t]} /\ pending'[conn[t]] = {}
        /\ \A d \in Conn \ {conn[t]} : pending'[d] = pending[d]
        /\ saved'[u] = saved[u] \cup {k \in {1, 2} : commit /\ <<u, k>> \in pending[conn[t]]}
    BY <1>2, <2>3, EndedIs DEF Typed
  <2>6. saved'[u] = saved[u]
    BY <2>4, <2>5
  <2> QED
    BY <1>1, <2>2, <2>4, <2>5, <2>6
<1>3. CASE UNCHANGED <<inTx, pending, saved, mixed>>
  BY <1>1, <1>3
<1> QED
  BY <1>2, <1>3, EndIs DEF Typed

LEMMA ExecuteIs ==
  ASSUME TypeOK, NEW t \in Thread, NEW k \in {1, 2}, Execute(t, k)
  PROVE  /\ conn[t] \in alive /\ done'[t] = done[t] \cup {k}
         /\ \/ /\ conn[t] \in inTx /\ Mix(t) /\ saved' = saved
               /\ pending'[conn[t]] = pending[conn[t]] \cup {<<t, k>>}
               /\ \A c \in Conn \ {conn[t]} : pending'[c] = pending[c]
            \/ /\ conn[t] \notin inTx /\ UNCHANGED <<pending, mixed>>
               /\ saved'[t] = saved[t] \cup {k}
               /\ \A u \in Thread \ {t} : saved'[u] = saved[u]
<1>1. conn[t] \in alive /\ conn[t] \in Conn /\ done'[t] = done[t] \cup {k}
  BY DEF Execute, TypeOK
<1>2. CASE conn[t] \in inTx
  <2>1. pending' = [pending EXCEPT ![conn[t]] = pending[conn[t]] \cup {<<t, k>>}] /\ Mix(t) /\ saved' = saved
    BY <1>2 DEF Execute
  <2> QED
    BY <1>1, <1>2, <2>1 DEF TypeOK
<1>3. CASE conn[t] \notin inTx
  <2>1. saved' = [saved EXCEPT ![t] = saved[t] \cup {k}] /\ UNCHANGED <<pending, mixed>>
    BY <1>3 DEF Execute
  <2> QED
    BY <1>1, <1>3, <2>1 DEF TypeOK
<1> QED
  BY <1>2, <1>3

LEMMA OtherKept ==
  ASSUME Typed, NEW t \in Thread, Go(t), NEW u \in Thread \ {t},
         ~mixed'[u], ~mixed[u] => Kept(u)
  PROVE  Kept(u)'
<1>1. /\ pc'[u] = pc[u] /\ conn'[u] = conn[u] /\ outer'[u] = outer[u]
      /\ done'[u] = done[u] /\ result'[u] = result[u]
  BY OtherLocals
<1>2. conn[u] \in alive' => conn[u] \in alive
  BY NoneOpens
<1>3. SUFFICES /\ Kept(u) /\ saved'[u] = saved[u]
               /\ \A c \in Conn : \A k \in {1, 2} : <<u, k>> \in pending'[c] <=> <<u, k>> \in pending[c]
               /\ Owns(u) => conn[u] \notin alive \/ (conn[u] \in inTx => conn[u] \in inTx')
  <2>1. ASSUME Owns(u), conn[u] \in alive
        PROVE  \A k \in {1, 2} : <<u, k>> \in pending[conn[u]] => <<u, k>> \in pending'[conn[u]]
    BY <1>3, <2>1 DEF Typed, TypeOK
  <2> QED
    BY <1>1, <1>2, <1>3, <2>1, KeptBy
<1>4. CASE UNCHANGED <<inTx, pending, saved, mixed>>
  BY <1>4
<1>5. CASE Begin(t) /\ UNCHANGED <<pending, saved, mixed>>
  <2>1. inTx = {}
    BY <1>5 DEF Begin
  <2> QED
    BY <1>5, <2>1
<1>6. CASE Run(t) \/ LegacyWrite(t)
  <2>1. PICK k \in {1, 2} : Execute(t, k) /\ inTx' = inTx
    BY <1>6 DEF Run, LegacyWrite, Statement, file
  <2>2. mixed[u] => mixed'[u]
    BY <2>1, ExecuteType DEF Typed
  <2>3. saved'[u] = saved[u]
    BY <2>1, ExecuteIs DEF Typed
  <2>4. ASSUME NEW c \in Conn, NEW j \in {1, 2}
        PROVE  <<u, j>> \in pending'[c] <=> <<u, j>> \in pending[c]
    BY <2>1, ExecuteIs DEF Typed
  <2> QED
    BY <2>1, <2>2, <2>3, <2>4
<1>7. CASE Commit(t) \/ Abort(t) \/ LegacyCommit(t)
  <2>1. CASE \E commit \in BOOLEAN : End(t, commit)
    BY <2>1, EndOther
  <2>2. CASE UNCHANGED <<inTx, pending, saved, mixed>>
    BY <2>2
  <2> QED
    BY <1>7, <2>1, <2>2 DEF Commit, Abort, LegacyCommit
<1> QED
  BY <1>4, <1>5, <1>6, <1>7, Still

Unpending(t) == \A c \in Conn : \A k \in {1, 2} : <<t, k>> \notin pending[c]

LEMMA LeftKept ==
  ASSUME Typed, NEW t \in Thread, NEW r \in {"ok", "error"}, Left(t, r), outer' = outer,
         Unpending(t)',
         outer[t] \/ t \notin Repository =>
           /\ saved'[t] \in {{}, Statement(t)}
           /\ r = "ok" => saved'[t] = Statement(t)
           /\ r = "error" /\ t \notin Legacy => saved'[t] = {}
  PROVE  Kept(t)'
<1>1. /\ pc'[t] \in {"idle", "enter", "recover"}
      /\ pc'[t] = "idle" => result'[t] = r
      /\ pc'[t] # "idle" => r = "error" /\ t \in Writer
  BY LeftIs DEF Typed
<1>2. PendingAt(t)'
  BY DEF PendingAt, Unpending
<1>3. OpenAt(t)'
  BY <1>1 DEF OpenAt, Owns
<1>4. SavedAt(t)'
  BY <1>1, KindAssumption DEF SavedAt, Waiting
<1>5. OverAt(t)'
  BY <1>1 DEF OverAt
<1> QED
  BY <1>2, <1>3, <1>4, <1>5 DEF Kept

LEMMA MoveKept ==
  ASSUME Typed, NEW t \in Thread, Kept(t), pc[t] \in Waiting, pc'[t] \in Waiting,
         UNCHANGED <<pending, saved>>
  PROVE  Kept(t)'
<1>1. ~Owns(t) /\ ~Owns(t)'
  BY DEF Owns, Waiting
<1>2. PendingAt(t)' /\ OpenAt(t)'
  BY <1>1 DEF Kept, PendingAt, OpenAt
<1>3. saved'[t] = {}
  BY DEF Kept, SavedAt
<1>4. SavedAt(t)' /\ OverAt(t)'
  BY <1>3 DEF SavedAt, OverAt, Waiting
<1> QED
  BY <1>2, <1>4 DEF Kept

LEMMA NotOwning ==
  ASSUME NEW t \in Thread, Kept(t), ~Owns(t) PROVE Unpending(t)
BY DEF Kept, PendingAt, Unpending

(* The steps of a thread outside its block. *)
LEMMA WaitingKept ==
  ASSUME Typed, NEW t \in Thread, Kept(t),
         \/ Refuse(t) \/ FastPath(t) \/ Stale(t) \/ Create(t) \/ CreateFails(t) \/ Register(t)
         \/ BeginFails(t) \/ LegacyFails(t) \/ SkipRecovery(t) \/ Checkpoint(t)
         \/ Disconnect(t) \/ Reconnect(t) \/ Degrade(t)
  PROVE  Kept(t)'
<1>1. UNCHANGED <<pending, saved, outer>>
  BY DEF Refuse, FastPath, Stale, Create, CreateFails, Register, BeginFails, LegacyFails,
     SkipRecovery, Checkpoint, Disconnect, Reconnect, Degrade, local, effect, written
<1>2. CASE Left(t, "error")
  <2>1. pc[t] \in Waiting \/ (t \in Legacy /\ pc[t] = "commit")
    BY DEF Refuse, FastPath, Stale, Create, Creates, CreateFails, Register, BeginFails, LegacyFails,
       SkipRecovery, Checkpoint, Disconnect, Reconnect, Degrade, Waiting, Typed, Placed, PlaceAt
  <2>2. ~Owns(t)
    BY DEF Refuse, FastPath, Stale, Create, Creates, CreateFails, Register, BeginFails, LegacyFails,
       SkipRecovery, Checkpoint, Disconnect, Reconnect, Degrade, Owns
  <2>3. Unpending(t)'
    BY <1>1, <2>2, NotOwning DEF Unpending
  <2>4. saved'[t] = {} \/ (t \in Legacy /\ saved'[t] = {1})
    BY <1>1, <2>1 DEF Kept, SavedAt
  <2>5. saved'[t] \in {{}, Statement(t)}
    BY <2>4, KindAssumption DEF Statement
  <2> QED
    BY <1>1, <1>2, <2>3, <2>4, <2>5, LeftKept
<1>3. CASE Stale(t) \/ Refuse(t) \/ CreateFails(t) \/ BeginFails(t) \/ LegacyFails(t)
           \/ SkipRecovery(t) \/ Degrade(t)
  <2>1. Left(t, "error") \/ (pc[t] = "stale" /\ To(t, "create"))
    BY <1>3, ReturnLeft, FailedLeft, RaisedLeft DEF Refuse, Stale, CreateFails, BeginFails,
       LegacyFails, SkipRecovery, Degrade, Typed
  <2> QED
    BY <1>1, <1>2, <2>1, MoveKept DEF To, Waiting, Typed, TypeOK
<1>4. CASE FastPath(t) \/ Create(t) \/ Register(t) \/ Checkpoint(t) \/ Disconnect(t) \/ Reconnect(t)
  <2>1. pc[t] \in Waiting /\ \E label \in Waiting : To(t, label)
    BY <1>4 DEF FastPath, Create, Creates, Register, Checkpoint, Disconnect, Reconnect, Ready, Waiting
  <2>2. pc'[t] \in Waiting
    BY <2>1 DEF To, Typed, TypeOK
  <2> QED
    BY <1>1, <2>1, <2>2, MoveKept
<1> QED
  BY <1>3, <1>4

(* The steps into a block and in it. *)
LEMMA AcquireKept ==
  ASSUME Typed, NEW t \in Thread, Kept(t), Acquire(t) PROVE Kept(t)'
<1>1. /\ pc[t] = "wait" /\ t \notin Legacy /\ done[t] = {} /\ saved[t] = {}
      /\ UNCHANGED <<done, saved, pending>>
  BY DEF Acquire, Typed, Placed, PlaceAt, Kept, SavedAt, Waiting, effect, written
<1>2. Unpending(t)'
  BY <1>1, NotOwning DEF Owns, Unpending
<1>3. CASE depth[t] = 0
  <2>1. pc'[t] = "begin"
    BY <1>3 DEF Acquire, To, Typed, TypeOK
  <2> QED
    BY <1>1, <2>1, MoveKept DEF Waiting
<1>4. CASE depth[t] # 0
  <2>1. pc'[t] = "body"
    BY <1>4 DEF Acquire, To, Typed, TypeOK
  <2>2. ~outer'[t]
    <3>1. (depth[t] = 0) = FALSE
      BY <1>4
    <3>2. outer' = [outer EXCEPT ![t] = FALSE]
      BY <3>1, Zenon DEF Acquire
    <3> QED
      BY <3>2 DEF Typed, TypeOK
  <2>3. PendingAt(t)' /\ OpenAt(t)'
    BY <1>2, <2>2 DEF PendingAt, Unpending, OpenAt, Owns
  <2>4. SavedAt(t)' /\ OverAt(t)'
    BY <1>1, <2>1 DEF SavedAt, OverAt, Waiting
  <2> QED
    BY <2>3, <2>4 DEF Kept
<1> QED
  BY <1>3, <1>4

LEMMA BeginKept ==
  ASSUME Typed, ClosedEmpty, NEW t \in Thread, Kept(t), Begin(t) PROVE Kept(t)'
<1>1. /\ pc[t] = "begin" /\ outer[t] /\ done[t] = {} /\ saved[t] = {}
      /\ UNCHANGED <<conn, outer, done, saved, pending>> /\ pc'[t] = "body"
  BY DEF Begin, To, Typed, TypeOK, Placed, PlaceAt, Kept, SavedAt, Waiting, local, effect, written
<1>2. conn[t] \in Conn /\ pending[conn[t]] = {} /\ inTx' = {conn[t]}
  BY DEF Begin, ClosedEmpty, Typed, TypeOK
<1>3. Unpending(t)
  BY <1>1, NotOwning DEF Owns
<1>4. PendingAt(t)'
  BY <1>1, <1>3 DEF PendingAt, Unpending
<1>5. OpenAt(t)'
  <2>1. Items(t)' = {}
    BY <1>1, <1>2 DEF Items
  <2> QED
    BY <1>1, <1>2, <2>1 DEF OpenAt
<1>6. SavedAt(t)' /\ OverAt(t)'
  BY <1>1 DEF SavedAt, OverAt, Waiting
<1> QED
  BY <1>4, <1>5, <1>6 DEF Kept

LEMMA RaiseKept ==
  ASSUME Typed, NEW t \in Thread, Kept(t), Raise(t) PROVE Kept(t)'
<1>1. /\ pc[t] = "body" /\ pc'[t] = "abort" /\ (t \in Repository \/ outer[t] \/ done[t] = {})
      /\ UNCHANGED <<inTx, alive, conn, outer, done, saved, pending>>
  BY DEF Raise, To, Typed, TypeOK, file, local, effect, written
<1>2. PendingAt(t)' /\ OpenAt(t)'
  BY <1>1 DEF Kept, PendingAt, OpenAt, Items, Owns
<1>3. SavedAt(t)' /\ OverAt(t)'
  BY <1>1, KindAssumption DEF Kept, SavedAt, OverAt, Waiting
<1> QED
  BY <1>2, <1>3 DEF Kept

(* A statement on a connection whose transaction is another thread's mixes  *)
(* the two.                                                                 *)
LEMMA ForeignMixes ==
  ASSUME Typed, NoStrandedTransaction, NEW t \in Thread, ~Owns(t), conn[t] \in inTx, Mix(t)
  PROVE  mixed'[t]
<1>1. Others(t) # {}
  BY DEF NoStrandedTransaction, Others
<1> QED
  BY <1>1, Zenon DEF Mix

LEMMA RunKept ==
  ASSUME Typed, NoStrandedTransaction, NEW t \in Thread, Kept(t), ~mixed'[t], Run(t)
  PROVE  Kept(t)'
<1>1. PICK k \in {1, 2} : Execute(t, k) /\ k \in Statement(t)
  BY DEF Run, Statement
<1>2. pc[t] = "body" /\ UNCHANGED <<inTx, alive, pc, conn, outer>>
  BY DEF Run, file, local
<1>3. OverAt(t)'
  BY <1>2 DEF OverAt
<1>4. CASE conn[t] \in inTx
  <2>1. /\ saved' = saved /\ pending'[conn[t]] = pending[conn[t]] \cup {<<t, k>>}
        /\ done'[t] = done[t] \cup {k} /\ conn[t] \in alive /\ conn[t] \in Conn
        /\ \A c \in Conn \ {conn[t]} : pending'[c] = pending[c]
    BY <1>1, <1>4, ExecuteIs DEF Typed, TypeOK
  <2>2. Owns(t) /\ outer[t]
    BY <1>1, <1>4, ForeignMixes, ExecuteIs DEF Typed, Owns
  <2>3. PendingAt(t)'
    BY <1>2, <2>1, <2>2 DEF Kept, PendingAt, Owns
  <2>4. OpenAt(t)'
    <3>1. saved[t] = {} /\ Items(t) = done[t]
      BY <1>4, <2>1, <2>2 DEF Kept, OpenAt
    <3>2. Items(t)' = Items(t) \cup {k}
      BY <1>2, <2>1 DEF Items
    <3> QED
      BY <1>2, <1>4, <2>1, <3>1, <3>2 DEF OpenAt
  <2>5. SavedAt(t)'
    BY <1>2, <2>2 DEF SavedAt, Waiting
  <2> QED
    BY <1>3, <2>3, <2>4, <2>5 DEF Kept
<1>5. CASE conn[t] \notin inTx
  <2>1. /\ pending' = pending /\ saved'[t] = saved[t] \cup {k} /\ done'[t] = done[t] \cup {k}
        /\ conn[t] \in alive
    BY <1>1, <1>5, ExecuteIs DEF Typed
  <2>2. ~Owns(t) /\ ~outer[t]
    BY <1>2, <1>5, <2>1 DEF Kept, OpenAt, Owns
  <2>3. PendingAt(t)' /\ OpenAt(t)'
    BY <1>2, <2>1, <2>2 DEF Kept, PendingAt, OpenAt, Owns
  <2>4. t \in Writer => k = 1
    BY <1>1, KindAssumption DEF Statement
  <2>5. SavedAt(t)'
    BY <1>2, <2>1, <2>2, <2>4 DEF Kept, SavedAt, Waiting
  <2> QED
    BY <1>3, <2>3, <2>5 DEF Kept
<1> QED
  BY <1>4, <1>5

LEMMA LegacyWriteKept ==
  ASSUME Typed, NoStrandedTransaction, NEW t \in Thread, Kept(t), ~mixed'[t], LegacyWrite(t)
  PROVE  Kept(t)'
<1>1. /\ pc[t] = "write" /\ pc'[t] = "commit" /\ t \in Legacy /\ saved[t] = {}
      /\ Execute(t, 1)
  BY DEF LegacyWrite, To, Typed, TypeOK, Placed, PlaceAt, Kept, SavedAt, Waiting
<1>2. ~Owns(t) /\ ~Owns(t)'
  BY <1>1 DEF Owns
<1>3. UNCHANGED pending /\ saved'[t] = {1}
  BY <1>1, <1>2, ExecuteIs, ForeignMixes DEF Typed
<1>4. PendingAt(t)' /\ OpenAt(t)'
  BY <1>2, <1>3 DEF Kept, PendingAt, OpenAt
<1>5. SavedAt(t)' /\ OverAt(t)'
  BY <1>1, <1>3 DEF SavedAt, OverAt, Waiting
<1> QED
  BY <1>4, <1>5 DEF Kept

LEMMA LegacyCommitKept ==
  ASSUME Typed, NoStrandedTransaction, NEW t \in Thread, Kept(t), ~mixed'[t], LegacyCommit(t)
  PROVE  Kept(t)'
<1>1. /\ pc[t] = "commit" /\ t \in Legacy /\ saved[t] = {1} /\ End(t, TRUE) /\ outer' = outer
      /\ Left(t, "ok")
  BY ReturnLeft DEF LegacyCommit, Typed, Placed, PlaceAt, Kept, SavedAt
<1>2. ~Owns(t)
  BY <1>1 DEF Owns
<1>3. UNCHANGED <<pending, saved>>
  BY <1>1, <1>2, EndIs, ForeignMixes DEF Typed
<1>4. Unpending(t)'
  BY <1>2, <1>3, NotOwning DEF Unpending
<1>5. saved'[t] = Statement(t)
  BY <1>1, <1>3, KindAssumption DEF Statement
<1> QED
  BY <1>1, <1>4, <1>5, LeftKept

(* COMMIT saves the statements of the block, ROLLBACK none. *)
LEMMA EndOwn ==
  ASSUME Typed, ClosedEmpty, NEW t \in Thread, Kept(t), Owns(t), NEW commit \in BOOLEAN,
         End(t, commit), commit => conn[t] \in alive
  PROVE  Unpending(t)' /\ saved'[t] = IF commit THEN done[t] ELSE {}
<1>1. saved[t] = {} /\ (conn[t] \notin alive \/ (conn[t] \in inTx /\ Items(t) = done[t]))
  BY DEF Kept, OpenAt
<1>2. \A c \in Conn \ {conn[t]} : \A k \in {1, 2} : <<t, k>> \notin pending[c]
  BY DEF Kept, PendingAt
<1>3. CASE conn[t] \in inTx /\ Ended(conn[t], commit)
  <2>1. conn[t] \in Conn
    BY <1>3 DEF Typed, TypeOK
  <2>2. /\ pending'[conn[t]] = {} /\ \A d \in Conn \ {conn[t]} : pending'[d] = pending[d]
        /\ saved'[t] = saved[t] \cup {k \in {1, 2} : commit /\ <<t, k>> \in pending[conn[t]]}
    BY <1>3, <2>1, EndedIs DEF Typed
  <2>3. Unpending(t)'
    BY <1>2, <2>2 DEF Unpending
  <2>4. CASE commit
    <3>1. saved'[t] = Items(t)
      BY <1>1, <2>2, <2>4 DEF Items
    <3> QED
      BY <1>1, <2>3, <2>4, <3>1
  <2>5. CASE ~commit
    BY <1>1, <2>2, <2>3, <2>5
  <2> QED
    BY <2>4, <2>5
<1>4. CASE conn[t] \notin inTx /\ UNCHANGED <<inTx, pending, saved, mixed>>
  <2>1. ~commit
    BY <1>1, <1>4
  <2>2. Unpending(t)
    BY <1>2, <1>4 DEF ClosedEmpty, Unpending
  <2> QED
    BY <1>1, <1>4, <2>1, <2>2 DEF Unpending
<1> QED
  BY <1>3, <1>4, EndIs DEF Typed

LEMMA CommitKept ==
  ASSUME Typed, ClosedEmpty, NEW t \in Thread, Kept(t), Commit(t) PROVE Kept(t)'
<1>1. /\ pc[t] = "body" /\ t \notin Legacy /\ done[t] = Statement(t) /\ outer' = outer
      /\ outer[t] => conn[t] \in alive
      /\ Left(t, "ok")
  BY ReturnLeft DEF Commit, Typed, Placed, PlaceAt
<1>2. CASE outer[t]
  <2>1. End(t, TRUE) /\ Owns(t)
    BY <1>1, <1>2 DEF Commit, Owns
  <2>2. Unpending(t)' /\ saved'[t] = Statement(t)
    BY <1>1, <1>2, <2>1, EndOwn
  <2> QED
    BY <1>1, <2>2, LeftKept
<1>3. CASE ~outer[t]
  <2>1. UNCHANGED <<pending, saved>> /\ ~Owns(t)
    BY <1>3 DEF Commit, Owns
  <2>2. Unpending(t)'
    BY <2>1, NotOwning DEF Unpending
  <2>3. t \notin Repository => saved'[t] = Statement(t)
    BY <1>1, <1>3, <2>1 DEF Kept, SavedAt, Thread
  <2> QED
    BY <1>1, <1>3, <2>2, <2>3, LeftKept
<1> QED
  BY <1>2, <1>3

LEMMA AbortKept ==
  ASSUME Typed, ClosedEmpty, NEW t \in Thread, Kept(t), Abort(t) PROVE Kept(t)'
<1>1. /\ pc[t] = "abort" /\ t \notin Legacy /\ outer' = outer /\ Left(t, "error")
  BY RaisedLeft DEF Abort, Typed, Placed, PlaceAt
<1>2. CASE outer[t]
  <2>1. End(t, FALSE) /\ Owns(t)
    BY <1>1, <1>2 DEF Abort, Owns
  <2>2. Unpending(t)' /\ saved'[t] = {}
    BY <2>1, EndOwn
  <2> QED
    BY <1>1, <2>2, LeftKept
<1>3. CASE ~outer[t]
  <2>1. UNCHANGED <<pending, saved>> /\ ~Owns(t)
    BY <1>3 DEF Abort, Owns
  <2>2. Unpending(t)'
    BY <2>1, NotOwning DEF Unpending
  <2>3. t \notin Repository => saved'[t] = {}
    BY <1>1, <1>3, <2>1 DEF Kept, SavedAt, Thread
  <2> QED
    BY <1>1, <1>3, <2>2, <2>3, LeftKept
<1> QED
  BY <1>2, <1>3

LEMMA OwnKept ==
  ASSUME Typed, NoStrandedTransaction, ClosedEmpty, NEW t \in Thread, Go(t),
         ~mixed'[t], ~mixed[t] => Kept(t)
  PROVE  Kept(t)'
<1>1. Kept(t)
  <2>1. mixed[t] => mixed'[t]
    <3>1. CASE Run(t) \/ LegacyWrite(t)
      <4>1. \E k \in {1, 2} : Execute(t, k)
        BY <3>1 DEF Run, LegacyWrite, Statement
      <4> QED
        BY <4>1, ExecuteType DEF Typed
    <3>2. CASE Commit(t) \/ Abort(t) \/ LegacyCommit(t)
      BY <3>2, EndType DEF Commit, Abort, LegacyCommit, Typed
    <3> QED
      BY <3>1, <3>2, Still
  <2> QED
    BY <2>1
<1> QED
  BY <1>1, WaitingKept, AcquireKept, BeginKept, RaiseKept, RunKept, LegacyWriteKept,
     LegacyCommitKept, CommitKept, AbortKept DEF Go, Step

LEMMA CallWhole ==
  ASSUME Typed, Whole, NEW t \in Thread, Call(t) PROVE Whole'
<1>1. /\ pc'[t] = "enter" /\ saved'[t] = {}
      /\ UNCHANGED <<inTx, alive, conn, done>>
      /\ \A u \in Thread \ {t} :
           /\ pc'[u] = pc[u] /\ outer'[u] = outer[u] /\ result'[u] = result[u]
           /\ saved'[u] = saved[u] /\ mixed'[u] = mixed[u]
  BY DEF Call, To, Typed, TypeOK, file
<1>2. \A c \in Conn : pending'[c] = {p \in pending[c] : p[1] # t}
  BY DEF Call
<1>3. Kept(t)'
  <2>1. PendingAt(t)'
    BY <1>2 DEF PendingAt
  <2>2. OpenAt(t)' /\ SavedAt(t)' /\ OverAt(t)'
    BY <1>1 DEF OpenAt, Owns, SavedAt, OverAt, Waiting
  <2> QED
    BY <2>1, <2>2 DEF Kept
<1>4. ASSUME NEW u \in Thread \ {t}, ~mixed'[u] PROVE Kept(u)'
  <2>1. Kept(u)
    BY <1>1, <1>4 DEF Whole
  <2>2. \A c \in Conn : \A k \in {1, 2} : <<u, k>> \in pending'[c] <=> <<u, k>> \in pending[c]
    BY <1>2
  <2>3. conn[u] \in inTx => conn[u] \in Conn
    BY DEF Typed, TypeOK
  <2>4. Owns(u) => \/ conn[u] \notin alive'
                   \/ \A k \in {1, 2} : <<u, k>> \in pending[conn[u]] => <<u, k>> \in pending'[conn[u]]
    BY <1>1, <2>1, <2>2, <2>3 DEF Kept, OpenAt
  <2> QED
    BY <1>1, <2>1, <2>2, <2>4, KeptBy
<1> QED
  BY <1>3, <1>4 DEF Whole

LEMMA CloseWhole ==
  ASSUME Typed, Whole, Close \/ StrayClose PROVE Whole'
<1>1. UNCHANGED <<pc, conn, outer, done, result, mixed>>
  BY DEF Close, StrayClose, local, effect, written
<1>2. SUFFICES ASSUME NEW u \in Thread, ~mixed'[u] PROVE Kept(u)'
  BY DEF Whole
<1>3. Kept(u)
  BY <1>1, <1>2 DEF Whole
<1>4. CASE Close
  <2>1. UNCHANGED <<inTx, pending, saved>> /\ alive' \subseteq alive
    BY <1>4, ForgetIs DEF Close, effect, written, Typed
  <2> QED
    BY <1>1, <1>3, <2>1, KeptBy
<1>5. CASE StrayClose
  <2>0. pool \in Conn /\ alive' = alive \ {pool} /\ Ended(pool, FALSE)
    BY <1>5 DEF StrayClose, Typed, TypeOK
  <2>1. /\ pool \notin alive' /\ alive' \subseteq alive /\ inTx' = inTx \ {pool}
        /\ pending'[pool] = {} /\ \A d \in Conn \ {pool} : pending'[d] = pending[d]
        /\ saved'[u] = saved[u]
    <3>1. /\ inTx' = inTx \ {pool}
          /\ pending'[pool] = {} /\ \A d \in Conn \ {pool} : pending'[d] = pending[d]
          /\ saved'[u] = saved[u] \cup {k \in {1, 2} : FALSE /\ <<u, k>> \in pending[pool]}
      BY <2>0, EndedIs DEF Typed
    <3>2. saved'[u] = saved[u]
      BY <3>1
    <3> QED
      BY <2>0, <3>1, <3>2
  <2>2. \A c \in Conn : \A k \in {1, 2} : <<u, k>> \in pending'[c] => <<u, k>> \in pending[c]
    BY <2>0, <2>1
  <2>3. conn[u] \in inTx => conn[u] \in Conn
    BY DEF Typed, TypeOK
  <2>4. Owns(u) =>
           \/ conn[u] \notin alive'
           \/ /\ conn[u] \in inTx => conn[u] \in inTx'
              /\ \A k \in {1, 2} : <<u, k>> \in pending[conn[u]] => <<u, k>> \in pending'[conn[u]]
              /\ conn[u] \in alive' => conn[u] \in alive
    BY <1>3, <2>0, <2>1, <2>3 DEF Kept, OpenAt
  <2> QED
    BY <1>1, <1>3, <2>1, <2>2, <2>4, KeptBy
<1> QED
  BY <1>4, <1>5

LEMMA WholeStep ==
  ASSUME Typed, NoStrandedTransaction, ClosedEmpty, Whole, [Next]_vars PROVE Whole'
<1>1. CASE UNCHANGED vars
  BY <1>1 DEF vars, Whole, Kept, PendingAt, OpenAt, SavedAt, OverAt, Owns, Items, Statement
<1>2. ASSUME NEW t \in Thread, Go(t) PROVE Whole'
  <2>1. ASSUME NEW u \in Thread, ~mixed'[u] PROVE Kept(u)'
    <3>1. CASE u = t
      BY <1>2, <2>1, <3>1, OwnKept DEF Whole
    <3>2. CASE u # t
      BY <1>2, <2>1, <3>2, OtherKept DEF Whole
    <3> QED
      BY <3>1, <3>2
  <2> QED
    BY <2>1 DEF Whole
<1> QED
  BY <1>1, <1>2, CallWhole, CloseWhole DEF Next

LEMMA InitWhole == Init => ClosedEmpty /\ Whole
<1> SUFFICES ASSUME Init PROVE ClosedEmpty /\ Whole
  OBVIOUS
<1>1. \A c \in Conn : pending[c] = {}
  BY DEF Init
<1>2. ASSUME NEW t \in Thread PROVE Kept(t)
  <2>1. pc[t] = "idle" /\ result[t] = "none" /\ saved[t] = {}
    BY DEF Init
  <2> QED
    BY <1>1, <2>1 DEF Kept, PendingAt, OpenAt, SavedAt, OverAt, Owns, Waiting
<1> QED
  BY <1>1, <1>2 DEF ClosedEmpty, Whole

(* Where a call stands tells what the file shows of it.                     *)
LEMMA WholeShown == Typed /\ Whole => AllOrNothing
<1> SUFFICES ASSUME Typed, NEW t \in Thread, Kept(t), outer[t] \/ t \notin Repository
             PROVE  /\ saved[t] \in {{}, Statement(t)}
                    /\ pc[t] = "idle" =>
                         /\ result[t] = "ok" => saved[t] = Statement(t)
                         /\ result[t] = "error" /\ t \notin Legacy => saved[t] = {}
  BY DEF Whole, AllOrNothing
<1>1. CASE pc[t] = "idle"
  BY <1>1 DEF Kept, OverAt
<1>2. CASE pc[t] \in Waiting
  BY <1>2 DEF Kept, SavedAt, Waiting
<1>3. CASE pc[t] = "commit"
  <2>1. t \in Legacy /\ saved[t] = {1}
    BY <1>3 DEF Kept, SavedAt, Typed, Placed, PlaceAt
  <2> QED
    BY <1>3, <2>1, KindAssumption DEF Statement
<1>4. CASE Owns(t)
  BY <1>4 DEF Kept, OpenAt, Owns
<1>5. CASE pc[t] \in {"body", "abort"} /\ ~outer[t]
  <2>1. t \in Writer
    BY <1>5 DEF Typed, Placed, PlaceAt, Thread
  <2> QED
    BY <1>5, <2>1, KindAssumption DEF Kept, SavedAt, Statement
<1> QED
  BY <1>1, <1>2, <1>3, <1>4, <1>5 DEF Typed, TypeOK, Label, Waiting, Owns

(* A call of execute() or of transaction() that began its transaction and   *)
(* shared it with nobody never shows half a block, and wrote all of it when *)
(* it returned and nothing when it raised, through any number of retries,   *)
(* recoveries, failed commits and closes of the connection.  A Legacy that  *)
(* returned wrote its statement; of one that raised in conn.commit()        *)
(* nothing is said.                                                         *)
THEOREM CallsAtomic == Spec => []AllOrNothing
<1> DEFINE Inv == Typed /\ NoStrandedTransaction /\ ClosedEmpty /\ Whole
<1>1. Init => Inv
  BY InitTyped, InitStranded, InitWhole
<1>2. Inv /\ [Next]_vars => Inv'
  BY TypedStep, StrandedStep, ClosedEmptyStep, WholeStep
<1>3. Inv => AllOrNothing
  BY WholeShown
<1> QED
  BY <1>1, <1>2, <1>3, PTL DEF Spec
=============================================================================
