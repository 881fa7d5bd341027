-------------------------- MODULE RiskManagerProofs --------------------------
(***************************************************************************)
(* Proofs about RiskManager for every set of threads, every limit of       *)
(* losses and every outcome of the database writes.                        *)
(***************************************************************************)
EXTENDS RiskManager, TLAPS

(* The inductive invariant: StoredAgrees needs to know what the one thread *)
(* with an unsaved change is about to write (PendingWrite).                *)
IInv == TypeOK /\ StreakLocks /\ PendingWrite /\ StoredAgrees

LEMMA InitIInv == Init => IInv
<1> SUFFICES ASSUME Init PROVE IInv
  OBVIOUS
<1> USE MaxLossesAssumption, MaxResultsAssumption DEF Init, Unsaved
<1>1. TypeOK
  <2>1. losses \in Nat /\ results \in 0..MaxResults /\ pc \in [Thread -> Pc]
    BY DEF Pc
  <2>2. /\ lockdown \in BOOLEAN /\ stored \in BOOLEAN
        /\ stale \in BOOLEAN /\ overlap \in BOOLEAN /\ undone \in BOOLEAN
    BY Zenon
  <2>3. seen \in [Writer -> BOOLEAN \cup {NoState}]
    BY DEF Init
  <2> QED
    BY <2>1, <2>2, <2>3 DEF TypeOK
<1>2. StreakLocks
  BY DEF StreakLocks
<1>3. PendingWrite
  BY DEF PendingWrite
<1>4. StoredAgrees
  BY DEF StoredAgrees
<1> QED
  BY <1>1, <1>2, <1>3, <1>4 DEF IInv

(* Every step of the methods of RiskManager keeps the types. *)
LEMMA TypeStep == TypeOK /\ [Next]_vars => TypeOK'
<1> SUFFICES ASSUME TypeOK, [Next]_vars PROVE TypeOK'
  OBVIOUS
<1> USE MainThreadAssumption, MaxResultsAssumption, OutcomeAssumption
        DEF TypeOK, Pc, Go, table
<1>1. ASSUME NEW t \in Thread, RecordWin(t) PROVE TypeOK'
  BY <1>1 DEF RecordWin
<1>2. ASSUME NEW t \in Thread, RecordLoss(t) PROVE TypeOK'
  BY <1>2 DEF RecordLoss
<1>3. ASSUME NEW t \in Thread, Deactivate(t) PROVE TypeOK'
  <2>1. CASE lockdown
    <3>1. lockdown' \in BOOLEAN /\ overlap' \in BOOLEAN
      BY <1>3, <2>1, Zenon DEF Deactivate
    <3>2. losses' \in Nat /\ results' \in 0..MaxResults /\ pc' \in [Thread -> Pc]
      BY <1>3, <2>1 DEF Deactivate
    <3> QED
      BY <1>3, <3>1, <3>2 DEF Deactivate
  <2>2. CASE ~lockdown
    BY <1>3, <2>2 DEF Deactivate
  <2> QED
    BY <2>1, <2>2
<1>4. ASSUME NEW t \in Thread, Activate(t) PROVE TypeOK'
  BY <1>4 DEF Activate
<1>5. ASSUME NEW t \in Thread, LockNow(t) PROVE TypeOK'
  BY <1>5 DEF LockNow
<1>6. ASSUME NEW t \in Thread, SaveLockdown(t) PROVE TypeOK'
  BY <1>6 DEF SaveLockdown, Persist
<1>7. CASE AutoCorrectLockdown
  BY <1>7 DEF AutoCorrectLockdown
<1>8. CASE Restart
  BY <1>8 DEF Restart, Persist
<1>9. CASE UNCHANGED vars
  BY <1>9 DEF vars
<1>10. ASSUME NEW w \in Writer, ReadState(w) \/ WriteBack(w) PROVE TypeOK'
  BY <1>10 DEF ReadState, WriteBack
<1> QED
  BY <1>1, <1>2, <1>3, <1>4, <1>5, <1>6, <1>7, <1>8, <1>9, <1>10
  DEF Next, Step, SetLockdown, ActivateExternal

(* StreakLocks needs the types only: a thread leaves activate or           *)
(* setLockdown only when the lockdown is in force, and a lockdown is       *)
(* lifted only together with the streak.                                   *)
LEMMA StreakStep == TypeOK /\ StreakLocks /\ [Next]_vars => StreakLocks'
<1> SUFFICES ASSUME TypeOK, StreakLocks, [Next]_vars PROVE StreakLocks'
  OBVIOUS
<1> USE MainThreadAssumption, MaxLossesAssumption
        DEF TypeOK, Pc, Go, table, StreakLocks
<1>1. ASSUME NEW t \in Thread, RecordWin(t) PROVE StreakLocks'
  BY <1>1 DEF RecordWin
<1>2. ASSUME NEW t \in Thread, RecordLoss(t) PROVE StreakLocks'
  BY <1>2 DEF RecordLoss
<1>3. ASSUME NEW t \in Thread, Deactivate(t) PROVE StreakLocks'
  <2>1. CASE lockdown
    BY <1>3, <2>1 DEF Deactivate
  <2>2. CASE ~lockdown
    BY <1>3, <2>2 DEF Deactivate
  <2> QED
    BY <2>1, <2>2
<1>4. ASSUME NEW t \in Thread, Activate(t) PROVE StreakLocks'
  BY <1>4 DEF Activate
<1>5. ASSUME NEW t \in Thread, LockNow(t) PROVE StreakLocks'
  BY <1>5 DEF LockNow
<1>6. ASSUME NEW t \in Thread, SaveLockdown(t) PROVE StreakLocks'
  BY <1>6 DEF SaveLockdown, Unsaved
<1>7. CASE AutoCorrectLockdown
  BY <1>7 DEF AutoCorrectLockdown
<1>8. CASE Restart
  BY <1>8 DEF Restart
<1>9. CASE UNCHANGED vars
  BY <1>9 DEF vars
<1>10. ASSUME NEW w \in Writer, ReadState(w) \/ WriteBack(w) PROVE StreakLocks'
  BY <1>10 DEF ReadState, WriteBack
<1> QED
  BY <1>1, <1>2, <1>3, <1>4, <1>5, <1>6, <1>7, <1>8, <1>9, <1>10
  DEF Next, Step, SetLockdown, ActivateExternal

LEMMA PendingStep == TypeOK /\ PendingWrite /\ [Next]_vars => PendingWrite'
<1> SUFFICES ASSUME TypeOK, PendingWrite, [Next]_vars PROVE PendingWrite'
  OBVIOUS
<1> USE MainThreadAssumption DEF TypeOK, Pc, Go, table, Unsaved, PendingWrite
<1>1. ASSUME NEW t \in Thread, RecordWin(t) PROVE PendingWrite'
  BY <1>1 DEF RecordWin
<1>2. ASSUME NEW t \in Thread, RecordLoss(t) PROVE PendingWrite'
  BY <1>2 DEF RecordLoss
<1>3. ASSUME NEW t \in Thread, Deactivate(t) PROVE PendingWrite'
  <2>1. CASE lockdown
    <3>1. ~lockdown' /\ pc' = [pc EXCEPT ![t] = "saveOff"]
      BY <1>3, <2>1 DEF Deactivate
    <3>2. ~overlap' => \A u \in Thread \ {t} : ~Unsaved(u)
      BY <1>3, <2>1, Zenon DEF Deactivate
    <3>3. ~overlap' => \A u \in Thread : Unsaved(u)' => u = t
      BY <3>1, <3>2
    <3>4. ~(pc'[t] = "saveOn")
      BY <3>1
    <3>5. lockdown' = (pc'[t] = "saveOn")
      <4>1. lockdown' = FALSE
        BY <1>3, <2>1 DEF Deactivate
      <4> QED
        BY <4>1, <3>4, Zenon
    <3> QED
      BY <3>3, <3>5
  <2>2. CASE ~lockdown
    BY <1>3, <2>2 DEF Deactivate
  <2> QED
    BY <2>1, <2>2
<1>4. ASSUME NEW t \in Thread, Activate(t) PROVE PendingWrite'
  BY <1>4 DEF Activate
<1>5. ASSUME NEW t \in Thread, LockNow(t) PROVE PendingWrite'
  BY <1>5 DEF LockNow
<1>6. ASSUME NEW t \in Thread, SaveLockdown(t) PROVE PendingWrite'
  BY <1>6 DEF SaveLockdown
<1>7. CASE AutoCorrectLockdown
  BY <1>7 DEF AutoCorrectLockdown
<1>8. CASE Restart
  BY <1>8 DEF Restart
<1>9. CASE UNCHANGED vars
  BY <1>9 DEF vars
<1>10. ASSUME NEW w \in Writer, ReadState(w) \/ WriteBack(w) PROVE PendingWrite'
  BY <1>10 DEF ReadState, WriteBack
<1> QED
  BY <1>1, <1>2, <1>3, <1>4, <1>5, <1>6, <1>7, <1>8, <1>9, <1>10
  DEF Next, Step, SetLockdown, ActivateExternal

(* The step that matters is SaveLockdown: PendingWrite says which value is *)
(* written and that no other thread is left to write.                      *)
LEMMA StoredStep ==
  TypeOK /\ PendingWrite /\ StoredAgrees /\ [Next]_vars => StoredAgrees'
<1> SUFFICES ASSUME TypeOK, PendingWrite, StoredAgrees, [Next]_vars
             PROVE  StoredAgrees'
  OBVIOUS
<1> USE MainThreadAssumption, OutcomeAssumption
        DEF TypeOK, Pc, Go, table, Unsaved, StoredAgrees
<1>1. ASSUME NEW t \in Thread, RecordWin(t) PROVE StoredAgrees'
  BY <1>1 DEF RecordWin
<1>2. ASSUME NEW t \in Thread, RecordLoss(t) PROVE StoredAgrees'
  BY <1>2 DEF RecordLoss
<1>3. ASSUME NEW t \in Thread, Deactivate(t) PROVE StoredAgrees'
  <2>1. CASE lockdown
    BY <1>3, <2>1 DEF Deactivate
  <2>2. CASE ~lockdown
    BY <1>3, <2>2 DEF Deactivate
  <2> QED
    BY <2>1, <2>2
<1>4. ASSUME NEW t \in Thread, Activate(t) PROVE StoredAgrees'
  BY <1>4 DEF Activate
<1>5. ASSUME NEW t \in Thread, LockNow(t) PROVE StoredAgrees'
  BY <1>5 DEF LockNow
<1>6. ASSUME NEW t \in Thread, SaveLockdown(t) PROVE StoredAgrees'
  BY <1>6 DEF SaveLockdown, Persist, PendingWrite
<1>7. CASE AutoCorrectLockdown
  BY <1>7 DEF AutoCorrectLockdown
<1>8. CASE Restart
  <2>1. CASE lockdown' = stored /\ stored' = stored
    BY <2>1
  <2>2. CASE lockdown' = FALSE /\ Persist(FALSE)
    BY <2>2, Zenon DEF Persist
  <2> QED
    BY <1>8, <2>1, <2>2 DEF Restart
<1>9. CASE UNCHANGED vars
  BY <1>9 DEF vars
<1>10. ASSUME NEW w \in Writer, ReadState(w) \/ WriteBack(w) PROVE StoredAgrees'
  BY <1>10 DEF ReadState, WriteBack
<1> QED
  BY <1>1, <1>2, <1>3, <1>4, <1>5, <1>6, <1>7, <1>8, <1>9, <1>10
  DEF Next, Step, SetLockdown, ActivateExternal

LEMMA IInvAlways == Spec => []IInv
<1>1. IInv /\ [Next]_vars => IInv'
  BY TypeStep, StreakStep, PendingStep, StoredStep DEF IInv
<1> QED
  BY InitIInv, <1>1, PTL DEF Spec

(* Type correctness of the shared RiskManager object. *)
THEOREM TypeCorrect == Spec => []TypeOK
<1>1. IInv => TypeOK
  BY DEF IInv
<1> QED
  BY IInvAlways, <1>1, PTL

(* A streak at the limit has locked trading or is about to, whatever the   *)
(* interleaving of record_trade_result and _deactivate_lockdown.           *)
THEOREM StreakAlwaysLocks == Spec => []StreakLocks
<1>1. IInv => StreakLocks
  BY DEF IInv
<1> QED
  BY IInvAlways, <1>1, PTL

(* sys_config holds the lockdown that is in force, for any number of       *)
(* threads and of callers that write the whole of it back, unless two      *)
(* changes overlapped, a write was swallowed or one of those callers put   *)
(* an older lockdown over the last one saved (risk_manager.py,             *)
(* update_dynamic_params).                                                 *)
THEOREM StoredAlwaysAgrees == Spec => []StoredAgrees
<1>1. IInv => StoredAgrees
  BY DEF IInv
<1> QED
  BY IInvAlways, <1>1, PTL

(* Only _deactivate_lockdown after a winning trade, or a restart, lifts a  *)
(* lockdown.                                                               *)
THEOREM LiftedOnlyByWinOrRestart == Spec => LiftedByWinOrRestart
<1> DEFINE Lift == lockdown /\ ~lockdown' =>
             Restart \/ \E t \in Thread : pc[t] = "deactivate" /\ losses' = 0
<1>1. ASSUME TypeOK, [Next]_vars PROVE [Lift]_vars
  <2>1. CASE UNCHANGED vars
    BY <2>1
  <2>2. ASSUME NEW t \in Thread, RecordWin(t) \/ RecordLoss(t) PROVE Lift
    BY <2>2 DEF RecordWin, RecordLoss
  <2>3. ASSUME NEW t \in Thread, Deactivate(t) PROVE Lift
    BY <2>3 DEF Deactivate
  <2>4. ASSUME NEW t \in Thread, Activate(t) \/ SaveLockdown(t) PROVE Lift
    BY <2>4 DEF Activate, SaveLockdown
  <2>5. ASSUME NEW t \in Thread, LockNow(t) PROVE Lift
    BY <2>5 DEF LockNow
  <2>6. CASE AutoCorrectLockdown
    BY <2>6 DEF AutoCorrectLockdown
  <2>7. CASE Restart
    BY <2>7
  <2>8. ASSUME NEW w \in Writer, ReadState(w) \/ WriteBack(w) PROVE Lift
    BY <2>8 DEF ReadState, WriteBack
  <2> QED
    BY <1>1, <2>1, <2>2, <2>3, <2>4, <2>5, <2>6, <2>7, <2>8, MainThreadAssumption
    DEF Next, Step, SetLockdown, ActivateExternal
<1>2. TypeOK /\ [Next]_vars => [Lift]_vars
  BY <1>1
<1> QED
  BY TypeCorrect, <1>2, PTL DEF Spec, LiftedByWinOrRestart
=============================================================================
