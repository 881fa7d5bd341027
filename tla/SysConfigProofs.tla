--------------------------- MODULE SysConfigProofs ---------------------------
(***************************************************************************)
(* Proofs about SysConfig for every set of stores, threads and values,      *)
(* every TTL and every bound.                                               *)
(***************************************************************************)
EXTENDS SysConfig, TLAPS

-----------------------------------------------------------------------------
(* Types, in parts.                                                         *)

Places == {"idle", "select", "fill", "use", "invalidate"} \cup Writes
Marks  == {"saved", "saving", "unsaved"}

CopyType ==
  /\ copy \in [Store -> Rows \cup {NoCopy}] /\ age \in [Store -> 0..TTL]
  /\ inner \in [Store -> Marks]
CallType ==
  /\ pc \in [Thread -> Places] /\ got \in [Thread -> Rows]
  /\ since \in [Thread -> 0..TTL] /\ sharing \subseteq Thread
HistoryType ==
  /\ past \in [0..TTL - 1 -> SUBSET Setting] /\ late \subseteq Thread
  /\ tainted \in [Store -> BOOLEAN] /\ owed \in BOOLEAN /\ stops \in 0..MaxStops
TableType == of \in [Thread -> Store] /\ of[Loop] = Home /\ row \in Rows

LEMMA TypeParts ==
  /\ TypeOK <=> TableType /\ CopyType /\ CallType /\ HistoryType
  /\ TypeOK' <=> TableType' /\ CopyType' /\ CallType' /\ HistoryType'
  BY DEF TypeOK, TableType, CopyType, CallType, HistoryType, Places, Marks

LEMMA BlankType == Blank \in Rows
  BY ValueAssumption DEF Blank, Rows

LEMMA LoopType == Loop \in Thread /\ Home \in Store
  BY ThreadAssumption DEF Thread

LEMMA LowerType ==
  \A a \in 0..TTL :
    /\ Lower(a + 1, TTL) \in 0..TTL
    /\ Lower(a + 1, TTL) < TTL => Lower(a + 1, TTL) = a + 1 /\ a < TTL
  BY BoundAssumption DEF Lower

(* Where a thread goes, and what it forgets there. *)
LEMMA ToType ==
  ASSUME TypeOK, NEW t \in Thread, NEW place \in Places, To(t, place)
  PROVE  /\ pc' \in [Thread -> Places] /\ pc'[t] = place
         /\ \A u \in Thread : u # t => pc'[u] = pc[u]
  BY DEF To, TypeOK, Places

LEMMA DropsType ==
  ASSUME TypeOK, NEW t \in Thread, Drops(t)
  PROVE  /\ got' \in [Thread -> Rows] /\ since' \in [Thread -> 0..TTL] /\ sharing' \subseteq Thread
         /\ \A u \in Thread : u # t => got'[u] = got[u] /\ since'[u] = since[u]
  BY BlankType, BoundAssumption DEF Drops, TypeOK

LEMMA WrittenType ==
  ASSUME TypeOK, NEW t \in Thread, pc[t] \in Writes, NEW rows \in Written(t)
  PROVE  rows \in Rows
<1>1. row \in Rows /\ got[t] \in Rows
  BY DEF TypeOK
<1>2. CASE pc[t] = "whole"
  BY <1>1, <1>2 DEF Written
<1>3. CASE pc[t] = "key"
  BY <1>1, <1>3 DEF Written
<1>4. CASE pc[t] \in {"set", "direct"}
  <2>1. PICK v \in Setting : rows = [row EXCEPT !.setting = v]
    BY <1>4 DEF Written
  <2> QED
    BY <1>1, <2>1 DEF Rows
<1>5. CASE pc[t] = "raise"
  <2>1. rows = [row EXCEPT !.flag = TRUE]
    BY <1>5 DEF Written
  <2> QED
    BY <1>1, <2>1 DEF Rows
<1>6. CASE pc[t] = "consume"
  <2>1. rows = [row EXCEPT !.flag = FALSE]
    BY <1>6 DEF Written
  <2> QED
    BY <1>1, <2>1 DEF Rows
<1> QED
  BY <1>2, <1>3, <1>4, <1>5, <1>6 DEF Writes, Blind

LEMMA InPlaceType ==
  ASSUME TypeOK, NEW t \in Thread, NEW mark \in Marks, InPlace(t, mark)
  PROVE  /\ inner' \in [Store -> Marks]
         /\ \A s \in Store : inner'[s] \in {inner[s], mark}
         /\ \A s \in Store : s # of[t] => inner'[s] = inner[s]
  BY DEF InPlace, TypeOK, Marks

LEMMA InitType == Init => TypeOK
<1> SUFFICES ASSUME Init PROVE TypeOK
  OBVIOUS
<1>1. TableType
  BY BlankType, LoopType DEF Init, TableType
<1>2. CopyType
  BY BoundAssumption DEF Init, CopyType, Marks
<1>3. CallType
  BY BlankType, BoundAssumption DEF Init, CallType, Places
<1>4. HistoryType
  <2>1. row.setting \in Setting
    BY <1>1 DEF TableType, Rows
  <2>2. past \in [0..TTL - 1 -> SUBSET Setting]
    BY <2>1 DEF Init
  <2>3. tainted \in [Store -> BOOLEAN] /\ late \subseteq Thread /\ owed \in BOOLEAN
    BY DEF Init
  <2>4. stops \in 0..MaxStops
    BY BoundAssumption DEF Init
  <2> QED
    BY <2>2, <2>3, <2>4 DEF HistoryType
<1> QED
  BY <1>1, <1>2, <1>3, <1>4, TypeParts

LEMMA ReadType ==
  ASSUME TypeOK, NEW t \in Thread,
         Ask(t) \/ Select(t) \/ SelectFails(t) \/ Look(t)
  PROVE  TypeOK'
<1>1. CASE Ask(t)
  <2>1. of[t] \in Store /\ (Fresh(of[t]) => copy[of[t]] \in Rows)
    BY DEF TypeOK, Fresh
  <2>2. pc' \in [Thread -> Places]
    BY <1>1, ToType DEF Ask, Places
  <2>3. CallType'
    BY <1>1, <2>1, <2>2 DEF Ask, TypeOK, CallType
  <2> QED
    BY <1>1, <2>3, TypeParts DEF Ask, copies, history, TableType, CopyType, HistoryType
<1>2. CASE Select(t)
  <2>1. pc' \in [Thread -> Places]
    BY <1>2, ToType DEF Select, Places
  <2>2. CallType'
    BY <1>2, <2>1 DEF Select, TypeOK, CallType
  <2> QED
    BY <1>2, <2>2, TypeParts DEF Select, copies, history, TableType, CopyType, HistoryType
<1>3. CASE SelectFails(t) \/ Look(t)
  <2>1. pc' \in [Thread -> Places] /\ Drops(t)
    BY <1>3, ToType DEF SelectFails, Look, Done, Places, Writes
  <2>2. CallType'
    BY <2>1, DropsType DEF CallType
  <2> QED
    BY <1>3, <2>2, TypeParts DEF SelectFails, Look, copies, history, TableType, CopyType, HistoryType
<1> QED
  BY <1>1, <1>2, <1>3

LEMMA FillType == ASSUME TypeOK, NEW t \in Thread, Fill(t) PROVE TypeOK'
<1>1. of[t] \in Store /\ got[t] \in Rows /\ since[t] \in 0..TTL
  BY DEF TypeOK
<1>2. CopyType'
  BY <1>1 DEF Fill, FilledAt, TypeOK, CopyType, Marks
<1>3. pc' \in [Thread -> Places]
  BY ToType DEF Fill, FilledAt, Places
<1>4. CallType'
  BY <1>3 DEF Fill, FilledAt, call, TypeOK, CallType
<1>5. tainted' \in [Store -> BOOLEAN]
  BY DEF Fill, FilledAt, TypeOK
<1>6. HistoryType'
  BY <1>5 DEF Fill, FilledAt, TypeOK, HistoryType
<1> QED
  BY <1>2, <1>4, <1>6, TypeParts DEF Fill, FilledAt, TableType

LEMMA ChangeType ==
  ASSUME TypeOK, NEW t \in Thread,
         Adapt(t) \/ ChangeWhole(t) \/ ChangeKey(t)
  PROVE  TypeOK'
<1>1. inner' \in [Store -> Marks]
  BY InPlaceType DEF Adapt, ChangeWhole, ChangeKey, Marks
<1>2. CopyType'
  BY <1>1 DEF Adapt, ChangeWhole, ChangeKey, TypeOK, CopyType
<1>3. pc' \in [Thread -> Places]
  BY ToType DEF Adapt, ChangeWhole, ChangeKey, Done, Places, Writes
<1>4. CallType'
  <2>1. CASE ChangeWhole(t)
    BY <1>3, <2>1 DEF ChangeWhole, call, TypeOK, CallType
  <2>2. CASE Adapt(t) \/ ChangeKey(t)
    BY <1>3, <2>2, DropsType DEF Adapt, ChangeKey, Done, CallType
  <2> QED
    BY <2>1, <2>2
<1> QED
  BY <1>2, <1>4, TypeParts
     DEF Adapt, ChangeWhole, ChangeKey, history, TableType, HistoryType

LEMMA LoopTurnType == ASSUME TypeOK, Repair \/ Statistics PROVE TypeOK'
<1>1. pc' \in [Thread -> Places]
  BY ToType, LoopType DEF Repair, Statistics, Places, Writes
<1>2. CallType'
  BY <1>1, DropsType, LoopType DEF Repair, Statistics, CallType
<1>3. HistoryType'
  BY DEF Repair, Statistics, history, TypeOK, HistoryType
<1> QED
  BY <1>2, <1>3, TypeParts DEF Repair, Statistics, copies, TableType, CopyType

LEMMA BeginType ==
  ASSUME TypeOK, NEW t \in Thread, NEW what \in Blind, Begin(t, what) PROVE TypeOK'
<1>1. pc' \in [Thread -> Places]
  BY ToType DEF Begin, Places, Writes
<1>2. CallType'
  BY <1>1 DEF Begin, call, TypeOK, CallType
<1> QED
  BY <1>2, TypeParts DEF Begin, copies, history, TableType, CopyType, HistoryType

LEMMA WriteType == ASSUME TypeOK, NEW t \in Thread, Write(t) PROVE TypeOK'
<1>1. PICK rows \in Written(t) :
        /\ row' = rows
        /\ past' = [past EXCEPT ![0] = @ \cup {rows.setting}]
        /\ owed' = ((owed /\ ~Undoes(t, rows)) \/ (pc[t] = "raise" /\ ~Clearing))
  BY DEF Write
<1>2. rows \in Rows /\ rows.setting \in Setting
  BY WrittenType DEF Write, Rows
<1>3. TableType'
  BY <1>1, <1>2 DEF Write, TypeOK, TableType
<1>4. pc' \in [Thread -> Places]
  BY ToType DEF Write, Places
<1>5. CallType'
  BY <1>4, BlankType DEF Write, TypeOK, CallType
<1>6. past' \in [0..TTL - 1 -> SUBSET Setting]
  BY <1>1, <1>2 DEF TypeOK
<1>7. tainted' \in [Store -> BOOLEAN] /\ owed' \in BOOLEAN
  BY <1>1 DEF Write, TypeOK
<1>8. HistoryType'
  BY <1>6, <1>7 DEF Write, TypeOK, HistoryType
<1> QED
  BY <1>3, <1>5, <1>8, TypeParts DEF Write, copies, CopyType

LEMMA WriteFailsType == ASSUME TypeOK, NEW t \in Thread, WriteFails(t) PROVE TypeOK'
<1>1. CallType'
  <2>1. pc' \in [Thread -> Places]
    BY ToType DEF WriteFails, Done, Places
  <2> QED
    BY <2>1, DropsType DEF WriteFails, Done, CallType
<1>2. CopyType'
  BY DEF WriteFails, TypeOK, CopyType, Marks
<1> QED
  BY <1>1, <1>2, TypeParts DEF WriteFails, history, TableType, HistoryType

LEMMA InvalidateType == ASSUME TypeOK, NEW t \in Thread, Invalidate(t) PROVE TypeOK'
<1>1. CopyType'
  BY BoundAssumption DEF Invalidate, TypeOK, CopyType, Marks
<1>2. pc' \in [Thread -> Places]
  BY ToType DEF Invalidate, Places
<1>3. CallType'
  BY <1>2 DEF Invalidate, call, TypeOK, CallType
<1>4. tainted' \in [Store -> BOOLEAN]
  BY DEF Invalidate, TypeOK
<1>5. HistoryType'
  BY <1>4 DEF Invalidate, TypeOK, HistoryType
<1> QED
  BY <1>1, <1>3, <1>5, TypeParts DEF Invalidate, TableType

LEMMA TickType == ASSUME TypeOK, Tick PROVE TypeOK'
<1>1. age' \in [Store -> 0..TTL] /\ since' \in [Thread -> 0..TTL]
  BY LowerType, BoundAssumption DEF Tick, TypeOK
<1>2. past' \in [0..TTL - 1 -> SUBSET Setting]
  <2>1. row.setting \in Setting
    BY DEF TypeOK, Rows
  <2>2. \A i \in 0..TTL - 1 : i = 0 \/ i - 1 \in 0..TTL - 1
    BY BoundAssumption
  <2> QED
    BY <2>1, <2>2 DEF Tick, TypeOK
<1> QED
  BY <1>1, <1>2, TypeParts
     DEF Tick, TypeOK, TableType, CopyType, CallType, HistoryType, Places, Marks

LEMMA RestartType == ASSUME TypeOK, Restart PROVE TypeOK'
<1>1. CopyType'
  BY BoundAssumption, LoopType DEF Restart, TypeOK, CopyType, Marks
<1>2. CallType'
  BY BlankType, BoundAssumption DEF Restart, TypeOK, CallType, Places
<1>3. tainted' \in [Store -> BOOLEAN]
  BY DEF Restart, TypeOK
<1>4. stops' \in 0..MaxStops
  BY BoundAssumption DEF Restart, TypeOK
<1>5. HistoryType'
  BY <1>3, <1>4 DEF Restart, TypeOK, HistoryType
<1> QED
  BY <1>1, <1>2, <1>5, TypeParts DEF Restart, TableType

LEMMA TypeStep == ASSUME TypeOK, [Next]_vars PROVE TypeOK'
<1>1. ASSUME NEW t \in Thread, Ask(t) \/ Turn(t) PROVE TypeOK'
  BY <1>1, ReadType, FillType, ChangeType, WriteType, WriteFailsType, InvalidateType DEF Turn
<1>2. CASE UNCHANGED vars
  BY <1>2, TypeParts DEF vars, TableType, CopyType, CallType, HistoryType
<1> QED
  BY <1>1, <1>2, BeginType, LoopTurnType, TickType, RestartType DEF Next

(* The table, the copies, the calls and the histories have their types in  *)
(* every state (system_db.py: get_sys_config, update_sys_config).          *)
THEOREM TypeCorrect == Spec => []TypeOK
<1>1. TypeOK /\ [Next]_vars => TypeOK'
  BY TypeStep
<1> QED
  BY InitType, <1>1, PTL DEF Spec

-----------------------------------------------------------------------------
(* How old a fresh copy is.                                                 *)

(* The table held it between the last ticks, as many as its age.            *)
HeldSince(value, ticks) == \E i \in 0..ticks : value \in past[i]

Aging ==
  /\ row.setting \in past[0]
  /\ \A s \in Store : Fresh(s) => HeldSince(copy[s].setting, age[s])
  /\ \A t \in Thread : pc[t] = "fill" /\ since[t] < TTL => HeldSince(got[t].setting, since[t])

LEMMA AgingBounds == TypeOK /\ Aging => BoundedStaleness
<1> SUFFICES ASSUME TypeOK, Aging, NEW s \in Store, Fresh(s)
             PROVE  copy[s].setting \in UNION {past[i] : i \in 0..TTL - 1}
  BY DEF BoundedStaleness
<1>1. PICK i \in 0..age[s] : copy[s].setting \in past[i]
  BY DEF Aging, HeldSince
<1>2. age[s] \in Nat /\ age[s] < TTL
  BY BoundAssumption DEF TypeOK, Fresh
<1>3. i \in 0..TTL - 1
  BY <1>1, <1>2, BoundAssumption
<1> QED
  BY <1>1, <1>3

LEMMA InitAging == Init => Aging
<1> SUFFICES ASSUME Init PROVE Aging
  OBVIOUS
<1>1. 0 \in 0..TTL - 1
  BY BoundAssumption
<1> QED
  BY <1>1 DEF Init, Aging, Fresh

(* What most steps leave of it. *)
LEMMA AgingKept ==
  ASSUME TypeOK, Aging, row' = row, past' = past,
         \A s \in Store : copy'[s] # NoCopy => copy'[s] = copy[s] /\ age'[s] = age[s],
         \A t \in Thread : pc'[t] = "fill" => pc[t] = "fill" /\ got'[t] = got[t] /\ since'[t] = since[t]
  PROVE  Aging'
  BY DEF Aging, Fresh, HeldSince

LEMMA SelectAging == ASSUME TypeOK, Aging, NEW t \in Thread, Select(t) PROVE Aging'
<1>1. \A u \in Thread : u # t => pc'[u] = pc[u] /\ got'[u] = got[u]
  BY DEF Select, To, TypeOK
<1>2. got'[t] = row /\ since' = since /\ past' = past /\ row' = row /\ UNCHANGED <<copy, age>>
  BY DEF Select, TypeOK, history, copies
<1>3. since[t] \in Nat
  BY BoundAssumption DEF TypeOK
<1>4. 0 \in 0..since[t]
  BY <1>3
<1>5. HeldSince(got[t].setting, since[t])'
  BY <1>2, <1>4 DEF Aging, HeldSince
<1> QED
  BY <1>1, <1>2, <1>5 DEF Aging, Fresh, HeldSince

LEMMA FillAging == ASSUME TypeOK, Aging, NEW t \in Thread, Fill(t) PROVE Aging'
<1>1. \A u \in Thread : pc'[u] = "fill" => u # t /\ pc[u] = "fill"
  BY DEF Fill, FilledAt, To, TypeOK
<1>2. got' = got /\ since' = since /\ past' = past /\ row' = row
  BY DEF Fill, FilledAt, call
<1>3. /\ \A s \in Store : s # of[t] => copy'[s] = copy[s] /\ age'[s] = age[s]
      /\ copy'[of[t]] = got[t] /\ age'[of[t]] = since[t]
  BY DEF Fill, FilledAt, TypeOK
<1>4. since[t] < TTL => HeldSince(got[t].setting, since[t])
  BY DEF Aging, Fill, FilledAt
<1>5. ASSUME NEW s \in Store, Fresh(s)' PROVE HeldSince(copy[s].setting, age[s])'
  <2>1. CASE s = of[t]
    BY <1>2, <1>3, <1>4, <1>5, <2>1 DEF Fresh, HeldSince
  <2>2. CASE s # of[t]
    BY <1>2, <1>3, <1>5, <2>2 DEF Aging, Fresh, HeldSince
  <2> QED
    BY <2>1, <2>2
<1>6. ASSUME NEW u \in Thread, pc'[u] = "fill", since'[u] < TTL
      PROVE  HeldSince(got[u].setting, since[u])'
  BY <1>1, <1>2, <1>6 DEF Aging, HeldSince
<1>7. (row.setting \in past[0])'
  BY <1>2 DEF Aging
<1> QED
  BY <1>5, <1>6, <1>7 DEF Aging

LEMMA WriteAging == ASSUME TypeOK, Aging, NEW t \in Thread, Write(t) PROVE Aging'
<1>1. PICK rows \in Written(t) : row' = rows /\ past' = [past EXCEPT ![0] = @ \cup {rows.setting}]
  BY DEF Write
<1>2. 0 \in 0..TTL - 1
  BY BoundAssumption
<1>3. /\ row'.setting \in past'[0]
      /\ \A i \in 0..TTL - 1 : past[i] \subseteq past'[i]
  BY <1>1, <1>2 DEF TypeOK
<1>4. ASSUME NEW value, NEW n \in 0..TTL - 1, HeldSince(value, n) PROVE HeldSince(value, n)'
  <2>1. PICK i \in 0..n : value \in past[i]
    BY <1>4 DEF HeldSince
  <2>2. i \in 0..TTL - 1
    BY <2>1, BoundAssumption
  <2> QED
    BY <1>3, <2>1, <2>2 DEF HeldSince
<1>5. \A u \in Thread : pc'[u] = "fill" => pc[u] = "fill" /\ u # t
  BY DEF Write, To, TypeOK, Writes, Blind
<1>6. copy' = copy /\ age' = age /\ since' = since /\ \A u \in Thread : u # t => got'[u] = got[u]
  BY DEF Write, copies, TypeOK
<1>7. ASSUME NEW s \in Store, Fresh(s)' PROVE HeldSince(copy[s].setting, age[s])'
  <2>1. Fresh(s) /\ age[s] \in 0..TTL - 1
    BY <1>6, <1>7, BoundAssumption DEF Fresh, TypeOK
  <2>2. HeldSince(copy[s].setting, age[s])
    BY <2>1 DEF Aging
  <2>3. \E i \in 0..age[s] : copy[s].setting \in past'[i]
    BY <1>4, <2>1, <2>2 DEF HeldSince
  <2> QED
    BY <1>6, <2>3 DEF HeldSince
<1>8. ASSUME NEW u \in Thread, pc'[u] = "fill", since'[u] < TTL
      PROVE  HeldSince(got[u].setting, since[u])'
  <2>1. pc[u] = "fill" /\ u # t /\ since[u] \in 0..TTL - 1 /\ got'[u] = got[u] /\ since'[u] = since[u]
    BY <1>5, <1>6, <1>8, BoundAssumption DEF TypeOK
  <2>2. HeldSince(got[u].setting, since[u])
    BY <1>6, <1>8, <2>1 DEF Aging
  <2>3. \E i \in 0..since[u] : got[u].setting \in past'[i]
    BY <1>4, <2>1, <2>2 DEF HeldSince
  <2> QED
    BY <2>1, <2>3 DEF HeldSince
<1> QED
  BY <1>3, <1>7, <1>8 DEF Aging

LEMMA TickAging == ASSUME TypeOK, Aging, Tick PROVE Aging'
<1>1. 0 \in 0..TTL - 1
  BY BoundAssumption
<1>2. row'.setting \in past'[0]
  BY <1>1 DEF Tick
<1>3. ASSUME NEW value, NEW n \in 0..TTL, n + 1 < TTL, HeldSince(value, n)
      PROVE  HeldSince(value, n + 1)'
  <2>1. PICK i \in 0..n : value \in past[i]
    BY <1>3 DEF HeldSince
  <2>2. i + 1 \in 0..TTL - 1 /\ i + 1 # 0 /\ (i + 1) - 1 = i /\ i + 1 \in 0..n + 1
    BY <1>3, <2>1, BoundAssumption
  <2>3. past'[i + 1] = past[i]
    BY <2>2 DEF Tick
  <2> QED
    BY <2>1, <2>2, <2>3 DEF HeldSince
<1>4. ASSUME NEW s \in Store, Fresh(s)' PROVE HeldSince(copy[s].setting, age[s])'
  <2>1. copy'[s] = copy[s] /\ copy[s] # NoCopy /\ age'[s] = Lower(age[s] + 1, TTL) /\ age'[s] < TTL
    BY <1>4 DEF Fresh, Tick
  <2>2. age[s] \in 0..TTL /\ age'[s] = age[s] + 1 /\ age[s] < TTL
    BY <2>1, LowerType DEF TypeOK
  <2>3. HeldSince(copy[s].setting, age[s])
    BY <2>1, <2>2 DEF Aging, Fresh
  <2>4. \E i \in 0..age[s] + 1 : copy[s].setting \in past'[i]
    BY <1>3, <2>1, <2>2, <2>3 DEF HeldSince
  <2> QED
    BY <2>1, <2>2, <2>4 DEF HeldSince
<1>5. ASSUME NEW u \in Thread, pc'[u] = "fill", since'[u] < TTL
      PROVE  HeldSince(got[u].setting, since[u])'
  <2>1. pc[u] = "fill" /\ got'[u] = got[u] /\ since'[u] = Lower(since[u] + 1, TTL)
    BY <1>5 DEF Tick
  <2>2. since[u] \in 0..TTL /\ since'[u] = since[u] + 1 /\ since[u] < TTL
    BY <1>5, <2>1, LowerType DEF TypeOK
  <2>3. HeldSince(got[u].setting, since[u])
    BY <2>1, <2>2 DEF Aging
  <2>4. \E i \in 0..since[u] + 1 : got[u].setting \in past'[i]
    BY <1>3, <1>5, <2>2, <2>3 DEF HeldSince
  <2> QED
    BY <2>1, <2>2, <2>4 DEF HeldSince
<1> QED
  BY <1>2, <1>4, <1>5 DEF Aging

(* Every other step of a thread leaves the table, and a thread that fills,  *)
(* alone.                                                                   *)
LEMMA CallAging ==
  ASSUME TypeOK, Aging, NEW t \in Thread,
         \/ Ask(t) \/ SelectFails(t) \/ Look(t) \/ Adapt(t) \/ ChangeWhole(t) \/ ChangeKey(t)
         \/ WriteFails(t) \/ Invalidate(t)
         \/ \E what \in Blind : Begin(t, what)
  PROVE  Aging'
<1>1. row' = row /\ past' = past
  BY DEF Ask, SelectFails, Look, Adapt, ChangeWhole, ChangeKey, WriteFails, Invalidate, Begin, history
<1>2. \A s \in Store : copy'[s] # NoCopy => copy'[s] = copy[s] /\ age'[s] = age[s]
  <2>1. CASE Invalidate(t)
    BY <2>1 DEF Invalidate, TypeOK
  <2>2. CASE ~Invalidate(t)
    BY <2>2 DEF Ask, SelectFails, Look, Adapt, ChangeWhole, ChangeKey, WriteFails, Begin, copies
  <2> QED
    BY <2>1, <2>2
<1>3. \A u \in Thread : pc'[u] = "fill" => u # t /\ pc[u] = "fill"
  <2>1. PICK place \in Places \ {"fill"} : To(t, place)
    BY ThreadAssumption
       DEF Ask, SelectFails, Look, Adapt, ChangeWhole, ChangeKey, WriteFails, Invalidate, Begin,
           Done, Places, Writes, Blind
  <2> QED
    BY <2>1, ToType
<1>4. \A u \in Thread : u # t => got'[u] = got[u] /\ since'[u] = since[u]
  BY DropsType
     DEF Ask, SelectFails, Look, Adapt, ChangeWhole, ChangeKey, WriteFails, Invalidate, Begin,
         Done, call, TypeOK
<1> QED
  BY <1>1, <1>2, <1>3, <1>4, AgingKept

LEMMA LoopAging == ASSUME TypeOK, Aging, Repair \/ Statistics PROVE Aging'
<1>1. row' = row /\ past' = past /\ copy' = copy /\ age' = age
  BY DEF Repair, Statistics, copies, history
<1>2. \A u \in Thread : pc'[u] = "fill" => u # Loop /\ pc[u] = "fill"
  BY ToType, LoopType DEF Repair, Statistics, Places, Writes
<1>3. \A u \in Thread : u # Loop => got'[u] = got[u] /\ since'[u] = since[u]
  BY DropsType, LoopType DEF Repair, Statistics
<1> QED
  BY <1>1, <1>2, <1>3, AgingKept

LEMMA RestartAging == ASSUME TypeOK, Aging, Restart PROVE Aging'
<1>1. \A u \in Thread : pc'[u] = "fill" => pc[u] = "fill" /\ got'[u] = got[u] /\ since'[u] = since[u]
  BY DEF Restart
<1>2. \A s \in Store : copy'[s] # NoCopy => copy'[s] = copy[s] /\ age'[s] = age[s]
  BY DEF Restart, TypeOK
<1> QED
  BY <1>1, <1>2, AgingKept DEF Restart

LEMMA AgingStep == ASSUME TypeOK, Aging, [Next]_vars PROVE Aging'
<1>1. ASSUME NEW t \in Thread, Ask(t) \/ Turn(t) PROVE Aging'
  BY <1>1, CallAging, SelectAging, FillAging, WriteAging DEF Turn
<1>2. CASE UNCHANGED vars
  BY <1>2, AgingKept DEF vars
<1>3. ASSUME NEW t \in Thread, NEW what \in Blind, Begin(t, what) PROVE Aging'
  BY <1>3, CallAging
<1> QED
  BY <1>1, <1>2, <1>3, LoopAging, TickAging, RestartAging DEF Next

(* A copy that is still returned shows a setting that the table held at     *)
(* most TTL ago, for any number of stores and threads that read, write      *)
(* back whole dictionaries, write past the copy and stop                    *)
(* (get_sys_config, update_dynamic_params).                                 *)
THEOREM StalenessBounded == Spec => []BoundedStaleness
<1>1. TypeOK /\ Aging /\ [Next]_vars => (TypeOK /\ Aging)'
  BY TypeStep, AgingStep
<1> QED
  BY InitType, InitAging, AgingBounds, <1>1, PTL DEF Spec

-----------------------------------------------------------------------------
(* What a copy shows.                                                       *)

Invalidating(s) == \E t \in Thread : of[t] = s /\ pc[t] = "invalidate"
Saving(s)       == \E t \in Thread : of[t] = s /\ pc[t] \in {"whole", "key"}
CoherentAt(s) ==
  copy[s] # NoCopy =>
    \/ (tainted[s] \/ copy[s] = row) /\ (inner[s] = "saving" => Saving(s))
    \/ Invalidating(s)

(* A thread that is about to fill the copy has read the row as it is. *)
Current == \A t \in Thread : pc[t] = "fill" /\ t \notin late => got[t] = row

LEMMA CoherentParts ==
  /\ Coherent <=> \A s \in Store : CoherentAt(s)
  /\ Coherent' <=> \A s \in Store : CoherentAt(s)'
  BY DEF Coherent, CoherentAt, Invalidating, Saving

LEMMA InitCoherent == Init => Current /\ Coherent
  BY DEF Init, Current, Coherent

(* What most steps leave of it. *)
LEMMA CurrentKept ==
  ASSUME Current, row' = row,
         \A t \in Thread : pc'[t] = "fill" => pc[t] = "fill" /\ got'[t] = got[t],
         \A t \in Thread : pc'[t] = "fill" /\ t \in late => t \in late'
  PROVE  Current'
  BY DEF Current

LEMMA CoherentKept ==
  ASSUME Coherent, of' = of, row' = row, NEW s \in Store,
         copy'[s] = copy[s], tainted'[s] = tainted[s],
         inner'[s] = "saving" => Saving(s)' \/ inner[s] = "saving",
         \A t \in Thread : of[t] = s /\ pc[t] = "invalidate" => pc'[t] = "invalidate",
         \A t \in Thread : inner'[s] = "saving" /\ of[t] = s /\ pc[t] \in {"whole", "key"}
                             => pc'[t] \in {"whole", "key"}
  PROVE  CoherentAt(s)'
<1>1. CoherentAt(s)
  BY CoherentParts
<1>2. Invalidating(s) => Invalidating(s)'
  BY DEF Invalidating
<1>3. inner'[s] = "saving" /\ Saving(s) => Saving(s)'
  BY DEF Saving
<1>4. CASE Invalidating(s)
  BY <1>2, <1>4 DEF CoherentAt
<1>5. CASE ~Invalidating(s) /\ copy[s] # NoCopy
  <2>1. tainted'[s] \/ copy'[s] = row'
    BY <1>1, <1>5 DEF CoherentAt
  <2>2. inner'[s] = "saving" => Saving(s)'
    BY <1>1, <1>3, <1>5 DEF CoherentAt
  <2> QED
    BY <2>1, <2>2 DEF CoherentAt
<1>6. CASE copy[s] = NoCopy
  BY <1>6 DEF CoherentAt
<1> QED
  BY <1>4, <1>5, <1>6

(* Steps that neither write nor invalidate: the thread is not there before. *)
LEMMA CallCoherent ==
  ASSUME TypeOK, Current, Coherent, NEW t \in Thread,
         \/ Ask(t) \/ Select(t) \/ SelectFails(t) \/ Look(t)
         \/ (t = Loop /\ (Repair \/ Statistics))
         \/ \E what \in Blind : Begin(t, what)
  PROVE  Current' /\ Coherent'
<1>1. /\ of' = of /\ row' = row /\ copy' = copy /\ tainted' = tainted /\ inner' = inner /\ late' = late
      /\ pc[t] \in {"idle", "select", "use"}
  BY DEF Ask, Select, SelectFails, Look, Repair, Statistics, Begin, copies, history
<1>2. PICK place \in Places : To(t, place) /\ (place = "fill" => Select(t))
  BY ThreadAssumption
     DEF Ask, Select, SelectFails, Look, Repair, Statistics, Begin, Done, Places, Writes, Blind
<1>3. pc'[t] = place /\ \A u \in Thread : u # t => pc'[u] = pc[u]
  BY <1>2, ToType
<1>4. \A u \in Thread : u # t => got'[u] = got[u]
  BY DropsType DEF Ask, Select, SelectFails, Look, Repair, Statistics, Begin, Done, call, TypeOK
<1>5. Select(t) => got'[t] = row
  BY DEF Select, TypeOK
<1>6. Current'
  BY <1>1, <1>2, <1>3, <1>4, <1>5 DEF Current
<1>7. ASSUME NEW s \in Store PROVE CoherentAt(s)'
  BY <1>1, <1>3, CoherentKept
<1> QED
  BY <1>6, <1>7, CoherentParts

LEMMA ChangeCoherent ==
  ASSUME TypeOK, Current, Coherent, NEW t \in Thread,
         Adapt(t) \/ ChangeWhole(t) \/ ChangeKey(t) \/ WriteFails(t)
  PROVE  Current' /\ Coherent'
<1>1. of' = of /\ row' = row /\ copy' = copy /\ tainted' = tainted /\ late' = late /\ of[t] \in Store
  BY DEF Adapt, ChangeWhole, ChangeKey, WriteFails, history, TypeOK
<1>2. pc[t] # "invalidate" /\ pc[t] # "fill"
  BY DEF Adapt, ChangeWhole, ChangeKey, WriteFails, Writes, Blind
<1>3. PICK place \in Places : To(t, place) /\ place \in {"idle", "whole", "key"}
  BY DEF Adapt, ChangeWhole, ChangeKey, WriteFails, Done, Places, Writes
<1>4. pc'[t] = place /\ \A u \in Thread : u # t => pc'[u] = pc[u]
  BY <1>3, ToType
<1>5. \A u \in Thread : u # t => got'[u] = got[u]
  BY DropsType DEF Adapt, ChangeWhole, ChangeKey, WriteFails, Done, call, TypeOK
<1>6. Current'
  BY <1>1, <1>3, <1>4, <1>5, CurrentKept
<1>7. \A s \in Store : s # of[t] => inner'[s] = inner[s]
  <2>1. CASE WriteFails(t)
    BY <2>1 DEF WriteFails, TypeOK
  <2>2. CASE Adapt(t) \/ ChangeWhole(t) \/ ChangeKey(t)
    BY <2>2, InPlaceType DEF Adapt, ChangeWhole, ChangeKey, Marks
  <2> QED
    BY <2>1, <2>2
<1>8. ASSUME NEW s \in Store, s # of[t] PROVE CoherentAt(s)'
  BY <1>1, <1>4, <1>7, <1>8, CoherentKept
<1>9. CoherentAt(of[t])'
  <2>1. CASE WriteFails(t)
    <3>1. inner'[of[t]] = "saving" => inner[of[t]] = "saving" /\ pc[t] \notin {"whole", "key"}
      BY <1>1, <2>1 DEF WriteFails, TypeOK
    <3>2. \A s \in Store : s = of[t] => CoherentAt(s)'
      BY <1>1, <1>2, <1>4, <3>1, CoherentKept
    <3> QED
      BY <1>1, <3>2 DEF CoherentAt, Saving, Invalidating
  <2>2. CASE Adapt(t)
    <3>1. inner'[of[t]] \in {inner[of[t]], "unsaved"} /\ pc[t] = "use"
      BY <1>1, <2>2, InPlaceType DEF Adapt, Marks
    <3>2. \A s \in Store : s = of[t] => CoherentAt(s)'
      BY <1>1, <1>2, <1>4, <3>1, CoherentKept
    <3> QED
      BY <1>1, <3>2 DEF CoherentAt, Saving, Invalidating
  <2>3. CASE ChangeWhole(t) \/ ChangeKey(t)
    <3>1. pc'[t] \in {"whole", "key"} /\ pc[t] = "use"
      BY <2>3, ToType DEF ChangeWhole, ChangeKey, Places, Writes
    <3>2. \A s \in Store : s = of[t] => Saving(s)'
      BY <1>1, <3>1 DEF Saving
    <3>3. \A s \in Store : s = of[t] => CoherentAt(s)'
      BY <1>1, <1>2, <1>4, <3>1, <3>2, CoherentKept
    <3> QED
      BY <1>1, <3>3 DEF CoherentAt, Saving, Invalidating
  <2> QED
    BY <2>1, <2>2, <2>3
<1>10. \A s \in Store : CoherentAt(s)'
  BY <1>1, <1>8, <1>9 DEF CoherentAt, Saving, Invalidating
<1> QED
  BY <1>6, <1>10, CoherentParts

LEMMA FillCoherent ==
  ASSUME TypeOK, Current, Coherent, NEW t \in Thread, Fill(t) PROVE Current' /\ Coherent'
<1>1. /\ of' = of /\ row' = row /\ got' = got /\ late' = late \ {t} /\ of[t] \in Store
      /\ pc[t] = "fill"
  BY DEF Fill, FilledAt, call, TypeOK
<1>2. pc'[t] = "use" /\ \A u \in Thread : u # t => pc'[u] = pc[u]
  BY ToType DEF Fill, FilledAt, Places
<1>3. Current'
  BY <1>1, <1>2, CurrentKept
<1>4. \A s \in Store : s # of[t] => copy'[s] = copy[s] /\ tainted'[s] = tainted[s] /\ inner'[s] = inner[s]
  BY DEF Fill, FilledAt, TypeOK
<1>5. ASSUME NEW s \in Store, s # of[t] PROVE CoherentAt(s)'
  BY <1>1, <1>2, <1>4, <1>5, CoherentKept
<1>6. ASSUME NEW s \in Store, s = of[t] PROVE CoherentAt(s)'
  <2>1. copy'[s] = got[t] /\ inner'[s] = "saved"
    BY <1>1, <1>6 DEF Fill, FilledAt, TypeOK
  <2>2. tainted'[s] \/ copy'[s] = row'
    <3>1. tainted'[s] <=> t \in late
      BY <1>1, <1>6 DEF Fill, FilledAt, TypeOK
    <3> QED
      BY <1>1, <2>1, <3>1 DEF Current
  <2> QED
    BY <2>1, <2>2 DEF CoherentAt
<1> QED
  BY <1>3, <1>5, <1>6, CoherentParts

LEMMA WriteCoherent ==
  ASSUME TypeOK, Current, Coherent, NEW t \in Thread, Write(t) PROVE Current' /\ Coherent'
<1>1. /\ of' = of /\ copy' = copy /\ inner' = inner /\ of[t] \in Store
      /\ late' = late \cup {u \in Thread \ {t} : pc[u] = "fill"} /\ pc[t] \in Writes
  BY DEF Write, copies, TypeOK
<1>2. /\ pc'[t] = IF pc[t] = "direct" THEN "idle" ELSE "invalidate"
      /\ \A u \in Thread : u # t => pc'[u] = pc[u]
  BY ToType DEF Write, Places
<1>3. Current'
  <2>1. \A u \in Thread : pc'[u] = "fill" => u # t /\ pc[u] = "fill"
    BY <1>2
  <2> QED
    BY <1>1, <2>1 DEF Current
<1>4. \A s \in Store : s # of[t] /\ copy[s] # NoCopy => tainted'[s]
  BY DEF Write
<1>5. pc[t] = "direct" /\ copy[of[t]] # NoCopy => tainted'[of[t]]
  BY <1>1 DEF Write
<1>6. ASSUME NEW s \in Store, s # of[t] \/ pc[t] = "direct" PROVE CoherentAt(s)'
  <2>1. CoherentAt(s)
    BY CoherentParts
  <2>2. copy'[s] # NoCopy => tainted'[s]
    BY <1>1, <1>4, <1>5, <1>6
  <2>3. \A u \in Thread : of[u] = s /\ pc[u] \in {"whole", "key", "invalidate"} => pc'[u] = pc[u]
    BY <1>1, <1>2, <1>6 DEF Writes, Blind
  <2>4. Invalidating(s) => Invalidating(s)'
    BY <1>1, <2>3 DEF Invalidating
  <2>5. Saving(s) => Saving(s)'
    BY <1>1, <2>3 DEF Saving
  <2> QED
    BY <1>1, <2>1, <2>2, <2>4, <2>5 DEF CoherentAt
<1>7. ASSUME NEW s \in Store, s = of[t], pc[t] # "direct" PROVE CoherentAt(s)'
  <2>1. Invalidating(s)'
    BY <1>1, <1>2, <1>7 DEF Invalidating
  <2> QED
    BY <2>1 DEF CoherentAt
<1> QED
  BY <1>3, <1>6, <1>7, CoherentParts

LEMMA InvalidateCoherent ==
  ASSUME TypeOK, Current, Coherent, NEW t \in Thread, Invalidate(t) PROVE Current' /\ Coherent'
<1>1. of' = of /\ row' = row /\ got' = got /\ late' = late /\ of[t] \in Store /\ pc[t] = "invalidate"
  BY DEF Invalidate, call, TypeOK
<1>2. pc'[t] = "idle" /\ \A u \in Thread : u # t => pc'[u] = pc[u]
  BY ToType DEF Invalidate, Places
<1>3. Current'
  BY <1>1, <1>2, CurrentKept
<1>4. /\ \A s \in Store : s # of[t] => copy'[s] = copy[s] /\ tainted'[s] = tainted[s] /\ inner'[s] = inner[s]
      /\ copy'[of[t]] = NoCopy
  BY <1>1 DEF Invalidate, TypeOK
<1>5. ASSUME NEW s \in Store, s # of[t] PROVE CoherentAt(s)'
  BY <1>1, <1>2, <1>4, <1>5, CoherentKept
<1>6. ASSUME NEW s \in Store, s = of[t] PROVE CoherentAt(s)'
  BY <1>4, <1>6 DEF CoherentAt
<1> QED
  BY <1>3, <1>5, <1>6, CoherentParts

LEMMA RestartCoherent ==
  ASSUME TypeOK, Current, Coherent, Restart PROVE Current' /\ Coherent'
<1>1. of' = of /\ row' = row /\ late' = late \ Ours
  BY DEF Restart
<1>2. \A u \in Thread : /\ u \in Ours => pc'[u] = "idle"
                        /\ u \notin Ours => pc'[u] = pc[u] /\ got'[u] = got[u]
  BY DEF Restart
<1>3. Current'
  BY <1>1, <1>2, CurrentKept
<1>4. /\ \A s \in Store : s # Home => copy'[s] = copy[s] /\ tainted'[s] = tainted[s] /\ inner'[s] = inner[s]
      /\ copy'[Home] = NoCopy
  BY LoopType DEF Restart, TypeOK
<1>5. ASSUME NEW s \in Store, s # Home PROVE CoherentAt(s)'
  BY <1>1, <1>2, <1>4, <1>5, CoherentKept DEF Ours
<1>6. ASSUME NEW s \in Store, s = Home PROVE CoherentAt(s)'
  BY <1>4, <1>6 DEF CoherentAt
<1> QED
  BY <1>3, <1>5, <1>6, CoherentParts

LEMMA CoherentStep ==
  ASSUME TypeOK, Current, Coherent, [Next]_vars PROVE Current' /\ Coherent'
<1>1. ASSUME NEW t \in Thread, Ask(t) \/ Turn(t) PROVE Current' /\ Coherent'
  BY <1>1, CallCoherent, ChangeCoherent, FillCoherent, WriteCoherent, InvalidateCoherent DEF Turn
<1>2. ASSUME NEW t \in Thread, NEW what \in Blind, Begin(t, what) PROVE Current' /\ Coherent'
  BY <1>2, CallCoherent
<1>3. CASE Repair \/ Statistics
  BY <1>3, CallCoherent, LoopType
<1>4. CASE Tick \/ UNCHANGED vars
  <2>1. of' = of /\ row' = row /\ copy' = copy /\ inner' = inner /\ pc' = pc /\ got' = got
        /\ late' = late /\ tainted' = tainted
    BY <1>4 DEF Tick, vars
  <2>2. Current'
    BY <2>1, CurrentKept
  <2>3. \A s \in Store : CoherentAt(s)'
    BY <2>1, CoherentKept
  <2> QED
    BY <2>2, <2>3, CoherentParts
<1> QED
  BY <1>1, <1>2, <1>3, <1>4, RestartCoherent DEF Next

(* A copy shows the rows until the write that changed them has invalidated  *)
(* it, and values changed in place only while they are being saved, but for *)
(* an overtaken SELECT, another store's write, a write past the copy and a  *)
(* write that failed or did not follow: threads that change the shared      *)
(* dictionary or write it back whole leave nothing else behind              *)
(* (_invalidate_sys_config_cache, update_dynamic_params).                   *)
THEOREM CopyCoherent == Spec => []Coherent
<1>1. TypeOK /\ Current /\ Coherent /\ [Next]_vars => (TypeOK /\ Current /\ Coherent)'
  BY TypeStep, CoherentStep
<1> QED
  BY InitType, InitCoherent, <1>1, PTL DEF Spec

-----------------------------------------------------------------------------
(* What becomes of a raised flag.                                           *)

(* A flag that a repair still has to follow is raised in the table. *)
RaisedStands == owed => row.flag

OnlyLoopClears == \A t \in Thread : pc[t] = "consume" => t = Loop
NotCleared == owed => ~Clearing

LEMMA FlagWrite ==
  ASSUME TypeOK, RaisedStands, NotCleared, OnlyLoopClears, NEW t \in Thread, Write(t)
  PROVE  (RaisedStands /\ NotCleared /\ OnlyLoopClears)'
<1>1. PICK rows \in Written(t) :
        row' = rows /\ owed' = ((owed /\ ~Undoes(t, rows)) \/ (pc[t] = "raise" /\ ~Clearing))
  BY DEF Write
<1>2. pc'[t] # "consume" /\ \A u \in Thread : u # t => pc'[u] = pc[u]
  BY ToType DEF Write, Places
<1>3. OnlyLoopClears' /\ (Clearing' => Clearing)
  BY <1>2, LoopType DEF OnlyLoopClears, Clearing
<1>4. owed' => ~Clearing
  BY <1>1 DEF NotCleared
<1>5. ASSUME owed' PROVE row'.flag
  <2>1. row \in Rows /\ got[t] \in Rows /\ pc[t] \in Writes
    BY DEF TypeOK, Write
  <2>2. pc[t] # "consume"
    BY <1>4, <1>5 DEF OnlyLoopClears, Clearing
  <2>3. CASE pc[t] = "raise"
    <3>1. rows = [row EXCEPT !.flag = TRUE]
      BY <2>3 DEF Written
    <3> QED
      BY <1>1, <2>1, <3>1 DEF Rows
  <2>4. CASE pc[t] # "raise"
    <3>1. row.flag /\ ~Undoes(t, rows)
      BY <1>1, <1>5, <2>4 DEF RaisedStands
    <3>2. CASE pc[t] = "whole"
      BY <1>1, <3>1, <3>2 DEF Undoes
    <3>3. CASE pc[t] = "key"
      BY <1>1, <3>1, <3>3 DEF Written
    <3>4. CASE pc[t] \in {"set", "direct"}
      <4>1. PICK v \in Setting : rows = [row EXCEPT !.setting = v]
        BY <3>4 DEF Written
      <4> QED
        BY <1>1, <2>1, <3>1, <4>1 DEF Rows
    <3> QED
      BY <2>1, <2>2, <2>4, <3>2, <3>3, <3>4 DEF Writes, Blind
  <2> QED
    BY <2>3, <2>4
<1> QED
  BY <1>3, <1>4, <1>5 DEF RaisedStands, NotCleared

LEMMA FlagStep ==
  ASSUME TypeOK, RaisedStands, NotCleared, OnlyLoopClears, [Next]_vars
  PROVE  (RaisedStands /\ NotCleared /\ OnlyLoopClears)'
<1>1. ASSUME NEW t \in Thread, Ask(t) \/ Turn(t), ~Write(t)
      PROVE  /\ row' = row /\ owed' = owed
             /\ \A u \in Thread : pc'[u] = "consume" => pc[u] = "consume"
  <2>1. row' = row /\ owed' = owed
    BY <1>1 DEF Ask, Turn, Select, SelectFails, Fill, FilledAt, Look, Adapt, ChangeWhole, ChangeKey,
                WriteFails, Invalidate, history
  <2>2. PICK place \in Places \ {"consume"} : To(t, place)
    BY <1>1 DEF Ask, Turn, Select, SelectFails, Fill, FilledAt, Look, Adapt, ChangeWhole, ChangeKey,
                WriteFails, Invalidate, Done, Places, Writes, Blind
  <2> QED
    BY <2>1, <2>2, ToType
<1>2. CASE Repair
  <2>1. CASE got[Loop].flag
    <3>1. pc'[Loop] = "consume" /\ \A u \in Thread : u # Loop => pc'[u] = pc[u]
      BY <1>2, <2>1, ToType, LoopType DEF Repair, Places, Writes
    <3>2. owed' = FALSE /\ row' = row
      BY <1>2, <2>1 DEF Repair
    <3> QED
      BY <3>1, <3>2 DEF RaisedStands, NotCleared, OnlyLoopClears
  <2>2. CASE ~got[Loop].flag
    <3>1. pc'[Loop] = "idle" /\ \A u \in Thread : u # Loop => pc'[u] = pc[u]
      BY <1>2, <2>2, ToType, LoopType DEF Repair, Places
    <3>2. owed' = owed /\ row' = row
      BY <1>2, <2>2 DEF Repair
    <3> QED
      BY <3>1, <3>2, LoopType DEF RaisedStands, NotCleared, OnlyLoopClears, Clearing
  <2> QED
    BY <2>1, <2>2
<1>3. ASSUME row' = row /\ owed' = owed
             /\ \A u \in Thread : pc'[u] = "consume" => pc[u] = "consume"
      PROVE  (RaisedStands /\ NotCleared /\ OnlyLoopClears)'
  BY <1>3, LoopType DEF RaisedStands, NotCleared, OnlyLoopClears, Clearing
<1>4. ASSUME NEW t \in Thread, NEW what \in Blind, Begin(t, what)
      PROVE  /\ row' = row /\ owed' = owed
             /\ \A u \in Thread : pc'[u] = "consume" => pc[u] = "consume"
  <2>1. pc'[t] = what /\ \A u \in Thread : u # t => pc'[u] = pc[u]
    BY <1>4, ToType DEF Begin, Places, Writes
  <2> QED
    BY <1>4, <2>1 DEF Begin, history, Blind
<1>5. CASE Statistics
  <2>1. pc'[Loop] = "key" /\ \A u \in Thread : u # Loop => pc'[u] = pc[u]
    BY <1>5, ToType, LoopType DEF Statistics, Places, Writes
  <2> QED
    BY <1>3, <1>5, <2>1 DEF Statistics, history
<1>6. CASE Tick \/ Restart \/ UNCHANGED vars
  BY <1>3, <1>6 DEF Tick, Restart, vars
<1> QED
  BY <1>1, <1>2, <1>3, <1>4, <1>5, <1>6, FlagWrite DEF Next

(* A raised flag that no repair has followed stays raised in the table,     *)
(* whatever is read, written, lost and restarted: only the write after a    *)
(* repair and the writing back of a whole older dictionary take one away    *)
(* (consume_oem_repair_flags, update_dynamic_params).                       *)
THEOREM FlagStands == Spec => []RaisedStands
<1>1. Init => RaisedStands /\ NotCleared /\ OnlyLoopClears
  BY DEF Init, RaisedStands, NotCleared, OnlyLoopClears
<1>2. /\ TypeOK /\ RaisedStands /\ NotCleared /\ OnlyLoopClears /\ [Next]_vars
      => (TypeOK /\ RaisedStands /\ NotCleared /\ OnlyLoopClears)'
  BY TypeStep, FlagStep
<1> QED
  BY InitType, <1>1, <1>2, PTL DEF Spec
=============================================================================
