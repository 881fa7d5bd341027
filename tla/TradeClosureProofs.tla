------------------------- MODULE TradeClosureProofs -------------------------
(***************************************************************************)
(* Proofs about TradeClosure for every set of positions, every set of      *)
(* linked, recent and SHADOW positions and every bound.                    *)
(***************************************************************************)
EXTENDS TradeClosure, TLAPS

(* The fields of one worker's place in its batch. *)
LEMMA CurrentType ==
  ASSUME TypeOK, NEW w \in Worker, task[w].next <= task[w].upto
  PROVE  Current(w) \in Position
BY DEF TypeOK, TaskType, Current, InBatch

LEMMA RowType ==
  ASSUME TypeOK, NEW w \in Worker, task[w].next <= task[w].upto
  PROVE  CurrentRow(w) \in Row
BY CurrentType DEF TypeOK, TaskType, CurrentRow, Row

LEMMA InitType == Init => TypeOK
BY BoundsAssumption
DEF Init, TypeOK, InBatch, TaskType, MonitorType, Idle, Quiet, Worker, Table

(* Closing a position lengthens the history the batches point into. *)
LEMMA CloseType == ASSUME TypeOK, NEW p \in Position, Close(p) PROVE TypeOK'
<1>1. closed' \in Seq(Position) /\ Len(closed') = Len(closed) + 1
  BY DEF Close, TypeOK
<1> QED
  BY <1>1 DEF Close, TypeOK, InBatch, listenerVars, monitorVars, TaskType, MonitorType

TasksOK == task \in [Worker -> TaskType] /\ \A w \in Worker : InBatch(task[w])

LEMMA AttemptRange == 0 \in 0..MaxRetries /\ 1 \in 0..MaxRetries
BY BoundsAssumption

(* A worker that moves to a place within the history keeps the tasks typed. *)
LEMMA TaskUpdate ==
  ASSUME TasksOK, NEW w \in Worker, NEW r \in TaskType, InBatch(r),
         task' = [task EXCEPT ![w] = r], closed' = closed
  PROVE  TasksOK'
BY DEF TasksOK, InBatch

LEMMA PopTask ==
  ASSUME TasksOK, NEW w \in Worker, Pop(w), closed' = closed
  PROVE  TasksOK'
<1>1. task[w] \in TaskType
  BY DEF TasksOK
<1>2. Popped(w) \in TaskType
  <2>1. task[w].next + 1 \in Nat \ {0}
    BY <1>1 DEF TaskType
  <2> QED
    BY <1>1, <2>1, AttemptRange DEF TaskType, Table, Popped
<1>3. InBatch(Popped(w))
  BY <1>1 DEF TasksOK, InBatch, TaskType, Popped
<1> QED
  BY <1>2, <1>3, TaskUpdate DEF Pop

LEMMA FinishType ==
  ASSUME TypeOK, NEW w \in Worker, task[w].next <= task[w].upto, Finish(w),
         closed' = closed
  PROVE  cursor' \in Nat /\ TasksOK'
<1>1. Current(w) \in Nat
  BY CurrentType, PositionAssumption
<1>2. cursor' \in Nat
  BY <1>1 DEF Finish, TypeOK
<1>3. TasksOK
  BY DEF TypeOK, TasksOK
<1> QED
  BY <1>2, <1>3, PopTask DEF Finish

LEMMA WorkerTask ==
  ASSUME TypeOK, NEW w \in Worker, WorkerStep(w) PROVE TasksOK'
<1>1. TasksOK /\ task[w] \in TaskType /\ InBatch(task[w])
  BY DEF TypeOK, TasksOK
<1>2. CASE Fetch(w)
  <2>1. Above(w) \in Nat /\ Len(closed) \in Nat
    BY DEF Above, TypeOK
  <2>2. Fetched(w) \in TaskType
    BY <2>1, AttemptRange DEF TaskType, Table, Fetched
  <2>3. InBatch(Fetched(w))
    BY <2>1 DEF Fetched, InBatch
  <2> QED
    BY <1>1, <1>2, <2>2, <2>3, TaskUpdate DEF Fetch
<1>3. CASE Resolve(w)
  <2> PICK t \in TablesOf(Current(w)) :
        task' = [task EXCEPT ![w] =
                   [@ EXCEPT !.pc = "save", !.table = t, !.attempt = 1]]
    BY <1>3 DEF Resolve
  <2> DEFINE r == [task[w] EXCEPT !.pc = "save", !.table = t, !.attempt = 1]
  <2>1. t \in Table
    BY TablesAssumption DEF TablesOf, Table
  <2>2. r \in TaskType
    BY <1>1, <2>1, AttemptRange DEF TaskType
  <2>3. InBatch(r)
    BY <1>1, <1>3 DEF TaskType, InBatch, Resolve, HasNext
  <2>4. task' = [task EXCEPT ![w] = r] /\ closed' = closed
    BY <1>3 DEF Resolve
  <2> HIDE DEF r
  <2> QED
    BY <1>1, <2>2, <2>3, <2>4, TaskUpdate
<1>4. CASE EndBatch(w)
  <2>1. Idle \in TaskType /\ InBatch(Idle)
    BY AttemptRange DEF TypeOK, TaskType, Table, Idle, InBatch
  <2>2. task' = [task EXCEPT ![w] = Idle] /\ closed' = closed
    BY <1>4 DEF EndBatch
  <2> QED
    BY <1>1, <2>1, <2>2, TaskUpdate
<1>5. CASE SaveOk(w)
  <2> DEFINE r == [task[w] EXCEPT !.pc = "count"]
  <2>1. r \in TaskType
    BY <1>1 DEF TaskType
  <2>2. InBatch(r)
    BY <1>1, <1>5 DEF TaskType, InBatch, SaveOk
  <2>3. task' = [task EXCEPT ![w] = r] /\ closed' = closed
    BY <1>5 DEF SaveOk
  <2> HIDE DEF r
  <2> QED
    BY <1>1, <2>1, <2>2, <2>3, TaskUpdate
<1>6. CASE SaveLocked(w)
  <2> DEFINE r == [task[w] EXCEPT !.attempt = @ + 1]
  <2>1. task[w].attempt + 1 \in 0..MaxRetries
    BY <1>1, <1>6, BoundsAssumption DEF TaskType, SaveLocked
  <2>2. r \in TaskType
    BY <1>1, <2>1 DEF TaskType
  <2>3. InBatch(r)
    BY <1>1 DEF TaskType, InBatch
  <2>4. task' = [task EXCEPT ![w] = r] /\ closed' = closed
    BY <1>6 DEF SaveLocked
  <2> HIDE DEF r
  <2> QED
    BY <1>1, <2>2, <2>3, <2>4, TaskUpdate
<1>7. CASE Skip(w)
  BY <1>1, <1>7, PopTask DEF Skip
<1>8. CASE AlreadyProcessed(w) \/ SaveFail(w) \/ Count(w)
  BY <1>1, <1>8, PopTask DEF AlreadyProcessed, SaveFail, Count, Finish
<1> QED
  BY <1>2, <1>3, <1>4, <1>5, <1>6, <1>7, <1>8 DEF WorkerStep

LEMMA WorkerType ==
  ASSUME TypeOK, NEW w \in Worker, WorkerStep(w) PROVE TypeOK'
<1>1. TasksOK'
  BY WorkerTask
<1>2. UNCHANGED <<closed, lost, monitorVars, restarts>>
  BY DEF WorkerStep, Fetch, Skip, AlreadyProcessed, Resolve, EndBatch, SaveOk,
         SaveLocked, SaveFail, Count
<1>3. rows' \subseteq Row /\ lost \subseteq Row
  BY RowType DEF WorkerStep, Fetch, Skip, AlreadyProcessed, Resolve, EndBatch,
       SaveOk, SaveLocked, SaveFail, Count, TypeOK, InBatch
<1>4. counted' \in [Row -> Nat]
  <2>1. CASE Count(w)
    <3>1. CurrentRow(w) \in Row
      BY <2>1, RowType DEF Count, TypeOK, InBatch
    <3> QED
      BY <2>1, <3>1 DEF Count, TypeOK
  <2> QED
    BY <2>1 DEF WorkerStep, Fetch, Skip, AlreadyProcessed, Resolve, EndBatch,
       SaveOk, SaveLocked, SaveFail, TypeOK
<1>5. cursor' \in Nat
  <2>1. CASE AlreadyProcessed(w) \/ SaveFail(w) \/ Count(w)
    <3>1. task[w].next <= task[w].upto
      BY <2>1 DEF AlreadyProcessed, HasNext, SaveFail, Count, TypeOK, InBatch
    <3>2. Finish(w)
      BY <2>1 DEF AlreadyProcessed, SaveFail, Count
    <3> QED
      BY <1>2, <3>1, <3>2, FinishType
  <2> QED
    BY <2>1 DEF WorkerStep, Fetch, Skip, Resolve, EndBatch, SaveOk, SaveLocked, TypeOK
<1> QED
  BY <1>1, <1>2, <1>3, <1>4, <1>5 DEF TypeOK, TasksOK, monitorVars, InBatch

LEMMA MonitorStepType == ASSUME TypeOK, MonitorStep PROVE TypeOK'
<1> USE DEF TypeOK, MonitorType, Quiet, listenerVars
<1>1. UNCHANGED <<closed, listenerVars, restarts>>
  BY DEF MonitorStep, MonitorStart, MonitorSave, MonitorClose, MonitorError, MonitorEnd
<1>2. monitor \in MonitorType /\ monitor.next + 1 \in Nat \ {0} /\ Len(closed) \in Nat
  OBVIOUS
<1>3. monitor' \in MonitorType /\ monitor'.upto <= Len(closed)
  <2>1. CASE MonitorStart
    <3>1. {p \in Position : signal[p] = "EXECUTED"} \in SUBSET Position
      OBVIOUS
    <3>2. monitor' = [pc |-> "save", next |-> 1, upto |-> Len(closed), target |-> {},
                      executed |-> {p \in Position : signal[p] = "EXECUTED"}]
      BY <2>1 DEF MonitorStart
    <3> QED
      BY <1>2, <3>1, <3>2
  <2>2. CASE MonitorSave
    <3> PICK s \in Matches(closed[monitor.next]) :
          monitor' = [monitor EXCEPT !.pc = "status", !.target = {s}]
      BY <2>2 DEF MonitorSave
    <3>1. {s} \in SUBSET Position
      BY <2>2, SubsetAssumption DEF MonitorSave, Matches
    <3> QED
      BY <1>2, <3>1
  <2>3. CASE MonitorClose \/ MonitorError
    <3>1. NextPosition
      BY <2>3 DEF MonitorClose, MonitorError
    <3> QED
      BY <1>2, <3>1 DEF NextPosition
  <2>4. CASE MonitorEnd
    BY <2>4 DEF MonitorEnd
  <2> QED
    BY <2>1, <2>2, <2>3, <2>4 DEF MonitorStep
<1>4. signal' \in [Position -> {"EXECUTED", "CLOSED"}]
  BY DEF MonitorStep, MonitorStart, MonitorSave, MonitorClose, MonitorError, MonitorEnd
<1>5. monitorRows' \in [Position -> Nat]
  <2>1. CASE MonitorSave
    <3> PICK s \in Matches(closed[monitor.next]) :
          monitorRows' = [monitorRows EXCEPT ![s] = @ + 1]
      BY <2>1 DEF MonitorSave
    <3>1. s \in Position
      BY <2>1, SubsetAssumption DEF MonitorSave, Matches
    <3>2. monitorRows[s] + 1 \in Nat
      BY <3>1
    <3> QED
      BY <3>2
  <2> QED
    BY <2>1 DEF MonitorStep, MonitorStart, MonitorClose, MonitorError, MonitorEnd
<1>6. rounds' \in 0..MaxRounds
  <2>1. CASE MonitorStart
    BY <2>1, BoundsAssumption DEF MonitorStart
  <2> QED
    BY <2>1 DEF MonitorStep, MonitorSave, MonitorClose, MonitorError, MonitorEnd
<1> QED
  BY <1>1, <1>3, <1>4, <1>5, <1>6 DEF InBatch

LEMMA RestartType == ASSUME TypeOK, Restart PROVE TypeOK'
<1>1. Idle \in TaskType /\ Idle.upto = 0 /\ Idle.pc = "idle"
  BY AttemptRange DEF TaskType, Table, Idle
<1>2. TasksOK'
  BY <1>1 DEF Restart, TasksOK, InBatch, TypeOK
<1>3. lost' \subseteq Row
  <2>1. \A w \in Worker : task[w].pc = "count" => CurrentRow(w) \in Row
    BY RowType DEF TypeOK, InBatch
  <2> QED
    BY <2>1 DEF Restart, TypeOK
<1>4. restarts' \in 0..MaxRestarts
  BY BoundsAssumption DEF Restart, TypeOK
<1>5. Quiet \in MonitorType /\ Quiet.upto = 0
  BY DEF Quiet, MonitorType
<1> QED
  BY <1>2, <1>3, <1>4, <1>5 DEF Restart, TypeOK, TasksOK, InBatch

LEMMA PollErrorType == ASSUME TypeOK, PollError PROVE TypeOK'
<1>1. Idle \in TaskType /\ InBatch(Idle)
  BY AttemptRange DEF TaskType, Table, Idle, InBatch, TypeOK
<1>2. TasksOK'
  BY <1>1, TaskUpdate DEF PollError, TypeOK, TasksOK, Worker
<1> QED
  BY <1>2 DEF PollError, TypeOK, TasksOK, monitorVars, InBatch

LEMMA TypeStep == TypeOK /\ [Next]_vars => TypeOK'
<1>1. CASE UNCHANGED vars
  BY <1>1 DEF vars, listenerVars, monitorVars, TypeOK, InBatch
<1> QED
  BY <1>1, CloseType, WorkerType, MonitorStepType, RestartType, PollErrorType
  DEF Next

(* Type correctness of the closure path, for any history. *)
THEOREM TypeCorrect == Spec => []TypeOK
BY InitType, TypeStep, PTL DEF Spec

-----------------------------------------------------------------------------
(* A step of one worker leaves the row in flight of the other where it is. *)
LEMMA OthersKeepRow ==
  ASSUME NEW w \in Worker, NEW v \in Worker, v # w,
         task'[v] = task[v], closed' = closed
  PROVE  CurrentRow(v)' = CurrentRow(v)
BY DEF CurrentRow, Current

(* Workers never share a row: the ticket is of another kind. *)
LEMMA RowsApart ==
  ASSUME NEW w \in Worker, NEW v \in Worker, CurrentRow(v) = CurrentRow(w)
  PROVE  v = w
BY DEF CurrentRow

(* What a step does to the other worker. *)
LEMMA OneWorkerMoves ==
  ASSUME TypeOK, NEW w \in Worker, WorkerStep(w)
  PROVE  /\ closed' = closed /\ lost' = lost
         /\ \A v \in Worker \ {w} : task'[v] = task[v]
BY DEF WorkerStep, Fetch, Skip, AlreadyProcessed, Resolve, EndBatch, SaveOk,
       SaveLocked, SaveFail, Count, Finish, Pop, TypeOK

LEMMA WorkerAccounted ==
  ASSUME TypeOK, RowsAccounted, NEW w \in Worker, WorkerStep(w)
  PROVE  RowsAccounted'
<1>1. \A v \in Worker \ {w} :
        task'[v] = task[v] /\ CurrentRow(v)' = CurrentRow(v)
  BY OneWorkerMoves, OthersKeepRow
<1>2. CASE SaveOk(w)
  <2> DEFINE r0 == CurrentRow(w)
  <2>1. r0 \in Row /\ r0 \notin rows /\ rows' = rows \cup {r0}
    BY <1>2, RowType DEF SaveOk, TypeOK, InBatch
  <2>2. counted' = counted /\ lost' = lost
    BY <1>2 DEF SaveOk
  <2>3. task'[w].pc = "count" /\ CurrentRow(w)' = r0 /\ task[w].pc # "count"
    BY <1>2 DEF SaveOk, TypeOK, TaskType, CurrentRow, Current
  <2>4. \A r \in Row : InFlight(r)' <=> InFlight(r) \/ r = r0
    BY <1>1, <2>3 DEF InFlight
  <2> QED
    BY <2>1, <2>2, <2>4 DEF RowsAccounted
<1>3. CASE Count(w)
  <2> DEFINE r0 == CurrentRow(w)
  <2>1. r0 \in Row /\ InFlight(r0) /\ task[w].pc = "count"
    BY <1>3, RowType DEF Count, TypeOK, InBatch, InFlight
  <2>2. rows' = rows /\ lost' = lost /\ counted' = [counted EXCEPT ![r0] = @ + 1]
    BY <1>3 DEF Count
  <2>3. task'[w].pc = "next"
    BY <1>3 DEF Count, Finish, Pop, Popped, TypeOK, TaskType
  <2>4. \A r \in Row : InFlight(r)' <=> InFlight(r) /\ r # r0
    BY <1>1, <2>1, <2>3, RowsApart DEF InFlight
  <2>5. counted[r0] = 0 /\ r0 \in rows /\ r0 \notin lost
    BY <2>1 DEF RowsAccounted
  <2>6. counted'[r0] = 1 /\ \A r \in Row \ {r0} : counted'[r] = counted[r]
    BY <2>1, <2>2, <2>5 DEF TypeOK
  <2> HIDE DEF r0
  <2> QED
    BY <2>1, <2>2, <2>4, <2>5, <2>6 DEF RowsAccounted
<1>4. CASE \/ Fetch(w) \/ Skip(w) \/ AlreadyProcessed(w) \/ Resolve(w)
           \/ EndBatch(w) \/ SaveLocked(w) \/ SaveFail(w)
  <2>1. UNCHANGED <<rows, counted, lost>>
    BY <1>4 DEF Fetch, Skip, AlreadyProcessed, Resolve, EndBatch, SaveLocked, SaveFail
  <2>2. task[w].pc # "count" /\ task'[w].pc # "count"
    <3> USE DEF TypeOK, TaskType
    <3>1. CASE Fetch(w)
      BY <3>1 DEF Fetch, Fetched
    <3>2. CASE Skip(w)
      BY <3>2 DEF Skip, HasNext, Pop, Popped
    <3>3. CASE AlreadyProcessed(w)
      BY <3>3 DEF AlreadyProcessed, HasNext, Finish, Pop, Popped
    <3>4. CASE Resolve(w)
      BY <3>4 DEF Resolve, HasNext
    <3>5. CASE EndBatch(w)
      BY <3>5 DEF EndBatch, Idle
    <3>6. CASE SaveLocked(w)
      BY <3>6 DEF SaveLocked
    <3>7. CASE SaveFail(w)
      BY <3>7 DEF SaveFail, Finish, Pop, Popped
    <3> QED
      BY <1>4, <3>1, <3>2, <3>3, <3>4, <3>5, <3>6, <3>7
  <2>3. \A r \in Row : InFlight(r)' <=> InFlight(r)
    BY <1>1, <2>2 DEF InFlight
  <2> QED
    BY <2>1, <2>3 DEF RowsAccounted
<1> QED
  BY <1>2, <1>3, <1>4 DEF WorkerStep

(* A stopped process loses exactly the rows in flight. *)
LEMMA RestartAccounted ==
  ASSUME TypeOK, RowsAccounted, Restart PROVE RowsAccounted'
<1>1. \A r \in Row : ~InFlight(r)'
  BY DEF Restart, InFlight, Idle
<1>2. \A r \in Row : r \in lost' <=> r \in lost \/ InFlight(r)
  BY DEF Restart, InFlight
<1>3. rows' = rows /\ counted' = counted
  BY DEF Restart
<1> QED
  BY <1>1, <1>2, <1>3 DEF RowsAccounted

LEMMA CloseAccounted ==
  ASSUME TypeOK, RowsAccounted, NEW p \in Position, Close(p)
  PROVE  RowsAccounted'
<1>1. \A i \in 1..Len(closed) : closed'[i] = closed[i]
  BY DEF Close, TypeOK
<1>2. UNCHANGED <<rows, counted, lost, task>>
  BY DEF Close, listenerVars
<1>3. \A w \in Worker : task[w].pc = "count" => task[w].next \in 1..Len(closed)
  BY DEF TypeOK, TaskType, InBatch
<1>4. \A w \in Worker : task[w].pc = "count" => CurrentRow(w)' = CurrentRow(w)
  BY <1>1, <1>2, <1>3 DEF CurrentRow, Current
<1>5. \A r \in Row : InFlight(r)' <=> InFlight(r)
  BY <1>2, <1>4 DEF InFlight
<1> QED
  BY <1>2, <1>5 DEF RowsAccounted

(* Nothing else touches the rows of the listener or the workers in flight. *)
LEMMA RestAccounted ==
  ASSUME TypeOK, RowsAccounted, MonitorStep \/ UNCHANGED vars
  PROVE  RowsAccounted'
<1>1. closed' = closed /\ UNCHANGED listenerVars
  BY DEF vars, MonitorStep, MonitorStart, MonitorSave, MonitorClose,
         MonitorError, MonitorEnd
<1>2. \A r \in Row : InFlight(r)' <=> InFlight(r)
  BY <1>1 DEF listenerVars, InFlight, CurrentRow, Current
<1> QED
  BY <1>1, <1>2 DEF listenerVars, RowsAccounted

LEMMA PollErrorAccounted ==
  ASSUME TypeOK, RowsAccounted, PollError PROVE RowsAccounted'
<1>1. UNCHANGED <<closed, rows, counted, lost>>
  BY DEF PollError
<1>2. "poller" \in Worker /\ task'["poller"].pc = "idle" /\ task["poller"].pc = "next"
  BY DEF PollError, HasNext, Idle, TypeOK, Worker
<1>3. \A v \in Worker \ {"poller"} :
        task'[v] = task[v] /\ CurrentRow(v)' = CurrentRow(v)
  BY <1>1, <1>2, OthersKeepRow DEF PollError, TypeOK
<1>4. \A r \in Row : InFlight(r)' <=> InFlight(r)
  BY <1>2, <1>3 DEF InFlight
<1> QED
  BY <1>1, <1>4 DEF RowsAccounted

LEMMA AccountedStep == TypeOK /\ RowsAccounted /\ [Next]_vars => RowsAccounted'
BY WorkerAccounted, RestartAccounted, CloseAccounted, RestAccounted,
   PollErrorAccounted
DEF Next

LEMMA InitAccounted == Init => RowsAccounted
BY DEF Init, RowsAccounted, InFlight, Idle

(* Every row of the listener has its result counted exactly once, or about *)
(* to be, or lost with a stopped process.                                  *)
THEOREM AlwaysAccounted == Spec => []RowsAccounted
BY InitAccounted, AccountedStep, TypeCorrect, PTL DEF Spec

-----------------------------------------------------------------------------
(* The refinement of TradeJournal. *)
Abstract(r) == IF r \in lost THEN "lost" ELSE
               IF counted[r] = 1 THEN "counted" ELSE
               IF r \in rows THEN "saved" ELSE "none"

LEMMA StatusValue ==
  ASSUME RowsAccounted PROVE \A r \in Row : StatusOf(r) = Abstract(r)
<1>1. \A r \in Row : counted[r] = 0 \/ counted[r] = 1
  BY DEF RowsAccounted
<1>2. ASSUME NEW r \in Row PROVE StatusOf(r) = Abstract(r)
  <2>1. CASE counted[r] = 0
    BY <2>1 DEF StatusOf, Abstract
  <2>2. CASE counted[r] = 1
    BY <2>2 DEF StatusOf, Reported, Abstract
  <2> QED
    BY <1>1, <2>1, <2>2
<1> QED
  BY <1>2

LEMMA StatusValueNext ==
  ASSUME RowsAccounted' PROVE \A r \in Row : StatusOf(r)' = Abstract(r)'
<1>1. \A r \in Row : counted'[r] = 0 \/ counted'[r] = 1
  BY DEF RowsAccounted
<1>2. ASSUME NEW r \in Row PROVE StatusOf(r)' = Abstract(r)'
  <2>1. CASE counted'[r] = 0
    BY <2>1 DEF StatusOf, Abstract
  <2>2. CASE counted'[r] = 1
    BY <2>2 DEF StatusOf, Reported, Abstract
  <2> QED
    BY <1>1, <2>1, <2>2
<1> QED
  BY <1>2

LEMMA InitJournal == Init => Journal!Init
<1> SUFFICES ASSUME Init PROVE Journal!Init
  OBVIOUS
<1>1. \A r \in Row : Abstract(r) = "none"
  BY DEF Init, Abstract
<1>2. \A r \in Row : StatusOf(r) = Abstract(r)
  BY InitAccounted, StatusValue
<1> QED
  BY <1>1, <1>2 DEF Journal!Init, Status

(* SaveOk writes a row, Count reports it, Restart is the crash, every other *)
(* step leaves the journal as it is.                                        *)
LEMMA JournalStep ==
  ASSUME TypeOK, RowsAccounted, TypeOK', RowsAccounted', [Next]_vars
  PROVE  [Journal!Next]_Status
<1>1. /\ Status = [r \in Row |-> Abstract(r)]
      /\ Status' = [r \in Row |-> Abstract(r)']
  BY StatusValue, StatusValueNext DEF Status
<1>2. ASSUME NEW w \in Worker, SaveOk(w) PROVE Journal!Next
  <2> PICK r0 \in Row : r0 = CurrentRow(w)
    BY <1>2, RowType DEF SaveOk, TypeOK, InBatch
  <2>1. r0 \notin rows /\ rows' = rows \cup {r0}
    BY <1>2 DEF SaveOk
  <2>2. counted' = counted /\ lost' = lost
    BY <1>2 DEF SaveOk
  <2>3. counted[r0] = 0 /\ r0 \notin lost
    BY <2>1 DEF RowsAccounted
  <2>4. Abstract(r0) = "none" /\ Abstract(r0)' = "saved"
    BY <2>1, <2>2, <2>3 DEF Abstract
  <2>5. \A r \in Row \ {r0} : Abstract(r)' = Abstract(r)
    BY <2>1, <2>2 DEF Abstract
  <2>6. Journal!Write(r0)
    BY <1>1, <2>1, <2>4, <2>5 DEF Journal!Write, Journal!Move
  <2> QED
    BY <2>1, <2>6 DEF Journal!Next
<1>3. ASSUME NEW w \in Worker, Count(w) PROVE Journal!Next
  <2> PICK r0 \in Row : r0 = CurrentRow(w)
    BY <1>3, RowType DEF Count, TypeOK, InBatch
  <2>1. InFlight(r0)
    BY <1>3 DEF Count, InFlight
  <2>2. rows' = rows /\ lost' = lost /\ counted' = [counted EXCEPT ![r0] = @ + 1]
    BY <1>3 DEF Count
  <2>3. counted[r0] = 0 /\ r0 \in rows /\ r0 \notin lost
    BY <2>1 DEF RowsAccounted
  <2>4. counted'[r0] = 1 /\ \A r \in Row \ {r0} : counted'[r] = counted[r]
    BY <2>1, <2>2, <2>3 DEF TypeOK
  <2>5. Abstract(r0) = "saved" /\ Abstract(r0)' = "counted"
    BY <2>2, <2>3, <2>4 DEF Abstract
  <2>6. \A r \in Row \ {r0} : Abstract(r)' = Abstract(r)
    BY <2>2, <2>4 DEF Abstract
  <2>7. Journal!Report(r0)
    BY <1>1, <2>1, <2>5, <2>6 DEF Journal!Report, Journal!Move
  <2> QED
    BY <2>1, <2>7 DEF Journal!Next
<1>4. CASE Restart
  <2>1. \A r \in Row : r \in lost' <=> r \in lost \/ InFlight(r)
    BY <1>4 DEF Restart, InFlight
  <2>2. rows' = rows /\ counted' = counted
    BY <1>4 DEF Restart
  <2>3. \A r \in Row : Abstract(r) = "saved" <=> InFlight(r) /\ r \notin lost
    BY DEF Abstract, RowsAccounted
  <2>4. \A r \in Row :
          Abstract(r)' = IF Abstract(r) = "saved" THEN "lost" ELSE Abstract(r)
    BY <2>1, <2>2, <2>3 DEF Abstract
  <2> QED
    BY <1>1, <2>4 DEF Journal!Next, Journal!Crash
<1>5. ASSUME UNCHANGED <<rows, counted, lost>> PROVE UNCHANGED Status
  BY <1>5, <1>1 DEF Abstract
<1>6. CASE \/ MonitorStep \/ PollError \/ UNCHANGED vars
           \/ \E p \in Position : Close(p)
  BY <1>5, <1>6 DEF MonitorStep, MonitorStart, MonitorSave, MonitorClose,
     MonitorError, MonitorEnd, PollError, vars, Close, listenerVars
<1>7. ASSUME NEW w \in Worker,
             \/ Fetch(w) \/ Skip(w) \/ AlreadyProcessed(w) \/ Resolve(w)
             \/ EndBatch(w) \/ SaveLocked(w) \/ SaveFail(w)
      PROVE  UNCHANGED Status
  BY <1>5, <1>7 DEF Fetch, Skip, AlreadyProcessed, Resolve, EndBatch,
     SaveLocked, SaveFail
<1> QED
  BY <1>2, <1>3, <1>4, <1>6, <1>7 DEF Next, WorkerStep

(* The listener with its two workers, whatever they interleave and         *)
(* wherever the process stops, implements TradeJournal.                    *)
THEOREM ClosureImplementsJournal == Spec => ImplementsJournal
<1>1. TypeOK /\ RowsAccounted /\ (TypeOK /\ RowsAccounted)' /\ [Next]_vars
        => [Journal!Next]_Status
  BY JournalStep
<1> QED
  BY InitJournal, TypeCorrect, AlwaysAccounted, <1>1, PTL
  DEF Spec, ImplementsJournal, Journal!Spec
-----------------------------------------------------------------------------
(* The ClosingMonitor writes the row first and keeps the signal as its      *)
(* target until the status is set or the call fails: the invariant is       *)
(* inductive once the target of a round is part of it.                      *)
LEMMA InitClosedHasRow == Init => ClosedHasRow
  BY DEF Init, ClosedHasRow, Quiet

LEMMA ClosedHasRowStep ==
  ASSUME TypeOK, ClosedHasRow, [Next]_vars PROVE ClosedHasRow'
<1>1. CASE MonitorStart
  BY <1>1 DEF MonitorStart, ClosedHasRow, Quiet
<1>2. CASE MonitorSave
  <2> PICK s \in Matches(closed[monitor.next]) :
        /\ monitorRows' = [monitorRows EXCEPT ![s] = @ + 1]
        /\ monitor' = [monitor EXCEPT !.pc = "status", !.target = {s}]
    BY <1>2 DEF MonitorSave
  <2>1. monitor'.target = {s} /\ signal' = signal
    BY <1>2 DEF TypeOK, MonitorType, MonitorSave
  <2>2. \A p \in Position : /\ monitorRows'[p] >= monitorRows[p]
                            /\ p = s => monitorRows'[p] > 0
    BY DEF TypeOK
  <2> QED
    BY <2>1, <2>2 DEF ClosedHasRow, TypeOK
<1>3. CASE MonitorClose
  <2>1. monitorRows' = monitorRows /\ monitor'.target = {}
    BY <1>3 DEF MonitorClose, NextPosition, TypeOK, MonitorType
  <2>2. \A p \in Position :
          signal'[p] = "CLOSED" => signal[p] = "CLOSED" \/ p \in monitor.target
    BY <1>3 DEF MonitorClose
  <2> QED
    BY <2>1, <2>2 DEF ClosedHasRow
<1>4. CASE MonitorError
  BY <1>4 DEF MonitorError, NextPosition, ClosedHasRow, TypeOK, MonitorType
<1>5. CASE MonitorEnd
  BY <1>5 DEF MonitorEnd, Quiet, ClosedHasRow
<1>6. CASE Restart
  BY <1>6 DEF Restart, Quiet, ClosedHasRow
<1>7. ASSUME UNCHANGED <<signal, monitor, monitorRows>> PROVE ClosedHasRow'
  BY <1>7 DEF ClosedHasRow
<1>8. CASE PollError \/ UNCHANGED vars \/ \E p \in Position : Close(p)
  BY <1>7, <1>8 DEF PollError, Close, vars, monitorVars
<1>9. ASSUME NEW w \in Worker, WorkerStep(w) PROVE ClosedHasRow'
  BY <1>7, <1>9 DEF WorkerStep, Fetch, Skip, AlreadyProcessed, Resolve,
     EndBatch, SaveOk, SaveLocked, SaveFail, Count, monitorVars
<1> QED
  BY <1>1, <1>2, <1>3, <1>4, <1>5, <1>6, <1>8, <1>9 DEF Next, MonitorStep

(* No signal is CLOSED without a row of usr_trades, whichever of the two   *)
(* calls of _update_trade_result raises and wherever the process stops.    *)
THEOREM ClosedAlwaysHasRow == Spec => []ClosedHasRow
  BY InitClosedHasRow, ClosedHasRowStep, TypeCorrect, PTL DEF Spec
=============================================================================
