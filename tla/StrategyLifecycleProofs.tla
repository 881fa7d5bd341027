----------------------- MODULE StrategyLifecycleProofs -----------------------
(***************************************************************************)
(* Proofs about StrategyLifecycle for every threshold, grade, number of    *)
(* pairs and capacity of the pool, and for any number of restarts,         *)
(* timeouts and failed writes.                                             *)
(***************************************************************************)
EXTENDS StrategyLifecycle, FiniteSetTheorems, TLAPS

-----------------------------------------------------------------------------
(* Types. *)

Instance == [status : Status, old : BOOLEAN, log : Results]

FlagsOK ==
  /\ mode \in {"BACKTEST", "SHADOW"}
  /\ tested \in BOOLEAN /\ ran \in BOOLEAN /\ scored \in BOOLEAN
CountsOK ==
  /\ relaxed \in 0 .. Floor /\ failures \in 0 .. MaxFailures
  /\ snap \in Params /\ left \in 0 .. Pairs /\ grade \in Nat
BatchOK == FlagsOK /\ CountsOK
RanksOK ==
  /\ ranking \in {"NONE", "BACKTEST", "SHADOW", "LIVE", "QUARANTINE"}
  /\ strong \in BOOLEAN /\ breached \in BOOLEAN /\ unreconciled \in BOOLEAN
PoolOK == pool \in Seq(Instance)
PlaceOK == pc \in Boot \cup Running \cup {"loop", "vetoed"}
FaultsOK == faults \in 0 .. MaxFaults

LEMMA TypeParts ==
  /\ TypeOK <=> BatchOK /\ RanksOK /\ PoolOK /\ PlaceOK /\ FaultsOK
  /\ TypeOK' <=> BatchOK' /\ RanksOK' /\ PoolOK' /\ PlaceOK' /\ FaultsOK'
BY DEF TypeOK, BatchOK, FlagsOK, CountsOK, RanksOK, PoolOK, PlaceOK, FaultsOK, Instance

(* Those that stay are no more than there were. *)
LEMMA DropIs ==
  ASSUME PoolOK, NEW dead, Drop(dead)
  PROVE  PoolOK' /\ Len(pool') <= Len(pool)
<1> DEFINE alive == DOMAIN pool \ dead
<1>1. Len(pool) \in Nat /\ DOMAIN pool = 1 .. Len(pool)
  BY DEF PoolOK
<1>2. IsFiniteSet(1 .. Len(pool)) /\ Cardinality(1 .. Len(pool)) = Len(pool)
  <2>1. 1 \in Int /\ Len(pool) \in Int
    BY <1>1
  <2>2. /\ IsFiniteSet(1 .. Len(pool))
        /\ Cardinality(1 .. Len(pool)) = IF 1 > Len(pool) THEN 0 ELSE Len(pool) - 1 + 1
    BY <2>1, FS_Interval
  <2> QED
    BY <1>1, <2>2
<1>3. IsFiniteSet(alive) /\ Cardinality(alive) <= Len(pool)
  BY <1>1, <1>2, FS_Subset
<1>4. Cardinality(alive) \in Nat
  BY <1>3, FS_CardinalityType
<1>5. PICK at \in [1 .. Cardinality(alive) -> alive] : pool' = [n \in DOMAIN at |-> pool[at[n]]]
  BY DEF Drop
<1>6. \A n \in DOMAIN at : pool[at[n]] \in Instance
  <2>1. \A n \in DOMAIN at : at[n] \in 1 .. Len(pool)
    BY <1>1, <1>5
  <2>2. \A i \in 1 .. Len(pool) : pool[i] \in Instance
    BY DEF PoolOK
  <2> QED
    BY <2>1, <2>2, Zenon
<1>7. DOMAIN at = 1 .. Cardinality(alive)
  BY <1>5
<1> HIDE DEF alive
<1>8. pool' \in Seq(Instance) /\ Len(pool') = Cardinality(alive)
  BY <1>4, <1>5, <1>6, <1>7
<1> QED
  BY <1>3, <1>8 DEF PoolOK

LEMMA BornIs == Born \in Instance
<1>1. <<>> \in Results
  BY PoolAssumption DEF Results
<1> QED
  BY <1>1 DEF Born, Instance, Status

(* New instances come after those that are there. *)
LEMMA GrownIs ==
  ASSUME PoolOK, NEW k \in Nat, pool' = pool \o [n \in 1 .. k |-> Born]
  PROVE  PoolOK' /\ Len(pool') = Len(pool) + k
<1>1. [n \in 1 .. k |-> Born] \in Seq(Instance) /\ Len([n \in 1 .. k |-> Born]) = k
  BY BornIs
<1> QED
  BY <1>1 DEF PoolOK

(* A change of one instance. *)
LEMMA ChangedIs ==
  ASSUME PoolOK, NEW n \in DOMAIN pool, NEW i \in Instance, pool' = [pool EXCEPT ![n] = i]
  PROVE  PoolOK' /\ Len(pool') = Len(pool)
BY DEF PoolOK

LEMMA AppendedIs ==
  ASSUME NEW log \in Results, NEW won \in BOOLEAN, Len(log) < MaxTrades
  PROVE  Append(log, won) \in Results
<1>1. log \in Seq(BOOLEAN) /\ Append(log, won) \in Seq(BOOLEAN) /\ Len(Append(log, won)) = Len(log) + 1
  BY DEF Results
<1> QED
  BY <1>1, PoolAssumption DEF Results

LEMMA RecordedIs ==
  ASSUME PoolOK, NEW n \in DOMAIN pool, NEW won \in BOOLEAN, Recorded(n, won)
  PROVE  PoolOK' /\ Len(pool') = Len(pool)
<1>1. pool[n] \in Instance
  BY DEF PoolOK
<1>2. Append(pool[n].log, won) \in Results
  BY <1>1, AppendedIs DEF Recorded, Instance
<1>3. [pool[n] EXCEPT !.log = Append(pool[n].log, won)] \in Instance
  BY <1>1, <1>2 DEF Instance
<1>4. pool' = [pool EXCEPT ![n] = [pool[n] EXCEPT !.log = Append(pool[n].log, won)]]
  BY DEF Recorded
<1> QED
  BY <1>3, <1>4, ChangedIs

-----------------------------------------------------------------------------
(* The pool: only Populate makes it longer, by at most Variations and only  *)
(* when there are fewer.                                                    *)

Full == PoolOK /\ PoolBounded
Shrinks == PoolOK' /\ Len(pool') <= Len(pool)

LEMMA ShrinksFull == ASSUME Full, Shrinks PROVE Full'
<1>1. Len(pool) \in Nat /\ Len(pool') \in Nat
  BY DEF Full, Shrinks, PoolOK
<1> QED
  BY <1>1, PoolAssumption DEF Full, Shrinks, PoolBounded

LEMMA KeptShrinks == ASSUME PoolOK, pool' = pool PROVE Shrinks
<1>1. Len(pool) \in Nat
  BY DEF PoolOK
<1> QED
  BY <1>1 DEF Shrinks, PoolOK

LEMMA PopulateFull == ASSUME Full, Populate PROVE Full'
<1>1. Len(pool) \in Nat
  BY DEF Full, PoolOK
<1>2. CASE mode = "SHADOW" /\ ~AtCapacity
  <2>1. PICK k \in 0 .. Variations : pool' = pool \o [n \in 1 .. k |-> Born]
    <3>1. \/ pool' = pool \o [n \in 1 .. Variations |-> Born]
          \/ \E k \in 0 .. Variations - 1 : pool' = pool \o [n \in 1 .. k |-> Born]
      BY <1>2 DEF Populate
    <3>2. Variations \in 0 .. Variations /\ 0 .. Variations - 1 \subseteq 0 .. Variations
      BY PoolAssumption
    <3> QED
      BY <3>1, <3>2, Zenon
  <2>2. k \in Nat /\ k <= Variations /\ Variations \in Nat
    BY <2>1, PoolAssumption
  <2>3. PoolOK' /\ Len(pool') = Len(pool) + k
    BY <2>1, <2>2, GrownIs DEF Full
  <2>4. Len(pool) < Variations
    BY <1>1, <1>2, <2>2 DEF AtCapacity
  <2>5. Len(pool') < 2 * Variations
    BY <1>1, <2>2, <2>3, <2>4
  <2> QED
    BY <2>3, <2>5 DEF Full, PoolBounded
<1>3. CASE ~(mode = "SHADOW" /\ ~AtCapacity)
  BY <1>3, KeptShrinks, ShrinksFull DEF Populate, Full
<1> QED
  BY <1>2, <1>3

LEMMA EvaluateShrinks ==
  ASSUME PoolOK, NEW n \in DOMAIN pool, Evaluate(n) PROVE Shrinks
<1> DEFINE health(p1, p3) == Health(p1, Pillar2(pool[n].log), p3, pool[n].log)
<1>1. PICK p1 \in Pillar1(pool[n].log), p3 \in Pillar3(pool[n].log) :
        IF health(p1, p3) = "DEAD" THEN Drop({n})
        ELSE pool' = [pool EXCEPT ![n].status = health(p1, p3)]
  BY DEF Evaluate
<1>2. health(p1, p3) \in Status \cup {"DEAD"}
  BY DEF Health, Status
<1>3. CASE health(p1, p3) = "DEAD"
  BY <1>1, <1>3, DropIs DEF Shrinks
<1>4. CASE health(p1, p3) # "DEAD"
  <2> HIDE DEF health
  <2>1. pool[n] \in Instance
    BY DEF PoolOK
  <2>2. [pool[n] EXCEPT !.status = health(p1, p3)] \in Instance
    BY <1>2, <1>4, <2>1 DEF Instance
  <2>3. pool' = [pool EXCEPT ![n] = [pool[n] EXCEPT !.status = health(p1, p3)]]
    BY <1>1, <1>4
  <2>4. PoolOK' /\ Len(pool') = Len(pool)
    BY <2>2, <2>3, ChangedIs
  <2>5. Len(pool) \in Nat
    BY DEF PoolOK
  <2> QED
    BY <2>4, <2>5 DEF Shrinks
<1> QED
  BY <1>3, <1>4

LEMMA AgeShrinks == ASSUME PoolOK, NEW n \in DOMAIN pool, Age(n) PROVE Shrinks
<1>1. pool[n] \in Instance /\ Len(pool) \in Nat
  BY DEF PoolOK
<1>2. [pool[n] EXCEPT !.old = TRUE] \in Instance
  BY <1>1 DEF Instance
<1>3. pool' = [pool EXCEPT ![n] = [pool[n] EXCEPT !.old = TRUE]]
  BY DEF Age
<1>4. PoolOK' /\ Len(pool') = Len(pool)
  BY <1>2, <1>3, ChangedIs
<1> QED
  BY <1>1, <1>4 DEF Shrinks

LEMMA RecordedShrinks ==
  ASSUME PoolOK, NEW won \in BOOLEAN, Simulate(won) \/ CloseTrade(won) PROVE Shrinks
<1>1. Len(pool) \in Nat /\ (pool # <<>> => 1 \in DOMAIN pool /\ Len(pool) \in DOMAIN pool)
  BY DEF PoolOK
<1>2. PICK n \in DOMAIN pool : Recorded(n, won)
  BY <1>1 DEF Simulate, CloseTrade
<1> QED
  BY <1>1, <1>2, RecordedIs DEF Shrinks

LEMMA VetoShrinks == ASSUME PoolOK, Veto PROVE Shrinks
<1>1. CASE pool' = pool
  BY <1>1, KeptShrinks
<1>2. CASE pool' = [n \in DOMAIN pool |-> [pool[n] EXCEPT !.status = "QUARANTINED"]]
  <2>1. Len(pool) \in Nat /\ DOMAIN pool = 1 .. Len(pool)
    BY DEF PoolOK
  <2>2. \A n \in 1 .. Len(pool) : [pool[n] EXCEPT !.status = "QUARANTINED"] \in Instance
    <3>1. \A n \in 1 .. Len(pool) : pool[n] \in Instance
      BY DEF PoolOK
    <3> QED
      BY <3>1 DEF Instance, Status
  <2>3. pool' \in Seq(Instance) /\ Len(pool') = Len(pool)
    BY <1>2, <2>1, <2>2
  <2> QED
    BY <2>1, <2>3 DEF Shrinks, PoolOK
<1> QED
  BY <1>1, <1>2 DEF Veto

LEMMA FullStep == ASSUME Full, [Next]_vars PROVE Full'
<1>0. PoolOK
  BY DEF Full
<1>1. CASE UNCHANGED pool
  BY <1>0, <1>1, KeptShrinks, ShrinksFull
<1>2. CASE \E dead : Drop(dead)
  BY <1>0, <1>2, DropIs, ShrinksFull DEF Shrinks
<1>3. CASE Start
  <2>1. Migrate => UNCHANGED pool
    BY DEF Migrate
  <2>2. Expire \/ Orphans => UNCHANGED pool \/ \E dead : Drop(dead)
    BY DEF Expire, Orphans
  <2> QED
    BY <1>1, <1>2, <1>3, <2>1, <2>2, PopulateFull DEF Start
<1>4. CASE Batch \/ Raises \/ Timeout \/ Restart \/ BatchRests \/ StrategyRests \/ ForceBacktest
  BY <1>1, <1>4 DEF Batch, StartBatch, AllSkipped, Judge, Persist, TestPair, Score, Raises, Timeout,
     Restart, BatchRests, StrategyRests, ForceBacktest
<1>5. CASE Pool
  BY <1>0, <1>5, AgeShrinks, EvaluateShrinks, RecordedShrinks, ShrinksFull DEF Pool
<1>6. CASE Row
  BY <1>0, <1>1, <1>6, VetoShrinks, ShrinksFull DEF Row, VetoRow, Promote, Rehabilitate, Recover,
     Ranked, Measure
<1>7. CASE UNCHANGED vars
  BY <1>1, <1>7 DEF vars
<1> QED
  BY <1>3, <1>4, <1>5, <1>6, <1>7 DEF Next

LEMMA InitFull == Init => Full
<1> SUFFICES ASSUME Init PROVE Full
  OBVIOUS
<1>1. PoolOK /\ Len(pool) <= 1
  <2>1. <<>> \in Seq(Instance) /\ Len(<<>>) = 0
    OBVIOUS
  <2>2. <<Born>> \in Seq(Instance) /\ Len(<<Born>>) = 1
    BY BornIs
  <2>3. pool = <<>> \/ pool = <<Born>>
    BY DEF Init
  <2>4. CASE pool = <<>>
    BY <2>1, <2>4 DEF PoolOK
  <2>5. CASE pool = <<Born>>
    <3>1. pool \in Seq(Instance) /\ Len(pool) = 1
      BY <2>2, <2>5
    <3> QED
      BY <3>1 DEF PoolOK
  <2> QED
    BY <2>3, <2>4, <2>5
<1>2. Len(pool) \in Nat
  BY <1>1 DEF PoolOK
<1> QED
  BY <1>1, <1>2, PoolAssumption DEF Full, PoolBounded

(* However often the program starts, whatever cleanup fails and however     *)
(* many instances are too good to expire, the pool stays below twice its    *)
(* capacity (initialize_shadow_pool_impl).                                  *)
THEOREM PoolAlwaysBounded == Spec => []PoolBounded
<1>1. Full => PoolBounded
  BY DEF Full
<1> QED
  BY <1>1, InitFull, FullStep, PTL DEF Spec

-----------------------------------------------------------------------------
(* The other variables. *)

LEMMA LowerIs ==
  ASSUME NEW a \in Nat, NEW b \in Nat PROVE Lower(a, b) \in 0 .. b
BY DEF Lower

LEMMA EffectiveIs == ASSUME BatchOK PROVE Effective \in 0 .. Floor
<1>1. snap.relaxed \in Nat /\ snap.failures \in Nat
  BY RunAssumption DEF BatchOK, CountsOK, Params
<1>2. snap.failures \div Block \in Nat
  BY <1>1, RunAssumption
<1>3. snap.relaxed + snap.failures \div Block \in Nat
  BY <1>1, <1>2
<1> QED
  BY <1>3, LowerIs, RunAssumption DEF Effective

LEMMA CountedIs == ASSUME BatchOK PROVE Counted \in 0 .. MaxFailures
<1>1. snap.failures + 1 \in Nat /\ MaxFailures \in Nat
  BY RunAssumption DEF BatchOK, CountsOK, Params
<1>2. CASE Passes
  BY <1>1, <1>2 DEF Counted
<1>3. CASE ~Passes
  BY <1>1, <1>3, LowerIs DEF Counted
<1> QED
  BY <1>2, <1>3

LEMMA FaultsStep == ASSUME FaultsOK, UNCHANGED faults \/ Fault PROVE FaultsOK'
BY PoolAssumption DEF FaultsOK, Fault

LEMMA BatchActions ==
  ASSUME TypeOK, Batch \/ Raises \/ Timeout \/ BatchRests \/ StrategyRests \/ ForceBacktest
  PROVE  /\ BatchOK' /\ PlaceOK' /\ UNCHANGED <<pool, ranks>> /\ (UNCHANGED faults \/ Fault)
         /\ mode = "SHADOW" => mode' = "SHADOW"
         /\ pc' = pc \/ pc' \in Running \cup {"loop"}
<1>0. BatchOK /\ PlaceOK /\ Pairs \in Nat /\ 0 \in 0 .. Floor /\ 0 \in 0 .. MaxFailures
  BY TypeParts, RunAssumption
<1>1. [relaxed |-> 0, failures |-> 0] \in Params /\ Load \in Params
  BY <1>0 DEF Params, Load, BatchOK, CountsOK
<1>2. CASE StartBatch
  <2>1. FlagsOK'
    BY <1>0, <1>2 DEF StartBatch, BatchOK, FlagsOK
  <2>2. CountsOK'
    BY <1>0, <1>1, <1>2 DEF StartBatch, BatchOK, CountsOK
  <2>3. /\ PlaceOK' /\ UNCHANGED <<pool, ranks>> /\ (UNCHANGED faults \/ Fault)
        /\ mode = "SHADOW" => mode' = "SHADOW"
        /\ pc' = pc \/ pc' \in Running \cup {"loop"}
    BY <1>0, <1>2 DEF StartBatch, PlaceOK, To, Running
  <2> QED
    BY <2>1, <2>2, <2>3 DEF BatchOK
<1>3. CASE AllSkipped
  <2>1. FlagsOK'
    BY <1>0, <1>3 DEF AllSkipped, EndBatch, Idle, BatchOK, FlagsOK
  <2>2. CountsOK'
    BY <1>0, <1>1, <1>3 DEF AllSkipped, EndBatch, Idle, BatchOK, CountsOK
  <2>3. /\ PlaceOK' /\ UNCHANGED <<pool, ranks>> /\ (UNCHANGED faults \/ Fault)
        /\ mode = "SHADOW" => mode' = "SHADOW"
        /\ pc' = pc \/ pc' \in Running \cup {"loop"}
    BY <1>0, <1>3 DEF AllSkipped, EndBatch, Idle, PlaceOK, To, Running
  <2> QED
    BY <2>1, <2>2, <2>3 DEF BatchOK
<1>4. CASE Judge
  <2>1. FlagsOK'
    BY <1>0, <1>4 DEF Judge, BatchOK, FlagsOK
  <2>2. CountsOK'
    BY <1>0, <1>1, <1>4 DEF Judge, BatchOK, CountsOK
  <2>3. /\ PlaceOK' /\ UNCHANGED <<pool, ranks>> /\ (UNCHANGED faults \/ Fault)
        /\ mode = "SHADOW" => mode' = "SHADOW"
        /\ pc' = pc \/ pc' \in Running \cup {"loop"}
    BY <1>0, <1>4 DEF Judge, PlaceOK, To, Running
  <2> QED
    BY <2>1, <2>2, <2>3 DEF BatchOK
<1>5. CASE Persist
  <2>1. FlagsOK'
    BY <1>0, <1>5 DEF Persist, EndBatch, Idle, BatchOK, FlagsOK
  <2>2. CountsOK'
    BY <1>0, <1>1, <1>5, EffectiveIs, CountedIs DEF Persist, EndBatch, Idle, BatchOK, CountsOK
  <2>3. /\ PlaceOK' /\ UNCHANGED <<pool, ranks>> /\ (UNCHANGED faults \/ Fault)
        /\ mode = "SHADOW" => mode' = "SHADOW"
        /\ pc' = pc \/ pc' \in Running \cup {"loop"}
    BY <1>0, <1>5 DEF Persist, EndBatch, Idle, PlaceOK, To, Running
  <2> QED
    BY <2>1, <2>2, <2>3 DEF BatchOK
<1>6. ASSUME NEW c \in BOOLEAN, TestPair(c) PROVE BatchOK' /\ UNCHANGED <<mode, pool, ranks, pc, faults>>
  <2>1. left' \in 0 .. Pairs
    BY <1>0, <1>6 DEF TestPair, BatchOK, FlagsOK, CountsOK
  <2>2. scored' \in BOOLEAN
    BY <1>0, <1>6 DEF TestPair, BatchOK, FlagsOK, CountsOK
  <2> QED
    BY <1>0, <1>6, <2>1, <2>2 DEF TestPair, BatchOK, FlagsOK, CountsOK
<1>7. ASSUME NEW g \in Grade, Score(g)
      PROVE  /\ BatchOK' /\ pc' = "scored" /\ UNCHANGED <<mode, pool, ranks>>
             /\ UNCHANGED faults \/ Fault
  BY <1>0, <1>7, RunAssumption DEF Score, BatchOK, FlagsOK, CountsOK, To
<1>8. CASE Raises
  <2>1. FlagsOK'
    BY <1>0, <1>8 DEF Raises, EndBatch, Idle, BatchOK, FlagsOK
  <2>2. CountsOK'
    BY <1>0, <1>1, <1>8 DEF Raises, EndBatch, Idle, BatchOK, CountsOK
  <2>3. /\ PlaceOK' /\ UNCHANGED <<pool, ranks>> /\ (UNCHANGED faults \/ Fault)
        /\ mode = "SHADOW" => mode' = "SHADOW"
        /\ pc' = pc \/ pc' \in Running \cup {"loop"}
    BY <1>0, <1>8 DEF Raises, EndBatch, Idle, PlaceOK, To, Running
  <2> QED
    BY <2>1, <2>2, <2>3 DEF BatchOK
<1>9. CASE Timeout
  <2>1. FlagsOK'
    BY <1>0, <1>9 DEF Timeout, Idle, BatchOK, FlagsOK
  <2>2. CountsOK'
    BY <1>0, <1>1, <1>9 DEF Timeout, Idle, BatchOK, CountsOK
  <2>3. /\ PlaceOK' /\ UNCHANGED <<pool, ranks>> /\ (UNCHANGED faults \/ Fault)
        /\ mode = "SHADOW" => mode' = "SHADOW"
        /\ pc' = pc \/ pc' \in Running \cup {"loop"}
    BY <1>0, <1>9 DEF Timeout, Idle, PlaceOK, To, Running
  <2> QED
    BY <2>1, <2>2, <2>3 DEF BatchOK
<1>10. CASE BatchRests \/ StrategyRests
  BY <1>0, <1>10 DEF BatchRests, StrategyRests, BatchOK, FlagsOK, CountsOK, PlaceOK
<1>11. CASE ForceBacktest
  <2>1. FlagsOK'
    BY <1>0, <1>11 DEF ForceBacktest, BatchOK, FlagsOK
  <2>2. CountsOK'
    BY <1>0, <1>1, <1>11 DEF ForceBacktest, BatchOK, CountsOK
  <2>3. /\ PlaceOK' /\ UNCHANGED <<pool, ranks>> /\ (UNCHANGED faults \/ Fault)
        /\ mode = "SHADOW" => mode' = "SHADOW"
        /\ pc' = pc \/ pc' \in Running \cup {"loop"}
    BY <1>0, <1>11 DEF ForceBacktest, PlaceOK, To, Running
  <2> QED
    BY <2>1, <2>2, <2>3 DEF BatchOK
<1> QED
  BY <1>0, <1>2, <1>3, <1>4, <1>5, <1>6, <1>7, <1>8, <1>9, <1>10, <1>11 DEF Batch, PlaceOK, Running

LEMMA StartActions ==
  ASSUME TypeOK, Start \/ Restart
  PROVE  /\ BatchOK' /\ PlaceOK' /\ (UNCHANGED faults \/ Fault) /\ mode' = mode
         /\ \/ Migrate
            \/ pc' \in Boot \cup {"loop"} /\ pc # "migrate" /\ UNCHANGED ranks
            \/ pc' = "migrate" /\ UNCHANGED ranks
         /\ RanksOK'
<1>0. BatchOK /\ PlaceOK /\ RanksOK /\ 0 \in 0 .. Pairs
  BY TypeParts, RunAssumption
<1>1. [relaxed |-> 0, failures |-> 0] \in Params
  BY RunAssumption DEF Params
<1>2. CASE Migrate
  BY <1>0, <1>2 DEF Migrate, Reconciled, backtest, BatchOK, FlagsOK, CountsOK, PlaceOK, RanksOK, To, Boot
<1>3. CASE Expire \/ Populate \/ Orphans
  <2>1. /\ UNCHANGED backtest /\ UNCHANGED ranks /\ (UNCHANGED faults \/ Fault)
        /\ pc' \in Boot \cup {"loop"} /\ pc # "migrate"
    BY <1>3 DEF Expire, Populate, Orphans, To, Boot
  <2>2. BatchOK' /\ mode' = mode
    BY <1>0, <2>1 DEF backtest, BatchOK, FlagsOK, CountsOK
  <2>3. RanksOK' /\ PlaceOK'
    BY <1>0, <2>1 DEF ranks, RanksOK, PlaceOK
  <2> QED
    BY <2>1, <2>2, <2>3
<1>4. CASE Restart
  BY <1>0, <1>1, <1>4 DEF Restart, ranks, BatchOK, FlagsOK, CountsOK, PlaceOK, RanksOK, To, Boot
<1> QED
  BY <1>2, <1>3, <1>4 DEF Start

LEMMA RowActions ==
  ASSUME TypeOK, Pool \/ Row
  PROVE  /\ UNCHANGED backtest /\ PlaceOK' /\ RanksOK' /\ (UNCHANGED faults \/ Fault)
<1>0. PlaceOK /\ RanksOK
  BY TypeParts
<1>1. CASE Pool
  BY <1>0, <1>1 DEF Pool, Age, Evaluate, Simulate, CloseTrade, OutOfLoop, ranks, PlaceOK, RanksOK
<1>2. CASE Row
  BY <1>0, <1>2 DEF Row, Veto, VetoRow, Promote, Rehabilitate, Recover, Ranked, Measure, ranks, To,
     PlaceOK, RanksOK
<1> QED
  BY <1>1, <1>2

LEMMA TypeStep == ASSUME TypeOK, PoolBounded, [Next]_vars PROVE TypeOK'
<1>0. BatchOK /\ RanksOK /\ PoolOK /\ PlaceOK /\ FaultsOK
  BY TypeParts
<1>1. PoolOK'
  BY <1>0, FullStep DEF Full
<1>2. CASE Batch \/ Raises \/ Timeout \/ BatchRests \/ StrategyRests \/ ForceBacktest
  BY <1>0, <1>1, <1>2, BatchActions, FaultsStep, TypeParts DEF ranks, RanksOK
<1>3. CASE Start \/ Restart
  BY <1>0, <1>1, <1>3, StartActions, FaultsStep, TypeParts
<1>4. CASE Pool \/ Row
  BY <1>0, <1>1, <1>4, RowActions, FaultsStep, TypeParts DEF backtest, BatchOK, FlagsOK, CountsOK
<1>5. CASE UNCHANGED vars
  BY <1>0, <1>1, <1>5, TypeParts DEF vars, backtest, ranks, BatchOK, FlagsOK, CountsOK, RanksOK, PlaceOK, FaultsOK
<1> QED
  BY <1>2, <1>3, <1>4, <1>5 DEF Next

LEMMA InitType == Init => TypeOK
<1> SUFFICES ASSUME Init PROVE TypeOK
  OBVIOUS
<1>1. [relaxed |-> 0, failures |-> 0] \in Params
  BY RunAssumption DEF Params
<1>2. FlagsOK
  BY DEF Init, FlagsOK
<1>4. CountsOK
  BY <1>1, RunAssumption DEF Init, CountsOK
<1>3. RanksOK
  BY DEF Init, RanksOK
<1>5. PlaceOK /\ FaultsOK
  BY PoolAssumption DEF Init, PlaceOK, FaultsOK, Boot
<1> QED
  BY <1>2, <1>3, <1>4, <1>5, InitFull, TypeParts DEF Full, BatchOK

(* Every column keeps to its type. *)
THEOREM TypeCorrect == Spec => []TypeOK
<1>1. Init => TypeOK /\ PoolBounded
  BY InitType, InitFull DEF Full
<1>2. TypeOK /\ PoolBounded /\ [Next]_vars => (TypeOK /\ PoolBounded)'
  BY TypeStep, FullStep, TypeParts DEF Full
<1> QED
  BY <1>1, <1>2, PTL DEF Spec

-----------------------------------------------------------------------------
(* The two records of the mode: once the row is reconciled, a row of the    *)
(* ranking that is past BACKTEST has its strategy in SHADOW, QUARANTINE     *)
(* included because Recover brings it back; and only a LIVE one is vetoed.  *)

Agree ==
  /\ ~unreconciled /\ pc # "migrate" /\ ranking \notin {"NONE", "BACKTEST"} => mode = "SHADOW"
  /\ pc = "vetoed" => ranking = "LIVE"

LEMMA AgreeStep == ASSUME TypeOK, Agree, [Next]_vars PROVE Agree'
<1>1. CASE Batch \/ Raises \/ Timeout \/ BatchRests \/ StrategyRests \/ ForceBacktest
  <2>1. /\ UNCHANGED ranks /\ (mode = "SHADOW" => mode' = "SHADOW")
        /\ pc' = pc \/ pc' \in Running \cup {"loop"}
    BY <1>1, BatchActions DEF ranks
  <2>2. pc = "migrate" => pc' = "migrate"
    BY <1>1 DEF Batch, StartBatch, AllSkipped, Judge, Persist, TestPair, Score, Raises, Timeout,
       BatchRests, StrategyRests, ForceBacktest, Loop
  <2> QED
    BY <2>1, <2>2 DEF Agree, Running, ranks
<1>2. CASE Start \/ Restart
  <2>1. CASE Migrate
    BY <2>1 DEF Migrate, Reconciled, backtest, To, Agree, TypeOK
  <2>2. CASE ~Migrate
    BY <1>2, <2>2, StartActions DEF ranks, Agree, Boot
  <2> QED
    BY <1>2, <2>1, <2>2, StartActions
<1>3. CASE Pool
  BY <1>3 DEF Pool, Age, Evaluate, Simulate, CloseTrade, OutOfLoop, backtest, ranks, Agree
<1>4. CASE Row
  BY <1>4 DEF Row, Veto, VetoRow, Promote, Rehabilitate, Recover, Ranked, Measure, Loop, backtest,
     ranks, To, Agree
<1>5. CASE UNCHANGED vars
  BY <1>5 DEF vars, backtest, ranks, Agree
<1> QED
  BY <1>1, <1>2, <1>3, <1>4, <1>5 DEF Next

(* Outside of the start, orders are authorised only for a strategy that a   *)
(* backtest has promoted, whichever of the two records was written last and *)
(* whichever write of a veto failed, unless the last start swallowed the    *)
(* error of the reconciliation (schema_migrations.py:517).                  *)
THEOREM TradedAlwaysPromoted == Spec => []TradedIsPromoted
<1> DEFINE Inv == TypeOK /\ PoolBounded /\ Agree
<1>1. Init => Inv
  BY InitType, InitFull DEF Full, Init, Agree
<1>2. Inv /\ [Next]_vars => Inv'
  BY TypeStep, FullStep, TypeParts, AgreeStep DEF Full
<1>3. Inv => TradedIsPromoted
  BY DEF Agree, TradedIsPromoted, Boot
<1> QED
  BY <1>1, <1>2, <1>3, PTL DEF Spec
=============================================================================
