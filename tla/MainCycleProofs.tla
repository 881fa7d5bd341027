--------------------------- MODULE MainCycleProofs ---------------------------
(***************************************************************************)
(* What a main cycle goes through: it executes signals, of the results of  *)
(* a scan, and its monitors look after the positions that come of them.    *)
(* The three modules keep no state in common, and each of their            *)
(* specifications constrains its own variables only.                       *)
(*                                                                         *)
(* First the safety of SignalExecution for any set of signals: typing,     *)
(* then one invariant, Inv, about each signal and about the position that  *)
(* is open, from which the properties follow.  Then Scanner, of which a    *)
(* pair is in one scan only unless the cycle gave one up; then             *)
(* PositionManager, of the row of a position.                              *)
(***************************************************************************)
EXTENDS SignalExecution, Scanner, PositionManager, TLAPS

(* Nothing was sent for s, and nothing is being sent. *)
Untouched(s) == fills[s] = 0 /\ exec[s] = "none"

(* What the cycle still has ahead of it was never sent, a rejection that   *)
(* was confirmed has left its reach, and a fill is never forgotten.        *)
SignalInv(s) ==
  /\ row[s] = "none" => /\ review[s] = "NONE" /\ request[s] = "none"
                        /\ Untouched(s) /\ s \notin batch
  /\ s \in batch => Untouched(s) /\ review[s] # "PENDING"
  /\ s \in todo => Untouched(s) /\ s \notin batch /\ review[s] # "NONE"
  /\ review[s] = "PENDING" => Untouched(s)
  /\ request[s] # "none" => review[s] # "NONE"
  /\ exec[s] = "admitted" => fills[s] = 0
  /\ exec[s] = "filled" => fills[s] = 1 /\ row[s] \notin {"EXECUTED", "CLOSED"}
  /\ fills[s] <= 1
  /\ row[s] \in {"EXECUTED", "CLOSED"} => fills[s] > 0
  /\ s \in told => /\ review[s] = "REJECTED" /\ request[s] = "none"
                   /\ Untouched(s) /\ s \notin batch /\ s \notin todo

EverySignal == \A s \in Signal : SignalInv(s)

(* An order goes out only while no open position is known as executed. *)
SlotInv ==
  /\ OneTracked
  /\ \A s \in Signal : exec[s] # "none" =>
       \A t \in open : row[t] = "EXECUTED" => t = s

(* The lockdown in force has seen no order while one is still to go out. *)
LockInv ==
  /\ LockdownOverrun
  /\ ~locked => overrun = 0
  /\ \A s \in Signal : exec[s] = "admitted" => overrun = 0

Inv == TypeOK /\ EverySignal /\ SlotInv /\ LockInv

-----------------------------------------------------------------------------

(* Every step keeps the types; one order at a time is at the executor. *)
LEMMA TypeStep ==
  ASSUME TypeOK, [Next]_vars
  PROVE  TypeOK'
<1> USE DEF clockVars, brokerVars, cycleVars, traderVars
<1>1. CASE StartCycle
  BY <1>1, RestartsAssumption DEF StartCycle, TypeOK
<1>2. CASE MarksDone
  BY <1>2, RestartsAssumption DEF MarksDone, TypeOK
<1>3. CASE AutoDone
  BY <1>3, RestartsAssumption DEF AutoDone, Moves, TypeOK
<1>4. CASE ExpireDone
  BY <1>4, RestartsAssumption DEF ExpireDone, Moves, TypeOK
<1>5. CASE Filter
  BY <1>5, RestartsAssumption DEF Filter, Moves, TypeOK
<1>6. CASE EndCycle
  BY <1>6, RestartsAssumption DEF EndCycle, TypeOK
<1>7. CASE Lock
  BY <1>7, RestartsAssumption DEF Lock, TypeOK
<1>8. CASE Unlock
  BY <1>8, RestartsAssumption DEF Unlock, TypeOK
<1>9. CASE Restart
  BY <1>9, RestartsAssumption DEF Restart, TypeOK
<1>10. ASSUME NEW s \in Signal, Mark(s)
      PROVE  TypeOK'
  BY <1>10, RestartsAssumption DEF Mark, TypeOK
<1>11. ASSUME NEW s \in Signal, MarkFails(s)
      PROVE  TypeOK'
  BY <1>11, RestartsAssumption DEF MarkFails, TypeOK
<1>12. ASSUME NEW s \in Signal, Refuse(s)
      PROVE  TypeOK'
  BY <1>12, RestartsAssumption DEF Refuse, Takes, Quiet, RegisterFailed, Updated, TypeOK
<1>13. ASSUME NEW s \in Signal, Admit(s)
      PROVE  TypeOK'
  BY <1>13, RestartsAssumption DEF Admit, Takes, Quiet, SetExec, SlotFree, Ghosts, TypeOK
<1>14. ASSUME NEW s \in Signal, NotSent(s)
      PROVE  TypeOK'
  BY <1>14, RestartsAssumption DEF NotSent, RegisterFailed, Updated, SetExec, TypeOK
<1>15. ASSUME NEW s \in Signal, Fill(s)
      PROVE  TypeOK'
  BY <1>15, RestartsAssumption DEF Fill, SetExec, TypeOK
<1>16. ASSUME NEW s \in Signal, Answered(s)
      PROVE  TypeOK'
  BY <1>16, RestartsAssumption DEF Answered, Updated, SetExec, TypeOK
<1>17. ASSUME NEW s \in Signal, AnswerLost(s)
      PROVE  TypeOK'
  BY <1>17, RestartsAssumption DEF AnswerLost, RegisterFailed, Updated, SetExec, TypeOK
<1>18. ASSUME NEW s \in Signal, Expire(s)
      PROVE  TypeOK'
  BY <1>18, RestartsAssumption DEF Expire, Updated, TypeOK
<1>19. ASSUME NEW s \in Signal, Emit(s)
      PROVE  TypeOK'
  BY <1>19, RestartsAssumption DEF Emit, Ghosts, TypeOK
<1>20. ASSUME NEW s \in Signal, Drop(s)
      PROVE  TypeOK'
  BY <1>20, RestartsAssumption DEF Drop, Takes, TypeOK
<1>21. ASSUME NEW s \in Signal, Queue(s)
      PROVE  TypeOK'
  BY <1>21, RestartsAssumption DEF Queue, Takes, HasRow, TypeOK
<1>22. ASSUME NEW s \in Signal, NEW v \in Verdict, TraderReads(s, v)
      PROVE  TypeOK'
  BY <1>22, RestartsAssumption DEF TraderReads, TypeOK, Verdict
<1>23. ASSUME NEW s \in Signal, TraderWrites(s)
      PROVE  TypeOK'
  BY <1>23, RestartsAssumption DEF TraderWrites, InTime, TypeOK
<1>24. ASSUME NEW s \in Signal, TraderFails(s)
      PROVE  TypeOK'
  BY <1>24, RestartsAssumption DEF TraderFails, TypeOK
<1>25. ASSUME NEW s \in Signal, TimeOut(s)
      PROVE  TypeOK'
  BY <1>25, RestartsAssumption DEF TimeOut, TypeOK
<1>26. ASSUME NEW s \in Signal, Age(s)
      PROVE  TypeOK'
  BY <1>26, RestartsAssumption DEF Age, TypeOK
<1>27. ASSUME NEW s \in Signal, PositionCloses(s)
      PROVE  TypeOK'
  BY <1>27, RestartsAssumption DEF PositionCloses, TypeOK
<1>28. ASSUME NEW s \in Signal, RecordClosed(s)
      PROVE  TypeOK'
  BY <1>28, RestartsAssumption DEF RecordClosed, TypeOK
<1>29. CASE UNCHANGED vars
  BY <1>29 DEF vars, TypeOK
<1> QED
  BY <1>1, <1>2, <1>3, <1>4, <1>5, <1>6, <1>7, <1>8, <1>9, <1>10, <1>11, <1>12, <1>13, <1>14,
     <1>15, <1>16, <1>17, <1>18, <1>19, <1>20, <1>21, <1>22, <1>23, <1>24, <1>25, <1>26,
     <1>27, <1>28, <1>29 DEF Next, CycleStep, ExecutorStep, TraderStep

(* Every step keeps what is known of each signal. *)
LEMMA SignalStep ==
  ASSUME TypeOK, EverySignal, [Next]_vars
  PROVE  EverySignal'
<1> USE DEF clockVars, brokerVars, cycleVars, traderVars
<1>1. CASE StartCycle
  BY <1>1 DEF StartCycle, TypeOK, EverySignal, SignalInv, Untouched
<1>2. CASE MarksDone
  BY <1>2 DEF MarksDone, TypeOK, EverySignal, SignalInv, Untouched
<1>3. CASE AutoDone
  BY <1>3 DEF AutoDone, Moves, TypeOK, EverySignal, SignalInv, Untouched
<1>4. CASE ExpireDone
  BY <1>4 DEF ExpireDone, Moves, TypeOK, EverySignal, SignalInv, Untouched
<1>5. CASE Filter
  BY <1>5 DEF Filter, Moves, TypeOK, EverySignal, SignalInv, Untouched
<1>6. CASE EndCycle
  BY <1>6 DEF EndCycle, TypeOK, EverySignal, SignalInv, Untouched
<1>7. CASE Lock
  BY <1>7 DEF Lock, TypeOK, EverySignal, SignalInv, Untouched
<1>8. CASE Unlock
  BY <1>8 DEF Unlock, TypeOK, EverySignal, SignalInv, Untouched
<1>9. CASE Restart
  BY <1>9 DEF Restart, TypeOK, EverySignal, SignalInv, Untouched
<1>10. ASSUME NEW s \in Signal, Mark(s)
      PROVE  EverySignal'
  BY <1>10 DEF Mark, TypeOK, EverySignal, SignalInv, Untouched
<1>11. ASSUME NEW s \in Signal, MarkFails(s)
      PROVE  EverySignal'
  BY <1>11 DEF MarkFails, TypeOK, EverySignal, SignalInv, Untouched
<1>12. ASSUME NEW s \in Signal, Refuse(s)
      PROVE  EverySignal'
  BY <1>12 DEF Refuse, Takes, Quiet, RegisterFailed, Updated, TypeOK, EverySignal, SignalInv,
     Untouched
<1>13. ASSUME NEW s \in Signal, Admit(s)
      PROVE  EverySignal'
  BY <1>13 DEF Admit, Takes, Quiet, SetExec, SlotFree, Ghosts, TypeOK, EverySignal, SignalInv,
     Untouched
<1>14. ASSUME NEW s \in Signal, NotSent(s)
      PROVE  EverySignal'
  BY <1>14 DEF NotSent, RegisterFailed, Updated, SetExec, TypeOK, EverySignal, SignalInv,
     Untouched
<1>15. ASSUME NEW s \in Signal, Fill(s)
      PROVE  EverySignal'
  BY <1>15 DEF Fill, SetExec, TypeOK, EverySignal, SignalInv, Untouched
<1>16. ASSUME NEW s \in Signal, Answered(s)
      PROVE  EverySignal'
  BY <1>16 DEF Answered, Updated, SetExec, TypeOK, EverySignal, SignalInv, Untouched
<1>17. ASSUME NEW s \in Signal, AnswerLost(s)
      PROVE  EverySignal'
  BY <1>17 DEF AnswerLost, RegisterFailed, Updated, SetExec, TypeOK, EverySignal, SignalInv,
     Untouched
<1>18. ASSUME NEW s \in Signal, Expire(s)
      PROVE  EverySignal'
  BY <1>18 DEF Expire, Updated, TypeOK, EverySignal, SignalInv, Untouched
<1>19. ASSUME NEW s \in Signal, Emit(s)
      PROVE  EverySignal'
  BY <1>19 DEF Emit, Ghosts, TypeOK, EverySignal, SignalInv, Untouched
<1>20. ASSUME NEW s \in Signal, Drop(s)
      PROVE  EverySignal'
  BY <1>20 DEF Drop, Takes, TypeOK, EverySignal, SignalInv, Untouched
<1>21. ASSUME NEW s \in Signal, Queue(s)
      PROVE  EverySignal'
  BY <1>21 DEF Queue, Takes, HasRow, TypeOK, EverySignal, SignalInv, Untouched
<1>22. ASSUME NEW s \in Signal, NEW v \in Verdict, TraderReads(s, v)
      PROVE  EverySignal'
  BY <1>22 DEF TraderReads, TypeOK, EverySignal, SignalInv, Untouched, Verdict
<1>23. ASSUME NEW s \in Signal, TraderWrites(s)
      PROVE  EverySignal'
  <2> USE DEF TraderWrites, InTime, Verdict, TypeOK, EverySignal, SignalInv, Untouched
  <2>1. \A t \in Signal \ {s} : SignalInv(t)'
    BY <1>23
  <2>2. SignalInv(s)'
    <3>1. CASE s \in told'
      BY <1>23, <3>1
    <3>2. CASE s \notin told'
      BY <1>23, <3>2
    <3> QED
      BY <3>1, <3>2
  <2> QED
    BY <2>1, <2>2
<1>24. ASSUME NEW s \in Signal, TraderFails(s)
      PROVE  EverySignal'
  BY <1>24 DEF TraderFails, TypeOK, EverySignal, SignalInv, Untouched
<1>25. ASSUME NEW s \in Signal, TimeOut(s)
      PROVE  EverySignal'
  BY <1>25 DEF TimeOut, TypeOK, EverySignal, SignalInv, Untouched
<1>26. ASSUME NEW s \in Signal, Age(s)
      PROVE  EverySignal'
  BY <1>26 DEF Age, TypeOK, EverySignal, SignalInv, Untouched
<1>27. ASSUME NEW s \in Signal, PositionCloses(s)
      PROVE  EverySignal'
  BY <1>27 DEF PositionCloses, TypeOK, EverySignal, SignalInv, Untouched
<1>28. ASSUME NEW s \in Signal, RecordClosed(s)
      PROVE  EverySignal'
  BY <1>28 DEF RecordClosed, TypeOK, EverySignal, SignalInv, Untouched
<1>29. CASE UNCHANGED vars
  BY <1>29 DEF vars, TypeOK, EverySignal, SignalInv, Untouched
<1> QED
  BY <1>1, <1>2, <1>3, <1>4, <1>5, <1>6, <1>7, <1>8, <1>9, <1>10, <1>11, <1>12, <1>13, <1>14,
     <1>15, <1>16, <1>17, <1>18, <1>19, <1>20, <1>21, <1>22, <1>23, <1>24, <1>25, <1>26,
     <1>27, <1>28, <1>29 DEF Next, CycleStep, ExecutorStep, TraderStep

(* Every step keeps the one slot for a position. *)
LEMMA SlotStep ==
  ASSUME TypeOK, SlotInv, [Next]_vars
  PROVE  SlotInv'
<1> USE DEF clockVars, brokerVars, cycleVars, traderVars
<1>1. CASE StartCycle
  BY <1>1 DEF StartCycle, TypeOK, SlotInv, OneTracked
<1>2. CASE MarksDone
  BY <1>2 DEF MarksDone, TypeOK, SlotInv, OneTracked
<1>3. CASE AutoDone
  BY <1>3 DEF AutoDone, Moves, TypeOK, SlotInv, OneTracked
<1>4. CASE ExpireDone
  BY <1>4 DEF ExpireDone, Moves, TypeOK, SlotInv, OneTracked
<1>5. CASE Filter
  BY <1>5 DEF Filter, Moves, TypeOK, SlotInv, OneTracked
<1>6. CASE EndCycle
  BY <1>6 DEF EndCycle, TypeOK, SlotInv, OneTracked
<1>7. CASE Lock
  BY <1>7 DEF Lock, TypeOK, SlotInv, OneTracked
<1>8. CASE Unlock
  BY <1>8 DEF Unlock, TypeOK, SlotInv, OneTracked
<1>9. CASE Restart
  BY <1>9 DEF Restart, TypeOK, SlotInv, OneTracked
<1>10. ASSUME NEW s \in Signal, Mark(s)
      PROVE  SlotInv'
  BY <1>10 DEF Mark, TypeOK, SlotInv, OneTracked
<1>11. ASSUME NEW s \in Signal, MarkFails(s)
      PROVE  SlotInv'
  BY <1>11 DEF MarkFails, TypeOK, SlotInv, OneTracked
<1>12. ASSUME NEW s \in Signal, Refuse(s)
      PROVE  SlotInv'
  BY <1>12 DEF Refuse, Takes, Quiet, RegisterFailed, Updated, TypeOK, SlotInv, OneTracked
<1>13. ASSUME NEW s \in Signal, Admit(s)
      PROVE  SlotInv'
  BY <1>13 DEF Admit, Takes, Quiet, SetExec, SlotFree, Ghosts, TypeOK, SlotInv, OneTracked
<1>14. ASSUME NEW s \in Signal, NotSent(s)
      PROVE  SlotInv'
  BY <1>14 DEF NotSent, RegisterFailed, Updated, SetExec, TypeOK, SlotInv, OneTracked
<1>15. ASSUME NEW s \in Signal, Fill(s)
      PROVE  SlotInv'
  BY <1>15 DEF Fill, SetExec, TypeOK, SlotInv, OneTracked
<1>16. ASSUME NEW s \in Signal, Answered(s)
      PROVE  SlotInv'
  BY <1>16 DEF Answered, Updated, SetExec, TypeOK, SlotInv, OneTracked
<1>17. ASSUME NEW s \in Signal, AnswerLost(s)
      PROVE  SlotInv'
  BY <1>17 DEF AnswerLost, RegisterFailed, Updated, SetExec, TypeOK, SlotInv, OneTracked
<1>18. ASSUME NEW s \in Signal, Expire(s)
      PROVE  SlotInv'
  BY <1>18 DEF Expire, Updated, TypeOK, SlotInv, OneTracked
<1>19. ASSUME NEW s \in Signal, Emit(s)
      PROVE  SlotInv'
  BY <1>19 DEF Emit, Ghosts, TypeOK, SlotInv, OneTracked
<1>20. ASSUME NEW s \in Signal, Drop(s)
      PROVE  SlotInv'
  BY <1>20 DEF Drop, Takes, TypeOK, SlotInv, OneTracked
<1>21. ASSUME NEW s \in Signal, Queue(s)
      PROVE  SlotInv'
  BY <1>21 DEF Queue, Takes, HasRow, TypeOK, SlotInv, OneTracked
<1>22. ASSUME NEW s \in Signal, NEW v \in Verdict, TraderReads(s, v)
      PROVE  SlotInv'
  BY <1>22 DEF TraderReads, TypeOK, SlotInv, OneTracked, Verdict
<1>23. ASSUME NEW s \in Signal, TraderWrites(s)
      PROVE  SlotInv'
  BY <1>23 DEF TraderWrites, InTime, TypeOK, SlotInv, OneTracked
<1>24. ASSUME NEW s \in Signal, TraderFails(s)
      PROVE  SlotInv'
  BY <1>24 DEF TraderFails, TypeOK, SlotInv, OneTracked
<1>25. ASSUME NEW s \in Signal, TimeOut(s)
      PROVE  SlotInv'
  BY <1>25 DEF TimeOut, TypeOK, SlotInv, OneTracked
<1>26. ASSUME NEW s \in Signal, Age(s)
      PROVE  SlotInv'
  BY <1>26 DEF Age, TypeOK, SlotInv, OneTracked
<1>27. ASSUME NEW s \in Signal, PositionCloses(s)
      PROVE  SlotInv'
  BY <1>27 DEF PositionCloses, TypeOK, SlotInv, OneTracked
<1>28. ASSUME NEW s \in Signal, RecordClosed(s)
      PROVE  SlotInv'
  BY <1>28 DEF RecordClosed, TypeOK, SlotInv, OneTracked
<1>29. CASE UNCHANGED vars
  BY <1>29 DEF vars, TypeOK, SlotInv, OneTracked
<1> QED
  BY <1>1, <1>2, <1>3, <1>4, <1>5, <1>6, <1>7, <1>8, <1>9, <1>10, <1>11, <1>12, <1>13, <1>14,
     <1>15, <1>16, <1>17, <1>18, <1>19, <1>20, <1>21, <1>22, <1>23, <1>24, <1>25, <1>26,
     <1>27, <1>28, <1>29 DEF Next, CycleStep, ExecutorStep, TraderStep

(* Every step keeps the bound on a lockdown. *)
LEMMA LockStep ==
  ASSUME TypeOK, LockInv, [Next]_vars
  PROVE  LockInv'
<1> USE DEF clockVars, brokerVars, cycleVars, traderVars
<1>1. CASE StartCycle
  BY <1>1 DEF StartCycle, TypeOK, LockInv, LockdownOverrun
<1>2. CASE MarksDone
  BY <1>2 DEF MarksDone, TypeOK, LockInv, LockdownOverrun
<1>3. CASE AutoDone
  BY <1>3 DEF AutoDone, Moves, TypeOK, LockInv, LockdownOverrun
<1>4. CASE ExpireDone
  BY <1>4 DEF ExpireDone, Moves, TypeOK, LockInv, LockdownOverrun
<1>5. CASE Filter
  BY <1>5 DEF Filter, Moves, TypeOK, LockInv, LockdownOverrun
<1>6. CASE EndCycle
  BY <1>6 DEF EndCycle, TypeOK, LockInv, LockdownOverrun
<1>7. CASE Lock
  BY <1>7 DEF Lock, TypeOK, LockInv, LockdownOverrun
<1>8. CASE Unlock
  BY <1>8 DEF Unlock, TypeOK, LockInv, LockdownOverrun
<1>9. CASE Restart
  BY <1>9 DEF Restart, TypeOK, LockInv, LockdownOverrun
<1>10. ASSUME NEW s \in Signal, Mark(s)
      PROVE  LockInv'
  BY <1>10 DEF Mark, TypeOK, LockInv, LockdownOverrun
<1>11. ASSUME NEW s \in Signal, MarkFails(s)
      PROVE  LockInv'
  BY <1>11 DEF MarkFails, TypeOK, LockInv, LockdownOverrun
<1>12. ASSUME NEW s \in Signal, Refuse(s)
      PROVE  LockInv'
  BY <1>12 DEF Refuse, Takes, Quiet, RegisterFailed, Updated, TypeOK, LockInv, LockdownOverrun
<1>13. ASSUME NEW s \in Signal, Admit(s)
      PROVE  LockInv'
  BY <1>13 DEF Admit, Takes, Quiet, SetExec, SlotFree, Ghosts, TypeOK, LockInv, LockdownOverrun
<1>14. ASSUME NEW s \in Signal, NotSent(s)
      PROVE  LockInv'
  BY <1>14 DEF NotSent, RegisterFailed, Updated, SetExec, TypeOK, LockInv, LockdownOverrun
<1>15. ASSUME NEW s \in Signal, Fill(s)
      PROVE  LockInv'
  BY <1>15 DEF Fill, SetExec, TypeOK, LockInv, LockdownOverrun
<1>16. ASSUME NEW s \in Signal, Answered(s)
      PROVE  LockInv'
  BY <1>16 DEF Answered, Updated, SetExec, TypeOK, LockInv, LockdownOverrun
<1>17. ASSUME NEW s \in Signal, AnswerLost(s)
      PROVE  LockInv'
  BY <1>17 DEF AnswerLost, RegisterFailed, Updated, SetExec, TypeOK, LockInv, LockdownOverrun
<1>18. ASSUME NEW s \in Signal, Expire(s)
      PROVE  LockInv'
  BY <1>18 DEF Expire, Updated, TypeOK, LockInv, LockdownOverrun
<1>19. ASSUME NEW s \in Signal, Emit(s)
      PROVE  LockInv'
  BY <1>19 DEF Emit, Ghosts, TypeOK, LockInv, LockdownOverrun
<1>20. ASSUME NEW s \in Signal, Drop(s)
      PROVE  LockInv'
  BY <1>20 DEF Drop, Takes, TypeOK, LockInv, LockdownOverrun
<1>21. ASSUME NEW s \in Signal, Queue(s)
      PROVE  LockInv'
  BY <1>21 DEF Queue, Takes, HasRow, TypeOK, LockInv, LockdownOverrun
<1>22. ASSUME NEW s \in Signal, NEW v \in Verdict, TraderReads(s, v)
      PROVE  LockInv'
  BY <1>22 DEF TraderReads, TypeOK, LockInv, LockdownOverrun, Verdict
<1>23. ASSUME NEW s \in Signal, TraderWrites(s)
      PROVE  LockInv'
  BY <1>23 DEF TraderWrites, InTime, TypeOK, LockInv, LockdownOverrun
<1>24. ASSUME NEW s \in Signal, TraderFails(s)
      PROVE  LockInv'
  BY <1>24 DEF TraderFails, TypeOK, LockInv, LockdownOverrun
<1>25. ASSUME NEW s \in Signal, TimeOut(s)
      PROVE  LockInv'
  BY <1>25 DEF TimeOut, TypeOK, LockInv, LockdownOverrun
<1>26. ASSUME NEW s \in Signal, Age(s)
      PROVE  LockInv'
  BY <1>26 DEF Age, TypeOK, LockInv, LockdownOverrun
<1>27. ASSUME NEW s \in Signal, PositionCloses(s)
      PROVE  LockInv'
  BY <1>27 DEF PositionCloses, TypeOK, LockInv, LockdownOverrun
<1>28. ASSUME NEW s \in Signal, RecordClosed(s)
      PROVE  LockInv'
  BY <1>28 DEF RecordClosed, TypeOK, LockInv, LockdownOverrun
<1>29. CASE UNCHANGED vars
  BY <1>29 DEF vars, TypeOK, LockInv, LockdownOverrun
<1> QED
  BY <1>1, <1>2, <1>3, <1>4, <1>5, <1>6, <1>7, <1>8, <1>9, <1>10, <1>11, <1>12, <1>13, <1>14,
     <1>15, <1>16, <1>17, <1>18, <1>19, <1>20, <1>21, <1>22, <1>23, <1>24, <1>25, <1>26,
     <1>27, <1>28, <1>29 DEF Next, CycleStep, ExecutorStep, TraderStep

-----------------------------------------------------------------------------
(* The invariant holds in every reachable state. *)
THEOREM Invariance == Spec => []Inv
<1>1. Init => Inv
  <2> SUFFICES ASSUME Init PROVE Inv
    OBVIOUS
  <2>1. TypeOK
    <3>1. locked \in BOOLEAN
      BY Zenon DEF Init
    <3>2. restarts \in 0..MaxRestarts
      BY RestartsAssumption DEF Init
    <3>3. overrun \in Nat /\ fills \in [Signal -> Nat]
      BY DEF Init
    <3> QED
      BY <3>1, <3>2, <3>3 DEF Init, TypeOK
  <2>2. EverySignal
    BY DEF Init, EverySignal, SignalInv, Untouched
  <2>3. SlotInv /\ LockInv
    BY DEF Init, SlotInv, OneTracked, LockInv, LockdownOverrun
  <2> QED
    BY <2>1, <2>2, <2>3 DEF Inv
<1>2. Inv /\ [Next]_vars => Inv'
  BY TypeStep, SignalStep, SlotStep, LockStep DEF Inv
<1> QED
  BY <1>1, <1>2, PTL DEF Spec

(* The cycle, the executor, the broker and the trader stay well typed. *)
THEOREM TypeCorrect == Spec => []TypeOK
<1>1. Inv => TypeOK
  BY DEF Inv
<1> QED
  BY <1>1, Invariance, PTL

(* No signal is filled twice, for any number of signals, however the       *)
(* timeouts of reviews, the answers and the restarts interleave.           *)
THEOREM NeverFilledTwice == Spec => []FilledOnce
<1>1. Inv => FilledOnce
  BY DEF Inv, EverySignal, SignalInv, FilledOnce
<1> QED
  BY <1>1, Invariance, PTL

(* A signal that sys_signals calls executed or closed was filled. *)
THEOREM ExecutedMeansFilled == Spec => []ExecutedWasFilled
<1>1. Inv => ExecutedWasFilled
  BY DEF Inv, EverySignal, SignalInv, ExecutedWasFilled
<1> QED
  BY <1>1, Invariance, PTL

(* At most one position is open whose signal is known as executed. *)
THEOREM OnePosition == Spec => []OneTracked
<1>1. Inv => OneTracked
  BY DEF Inv, SlotInv
<1> QED
  BY <1>1, Invariance, PTL

(* A lockdown is overrun by at most the one order in flight. *)
THEOREM LockdownHolds == Spec => []LockdownOverrun
<1>1. Inv => LockdownOverrun
  BY DEF Inv, LockInv
<1> QED
  BY <1>1, Invariance, PTL

(* While a trader may still answer, the signal has not been sent. *)
THEOREM QuestionsStayOpen == Spec => []OpenQuestion
<1>1. Inv => OpenQuestion
  BY DEF Inv, EverySignal, SignalInv, Untouched, OpenQuestion
<1> QED
  BY <1>1, Invariance, PTL

(* A rejection confirmed in time is final. *)
THEOREM RejectionIsFinal == Spec => []RejectionHolds
<1>1. Inv => RejectionHolds
  BY DEF Inv, TypeOK, EverySignal, SignalInv, Untouched, RejectionHolds
<1> QED
  BY <1>1, Invariance, PTL

-----------------------------------------------------------------------------
(* The refinement of SignalLife. *)

(* A step that leaves what is told, filled and at the broker, and for a    *)
(* filled signal whether its row says so, leaves its life.                 *)
LEMMA LifeKept ==
  ASSUME NEW s \in Signal, fills'[s] = fills[s], s \in told' <=> s \in told,
         fills[s] # 0 =>
           /\ \A st \in {"EXECUTED", "CLOSED"} : row'[s] = st <=> row[s] = st
           /\ exec'[s] = "filled" <=> exec[s] = "filled"
  PROVE  LifeOf(s)' = LifeOf(s)
BY DEF LifeOf

LEMMA LivesKept ==
  ASSUME \A s \in Signal : LifeOf(s)' = LifeOf(s), UNCHANGED open
  PROVE  UNCHANGED <<LifeOfSignals, open>>
BY DEF LifeOfSignals

(* The life of one signal changes. *)
LEMMA Becomes ==
  ASSUME NEW s \in Signal, NEW from, NEW to, LifeOf(s) = from, LifeOf(s)' = to,
         \A t \in Signal \ {s} : LifeOf(t)' = LifeOf(t)
  PROVE  Life!Become(s, from, to)
<1>1. LifeOfSignals' = [LifeOfSignals EXCEPT ![s] = to]
  BY DEF LifeOfSignals
<1> QED
  BY <1>1 DEF Life!Become, LifeOfSignals

LEMMA InitLife == Init => Life!Init
BY DEF Init, Life!Init, LifeOfSignals, LifeOf

(* One order at a time: a filled one excludes another, sent or executed.   *)
LEMMA FillSends ==
  ASSUME Inv, NEW s \in Signal, Fill(s)
  PROVE  Life!Send(s)
<1> USE DEF Inv
<1>1. /\ exec[s] = "admitted" /\ fills[s] = 0 /\ s \notin told
      /\ row[s] \notin {"EXECUTED", "CLOSED"}
  BY DEF Fill, EverySignal, SignalInv, Untouched
<1>2. \A t \in Signal : exec[t] # "none" => t = s
  BY <1>1 DEF TypeOK
<1>3. \A t \in Signal : LifeOf(t) # "sent"
  BY <1>1, <1>2 DEF LifeOf
<1>4. \A t \in open : LifeOf(t) # "executed"
  BY <1>1 DEF SlotInv, TypeOK, LifeOf
<1>5. LifeOf(s) = "waiting" /\ LifeOf(s)' = "sent"
  BY <1>1 DEF Fill, SetExec, TypeOK, LifeOf
<1>6. \A t \in Signal \ {s} : LifeOf(t)' = LifeOf(t)
  BY DEF Fill, SetExec, TypeOK, LifeOf, cycleVars, traderVars
<1>7. Life!Become(s, "waiting", "sent")
  BY <1>5, <1>6, Becomes
<1>8. open \subseteq Signal
  BY DEF TypeOK
<1> QED
  BY <1>3, <1>4, <1>7, <1>8 DEF Life!Send, Fill, LifeOfSignals

(* The answer is written as executed, or whatever happens loses it.        *)
LEMMA AnswerSettles ==
  ASSUME Inv, NEW s \in Signal, Answered(s) \/ AnswerLost(s)
  PROVE  Life!Settle(s)
<1> USE DEF Inv
<1>1. exec[s] = "filled" /\ fills[s] = 1 /\ row[s] \notin {"EXECUTED", "CLOSED"}
  BY DEF Answered, AnswerLost, EverySignal, SignalInv
<1>2. fills' = fills /\ told' = told /\ open' = open
  BY DEF Answered, AnswerLost, brokerVars, traderVars
<1>3. exec'[s] = "none" /\ \A t \in Signal \ {s} : exec'[t] = exec[t] /\ row'[t] = row[t]
  BY DEF Answered, AnswerLost, RegisterFailed, Updated, SetExec, TypeOK
<1>4. LifeOf(s) = "sent"
  BY <1>1 DEF LifeOf
<1>5. row'[s] \in {row[s], "EXECUTED", "REJECTED"}
  BY DEF Answered, AnswerLost, RegisterFailed, Updated, TypeOK
<1>6. LifeOf(s)' \in {"executed", "lost"}
  BY <1>1, <1>2, <1>3, <1>5 DEF LifeOf
<1>7. \A t \in Signal \ {s} : LifeOf(t)' = LifeOf(t)
  BY <1>2, <1>3, LifeKept
<1> QED
  BY <1>2, <1>4, <1>6, <1>7, Becomes DEF Life!Settle

(* Executed signals become closed, and nothing else happens to a life.     *)
LEMMA Records ==
  ASSUME NEW S \in SUBSET Signal, NEW t \in Signal \ open, fills[t] # 0,
         \A s \in S : LifeOf(s) = "executed" /\ LifeOf(s)' = "closed",
         \A s \in Signal \ S : LifeOf(s)' = LifeOf(s), UNCHANGED open
  PROVE  Life!Record(S)
<1>1. LifeOf(t) \notin {"waiting", "refused"}
  BY DEF LifeOf
<1>2. LifeOfSignals' = [s \in Signal |-> IF s \in S THEN "closed" ELSE LifeOfSignals[s]]
  BY DEF LifeOfSignals
<1> QED
  BY <1>1, <1>2 DEF Life!Record, LifeOfSignals

LEMMA EmitRecords ==
  ASSUME Inv, NEW s \in Signal, Emit(s)
  PROVE  Life!Next \/ UNCHANGED <<LifeOfSignals, open>>
<1> USE DEF Inv
<1>1. UNCHANGED <<fills, open, told, exec>>
  BY DEF Emit, brokerVars, traderVars
<1>2. fills[s] = 0
  BY DEF Emit, EverySignal, SignalInv, Untouched
<1>3. \A t \in Ghosts : LifeOf(t) = "executed" /\ LifeOf(t)' = "closed"
  <2> SUFFICES ASSUME NEW t \in Ghosts PROVE LifeOf(t) = "executed" /\ LifeOf(t)' = "closed"
    OBVIOUS
  <2>1. t \in Signal /\ row[t] = "EXECUTED" /\ fills[t] # 0 /\ t # s
    BY DEF Ghosts, Emit, TypeOK, EverySignal, SignalInv
  <2>2. row'[t] = "CLOSED" /\ fills'[t] = fills[t]
    BY <1>1, <2>1 DEF Emit
  <2> QED
    BY <2>1, <2>2 DEF LifeOf
<1>4. \A t \in Signal \ Ghosts : LifeOf(t)' = LifeOf(t)
  <2> SUFFICES ASSUME NEW t \in Signal \ Ghosts PROVE LifeOf(t)' = LifeOf(t)
    OBVIOUS
  <2>1. t # s => row'[t] = row[t]
    BY DEF Emit
  <2> QED
    BY <1>1, <1>2, <2>1, LifeKept
<1>5. CASE Ghosts = {}
  BY <1>1, <1>4, <1>5, LivesKept
<1>6. CASE Ghosts # {}
  <2>1. PICK t \in Ghosts : TRUE
    BY <1>6
  <2>2. t \in Signal \ open /\ fills[t] # 0
    BY <1>6, <2>1 DEF Ghosts, Emit, SlotFree, TypeOK, EverySignal, SignalInv
  <2>3. Life!Record(Ghosts)
    BY <1>1, <1>3, <1>4, <2>2, Records DEF Ghosts
  <2> QED
    BY <2>3 DEF Life!Next, Ghosts
<1> QED
  BY <1>5, <1>6

(* An answer of the trader refuses the signal or leaves its life.          *)
LEMMA AnswerRefuses ==
  ASSUME Inv, NEW s \in Signal, TraderWrites(s)
  PROVE  Life!Refuse(s) \/ UNCHANGED <<LifeOfSignals, open>>
<1> USE DEF Inv
<1>1. UNCHANGED <<fills, open, row, exec>>
  BY DEF TraderWrites, brokerVars, cycleVars
<1>2. \A t \in Signal \ {s} : t \in told' <=> t \in told
  BY DEF TraderWrites
<1>3. \A t \in Signal \ {s} : LifeOf(t)' = LifeOf(t)
  BY <1>1, <1>2, LifeKept
<1>4. CASE s \in told' /\ s \notin told
  <2>1. fills[s] = 0
    BY <1>4 DEF TraderWrites, InTime, EverySignal, SignalInv, Untouched
  <2>2. LifeOf(s) = "waiting" /\ LifeOf(s)' = "refused"
    BY <1>1, <1>4, <2>1 DEF LifeOf
  <2> QED
    BY <1>1, <1>3, <2>2, Becomes DEF Life!Refuse
<1>5. CASE s \in told' <=> s \in told
  <2>1. LifeOf(s)' = LifeOf(s)
    BY <1>1, <1>5, LifeKept
  <2> QED
    BY <1>1, <1>3, <2>1, LivesKept
<1>6. told \subseteq told'
  BY DEF TraderWrites
<1> QED
  BY <1>4, <1>5, <1>6

(* The process that stops loses the order it has no answer of.             *)
LEMMA RestartSettles ==
  ASSUME Inv, Restart
  PROVE  Life!Next \/ UNCHANGED <<LifeOfSignals, open>>
<1> USE DEF Inv
<1>1. UNCHANGED <<fills, open, row, told>> /\ \A t \in Signal : exec'[t] = "none"
  BY DEF Restart, brokerVars, traderVars
<1>2. CASE \A t \in Signal : exec[t] # "filled"
  BY <1>1, <1>2, LifeKept, LivesKept
<1>3. ASSUME NEW s \in Signal, exec[s] = "filled" PROVE Life!Settle(s)
  <2>1. fills[s] = 1 /\ row[s] \notin {"EXECUTED", "CLOSED"}
    BY <1>3 DEF EverySignal, SignalInv
  <2>2. LifeOf(s) = "sent" /\ LifeOf(s)' = "lost"
    BY <1>1, <1>3, <2>1 DEF LifeOf
  <2>3. \A t \in Signal \ {s} : exec[t] = "none"
    BY <1>3 DEF TypeOK
  <2>4. \A t \in Signal \ {s} : LifeOf(t)' = LifeOf(t)
    BY <1>1, <2>3, LifeKept
  <2> QED
    BY <1>1, <2>2, <2>4, Becomes DEF Life!Settle
<1> QED
  BY <1>2, <1>3 DEF Life!Next

(* Until an order is out, no row, no refusal and no expiry says anything   *)
(* of a life.                                                              *)
LEMMA StepsKeptLives ==
  ASSUME Inv, NEW s \in Signal, Refuse(s) \/ Admit(s) \/ NotSent(s) \/ Expire(s)
  PROVE  UNCHANGED <<LifeOfSignals, open>>
<1> USE DEF Inv
<1>1. UNCHANGED <<fills, open, told>>
  BY DEF Refuse, Admit, NotSent, Expire, brokerVars, traderVars
<1>2. \A t \in Signal \ {s} : row'[t] = row[t] /\ exec'[t] = exec[t]
  BY DEF Refuse, Admit, NotSent, Expire, RegisterFailed, Updated, SetExec, TypeOK, cycleVars
<1>3. CASE Expire(s)
  <2>1. row[s] = "PENDING" /\ row'[s] = "EXPIRED" /\ exec' = exec
    BY <1>3 DEF Expire, Updated, HasRow, TypeOK, cycleVars
  <2> QED
    BY <1>1, <1>2, <2>1, LifeKept, LivesKept
<1>4. CASE Refuse(s) \/ Admit(s) \/ NotSent(s)
  <2>1. fills[s] = 0
    BY <1>4 DEF Refuse, Admit, NotSent, Takes, EverySignal, SignalInv, Untouched
  <2> QED
    BY <1>1, <1>2, <2>1, LifeKept, LivesKept
<1> QED
  BY <1>3, <1>4

LEMMA LifeStep ==
  ASSUME Inv, [Next]_vars
  PROVE  [Life!Next]_<<LifeOfSignals, open>>
<1> USE DEF clockVars, brokerVars, cycleVars, traderVars
<1>1. ASSUME UNCHANGED <<fills, open, row, exec, told>>
      PROVE  UNCHANGED <<LifeOfSignals, open>>
  BY <1>1, LivesKept DEF LifeOf
<1>2. CASE \/ StartCycle \/ MarksDone \/ AutoDone \/ ExpireDone \/ Filter \/ EndCycle
           \/ Lock \/ Unlock \/ UNCHANGED vars
  BY <1>1, <1>2 DEF StartCycle, MarksDone, AutoDone, ExpireDone, Filter, EndCycle, Moves,
     Lock, Unlock, vars
<1>3. ASSUME NEW s \in Signal,
             \/ Mark(s) \/ MarkFails(s) \/ Drop(s) \/ Queue(s) \/ TimeOut(s) \/ Age(s)
             \/ TraderFails(s) \/ \E v \in Verdict : TraderReads(s, v)
      PROVE  UNCHANGED <<LifeOfSignals, open>>
  BY <1>1, <1>3 DEF Mark, MarkFails, Drop, Queue, TimeOut, Age, TraderFails, TraderReads
<1>4. ASSUME NEW s \in Signal, PositionCloses(s) PROVE Life!Leave(s)
  BY <1>4 DEF PositionCloses, Life!Leave, LifeOfSignals, LifeOf
<1>5. ASSUME NEW s \in Signal, RecordClosed(s) PROVE Life!Record({s})
  <2>1. PICK t \in Signal \ open : fills[t] # 0
    BY <1>5 DEF RecordClosed, Inv, TypeOK
  <2>2. UNCHANGED <<fills, open, told, exec>>
    BY <1>5 DEF RecordClosed
  <2>3. row[s] = "EXECUTED" /\ fills[s] # 0
    BY <1>5 DEF RecordClosed, Inv, TypeOK, EverySignal, SignalInv
  <2>4. row'[s] = "CLOSED" /\ \A u \in Signal \ {s} : row'[u] = row[u]
    BY <1>5 DEF RecordClosed, Inv, TypeOK
  <2>5. LifeOf(s) = "executed" /\ LifeOf(s)' = "closed"
    BY <2>2, <2>3, <2>4 DEF LifeOf
  <2>6. \A u \in Signal \ {s} : LifeOf(u)' = LifeOf(u)
    BY <2>2, <2>4, LifeKept
  <2> QED
    BY <2>1, <2>2, <2>5, <2>6, Records
<1> QED
  <2>1. ASSUME NEW s \in Signal,
               Fill(s) \/ Answered(s) \/ AnswerLost(s) \/ PositionCloses(s)
        PROVE  Life!Next
    BY <2>1, <1>4, FillSends, AnswerSettles DEF Life!Next
  <2>2. ASSUME NEW s \in Signal, RecordClosed(s) PROVE Life!Next
    BY <2>2, <1>5 DEF Life!Next
  <2>3. ASSUME NEW s \in Signal, Emit(s) \/ TraderWrites(s)
        PROVE  Life!Next \/ UNCHANGED <<LifeOfSignals, open>>
    BY <2>3, EmitRecords, AnswerRefuses DEF Life!Next
  <2> QED
    BY <1>2, <1>3, <2>1, <2>2, <2>3, RestartSettles, StepsKeptLives
    DEF Next, CycleStep, ExecutorStep, TraderStep

(* For any number of signals and restarts, what becomes of a signal is a   *)
(* life of SignalLife: it is sent once at most, alone, never after a       *)
(* confirmed rejection, and nothing takes an execution back.               *)
THEOREM SignalsLive == Spec => ImplementsLife
<1>1. Inv /\ [Next]_vars => [Life!Next]_<<LifeOfSignals, open>>
  BY LifeStep
<1> QED
  BY InitLife, Invariance, <1>1, PTL DEF Spec, ImplementsLife, Life!Spec

-----------------------------------------------------------------------------
(* The scan *)

(* The places of a thread, and those in which its scan holds a frame.       *)
Place == {"off", "begin", "fetch", "load", "classify", "trip", "ready", "none", "done"}
Holder == Worker \cup {Cache}
Holding == {"load", "classify", "ready", "done"}

(* What the parameters of Scanner are; the longest interval exists.         *)
LEMMA ScanConstants ==
    /\ Longest \in Nat /\ \A r \in Regime : Interval[r] \in Nat
    /\ MaxFailures \in Nat \ {0} /\ Cooldown \in Nat /\ First \in Regime
    /\ NoWorker \notin Worker /\ Cache \notin Worker
<1> DEFINE Is(i) == /\ i \in {Interval[r] : r \in Regime}
                    /\ \A r \in Regime : Interval[r] <= i
<1>1. PICK r \in Regime : \A q \in Regime : Interval[q] <= Interval[r]
  BY ScannerAssumption
<1>2. Is(Interval[r])
  BY <1>1
<1>3. Is(Longest)
  BY <1>2 DEF Longest
<1>4. Longest \in Nat
  BY <1>3, ScannerAssumption
<1> QED
  BY <1>4, ScannerAssumption

(* However frames come and go, the order is one of the holders' frames.     *)
LEMMA OrderTypes ==
    ASSUME NEW s \in SUBSET (Holder \X Holder), NEW w \in Worker
    PROVE  /\ Newest(w, s) \in SUBSET (Holder \X Holder)
           /\ Without(w, s) \in SUBSET (Holder \X Holder)
           /\ Replaced(w, s) \in SUBSET (Holder \X Holder)
<1>1. Newest(w, s) \in SUBSET (Holder \X Holder)
  BY DEF Newest, Holders, Holder
<1>2. Without(w, s) \in SUBSET (Holder \X Holder)
  BY DEF Without
<1>3. Replaced(w, s) \in SUBSET (Holder \X Holder)
  BY DEF Replaced, Without, Holder
<1> QED
  BY <1>1, <1>2, <1>3

(* The newest frame is no older than any, and the others stay as they were. *)
LEMMA NewestPairs ==
    ASSUME NEW s \in SUBSET (Holder \X Holder), NEW w \in Worker, NEW a \in Holder,
           NEW b \in Holder, <<a, b>> \in Newest(w, s)
    PROVE  <<a, b>> \in s \/ (b = w /\ (a = w \/ \E c \in Holder : <<a, c>> \in s))
<1>1. CASE a \in Holders(s)
  <2>1. PICK pair \in s : a = pair[1]
    BY <1>1 DEF Holders
  <2>2. pair = <<a, pair[2]>> /\ pair[2] \in Holder
    BY <2>1
  <2> QED
    BY <2>1, <2>2 DEF Newest
<1>2. CASE a \notin Holders(s)
  BY <1>2 DEF Newest
<1> QED
  BY <1>1, <1>2

(* A step of one thread moves it between places of the scan it is part of. *)
LEMMA ThreadMoves ==
    ASSUME ScanTypeOK, NEW w \in Worker, NEW k \in Pair, NEW place \in Place,
           Go(w, k, place)
    PROVE  /\ at' \in [Worker -> [Pair -> Place]]
           /\ at'[w][k] = place
           /\ \A v \in Worker, j \in Pair : v # w \/ j # k => at'[v][j] = at[v][j]
BY DEF ScanTypeOK, Go, Place

LEMMA ThreadType ==
    ASSUME ScanTypeOK, NEW w \in Worker, NEW k \in Pair, Thread(w, k)
    PROVE  ScanTypeOK'
<1> USE ScanConstants, ThreadMoves, OrderTypes
<1>1. CASE Enter(w, k)
  BY <1>1 DEF Enter, ScanTypeOK, Place, cycle, breaker, schedule
<1>2. CASE Fetch(w, k)
  BY <1>2 DEF Fetch, ScanTypeOK, Place, Holder, cycle, breaker, schedule
<1>3. CASE Load(w, k)
  BY <1>3 DEF Load, ScanTypeOK, Place, cycle, breaker, schedule
<1>4. ASSUME NEW r \in Regime, Classify(w, k, r) PROVE ScanTypeOK'
  BY <1>4 DEF Classify, ScanTypeOK, Place, cycle, schedule
<1>5. CASE Invalid(w, k)
  BY <1>5 DEF Invalid, ScanTypeOK, Place, Holder, cycle, breaker, schedule
<1>6. CASE Fail(w, k)
  <2> DEFINE n == scanFailures[k] + 1
  <2>1. scanFailures' \in [Pair -> 0..MaxFailures]
    <3>1. (IF n > MaxFailures THEN MaxFailures ELSE n) \in 0..MaxFailures
      BY DEF ScanTypeOK
    <3> QED
      BY <1>6, <3>1 DEF Fail, ScanTypeOK
  <2>2. at' \in [Worker -> [Pair -> Place]]
    BY <1>6 DEF Fail, Place
  <2>3. order' \in [Pair -> SUBSET (Holder \X Holder)]
    BY <1>6 DEF Fail, ScanTypeOK, Holder
  <2> QED
    BY <1>6, <2>1, <2>2, <2>3 DEF Fail, ScanTypeOK, Place, Holder, cycle, schedule
<1>7. CASE Trip(w, k)
  BY <1>7 DEF Trip, ScanTypeOK, Place, cycle, schedule
<1>8. CASE Process(w, k)
  BY <1>8 DEF Process, ScanTypeOK, Place, cycle, breaker
<1> QED
  BY <1>1, <1>2, <1>3, <1>4, <1>5, <1>6, <1>7, <1>8 DEF Thread

LEMMA LeastType == \A n, m \in Nat : Least(n, m) \in 0..m
BY DEF Least

LEMMA ScanTypeStep ==
    ASSUME ScanTypeOK, [ScanNext]_scanVars
    PROVE  ScanTypeOK'
<1> USE ScanConstants DEF breaker, schedule, scan
<1>1. CASE Throttled \/ Unthrottled \/ Open \/ Closed
  BY <1>1 DEF Throttled, Unthrottled, Open, Closed, ScanTypeOK
<1>2. CASE Cached \/ Request \/ Timeout
  BY <1>2 DEF Cached, Request, Timeout, Due, ScanTypeOK
<1>3. ASSUME NEW w \in Worker, Begin(w) PROVE ScanTypeOK'
  BY <1>3 DEF Begin, ScanTypeOK
<1>4. ASSUME NEW w \in Worker, Publish(w) PROVE ScanTypeOK'
  <2>1. order' \in [Pair -> SUBSET (Holder \X Holder)]
    BY <1>4, OrderTypes DEF Publish, ScanTypeOK, Holder
  <2> QED
    BY <1>4, <2>1 DEF Publish, ScanTypeOK, Holder
<1>5. CASE Tick
  <2>1. since' \in [Pair -> 0..Longest]
    <3>1. since \in [Pair -> 0..Longest] /\ Longest \in Nat
      BY DEF ScanTypeOK
    <3>2. \A k \in Pair : Least(since[k] + 1, Longest) \in 0..Longest
      <4>1. TAKE k \in Pair
      <4>2. since[k] + 1 \in Nat
        BY <3>1
      <4> QED
        BY <3>1, <4>2, LeastType
    <3> QED
      BY <1>5, <3>2 DEF Tick
  <2>2. cooldown' \in [Pair -> 0..Cooldown]
    <3>0. cooldown \in [Pair -> 0..Cooldown] /\ Cooldown \in Nat
      BY DEF ScanTypeOK
    <3>1. \A k \in Pair : (IF cooldown[k] = 0 THEN 0 ELSE cooldown[k] - 1) \in 0..Cooldown
      BY <3>0
    <3> QED
      BY <1>5, <3>1 DEF Tick
  <2> QED
    BY <1>5, <2>1, <2>2 DEF Tick, ScanTypeOK, cycle
<1>6. CASE UNCHANGED scanVars
  BY <1>6 DEF scanVars, cycle, ScanTypeOK
<1> QED
  BY <1>1, <1>2, <1>3, <1>4, <1>5, <1>6, ThreadType DEF ScanNext

LEMMA ScanInitType == ScanInit => ScanTypeOK
<1> SUFFICES ASSUME ScanInit PROVE ScanTypeOK
  OBVIOUS
<1>1. /\ Longest \in 0..Longest /\ First \in Regime
      /\ 0 \in 0..MaxFailures /\ 0 \in 0..Cooldown
  BY ScanConstants
<1>2. /\ since \in [Pair -> 0..Longest] /\ scanFailures \in [Pair -> 0..MaxFailures]
      /\ cooldown \in [Pair -> 0..Cooldown]
  BY <1>1 DEF ScanInit
<1>3. scanRegime \in [Pair -> Regime] /\ found \in [Worker -> [Pair -> Regime]]
  BY <1>1 DEF ScanInit
<1> QED
  BY <1>2, <1>3 DEF ScanInit, ScanTypeOK

(* The variables of Scanner keep their types.                               *)
THEOREM ScannerTypeCorrect == ScanSpec => []ScanTypeOK
BY ScanInitType, ScanTypeStep, PTL DEF ScanSpec

-----------------------------------------------------------------------------
(* The cycle waits for one scan at most, and every scan under way is the    *)
(* one it waits for or was given up.                                        *)
Serial ==
    /\ awaited # NoWorker => scanPhase = "await" /\ queued = {}
    /\ queued # {} => scanPhase = "await"
    /\ \A w \in Worker : Busy(w) => w = awaited \/ w \in abandoned

(* A scan holds a frame of a pair from the answer of the provider to its    *)
(* last step.                                                               *)
Owned ==
    \A k \in Pair, a, b \in Holder : <<a, b>> \in order[k] =>
        /\ a \in Worker => at[a][k] \in Holding
        /\ b \in Worker => at[b][k] \in Holding

(* A pair whose last scan ran beside no abandoned one is in one scan only:  *)
(* the classifier holds what it has loaded, the count of failures is what   *)
(* it has counted, and its frame is newer than that of the cache.           *)
Apart(k) ==
    /\ \A v, w \in Worker : InScan(v, k) /\ InScan(w, k) => v = w
    /\ \A w \in Worker : at[w][k] = "classify" => loader[k] = w
    /\ \A w \in Worker : at[w][k] = "trip" => scanFailures[k] = MaxFailures
    /\ \A w \in Worker : <<w, Cache>> \notin order[k]

Mixing == \A k \in Pair : ~beside[k] => Apart(k)

ScannerInv == ScanTypeOK /\ Serial /\ Owned /\ Mixing

(* A thread stays inside its scan.                                          *)
LEMMA ThreadStays ==
    ASSUME ScanTypeOK, NEW w \in Worker, NEW k \in Pair, Thread(w, k)
    PROVE  /\ InScan(w, k) /\ InScan(w, k)'
           /\ \A v \in Worker, j \in Pair : InScan(v, j)' <=> InScan(v, j)
           /\ \A v \in Worker, j \in Pair : v # w \/ j # k => at'[v][j] = at[v][j]
           /\ UNCHANGED <<cycle, beside>>
<1> USE ThreadMoves DEF Place, InScan
<1>1. PICK place \in Place \ {"off"} :
        Go(w, k, place) /\ at[w][k] # "off" /\ UNCHANGED <<cycle, beside>>
  BY DEF Thread, Enter, Fetch, Load, Classify, Invalid, Fail, Trip, Process
<1> QED
  BY <1>1

LEMMA ThreadSerial ==
    ASSUME ScanTypeOK, Serial, NEW w \in Worker, NEW k \in Pair, Thread(w, k)
    PROVE  Serial'
BY ThreadStays DEF Serial, Busy, cycle

LEMMA SerialStep ==
    ASSUME ScanTypeOK, Serial, [ScanNext]_scanVars
    PROVE  Serial'
<1> USE ScanConstants DEF scan
<1>1. CASE Throttled \/ Unthrottled \/ Open \/ Closed
  BY <1>1 DEF Throttled, Unthrottled, Open, Closed, Serial, Busy, InScan
<1>2. CASE Cached \/ Request \/ Timeout
  BY <1>2 DEF Cached, Request, Timeout, Serial, Busy, InScan, ScanTypeOK
<1>3. ASSUME NEW w \in Worker, Begin(w) PROVE Serial'
  <2>1. \A v \in Worker \ {w} : Busy(v)' <=> Busy(v)
    BY <1>3 DEF Begin, Busy, InScan, ScanTypeOK
  <2> QED
    BY <1>3, <2>1 DEF Begin, Serial, ScanTypeOK
<1>4. ASSUME NEW w \in Worker, Publish(w) PROVE Serial'
  <2>1. ~Busy(w)' /\ \A v \in Worker \ {w} : Busy(v)' <=> Busy(v)
    BY <1>4 DEF Publish, Busy, InScan, ScanTypeOK
  <2> QED
    BY <1>4, <2>1 DEF Publish, Serial, ScanTypeOK
<1>5. CASE Tick
  BY <1>5 DEF Tick, Serial, Busy, InScan, cycle
<1>6. CASE UNCHANGED scanVars
  BY <1>6 DEF scanVars, cycle, Serial, Busy, InScan
<1> QED
  BY <1>1, <1>2, <1>3, <1>4, <1>5, <1>6, ThreadSerial DEF ScanNext

LEMMA ThreadOwned ==
    ASSUME ScanTypeOK, Owned, NEW w \in Worker, NEW k \in Pair, Thread(w, k)
    PROVE  Owned'
<1> USE ScanConstants DEF Owned, Holding
<1>1. \A v \in Worker, j \in Pair : v # w \/ j # k => at'[v][j] = at[v][j]
  BY ThreadStays
<1>2. CASE Enter(w, k) \/ Trip(w, k)
  <2>1. at[w][k] \notin Holding /\ order' = order
    BY <1>2 DEF Enter, Trip
  <2> QED
    BY <1>1, <2>1
<1>3. CASE Fetch(w, k)
  <2>1. at'[w][k] = "load" /\ order' = [order EXCEPT ![k] = Newest(w, order[k])]
    BY <1>3, ThreadMoves DEF Fetch, Place
  <2>2. \A a, b \in Holder : <<a, b>> \in order'[k] =>
          <<a, b>> \in order[k] \/ (b = w /\ (a = w \/ \E c \in Holder : <<a, c>> \in order[k]))
    <3>1. order[k] \in SUBSET (Holder \X Holder)
      BY DEF ScanTypeOK, Holder
    <3>2. order'[k] = Newest(w, order[k])
      BY <2>1 DEF ScanTypeOK
    <3>3. \A a, b \in Holder : <<a, b>> \in Newest(w, order[k]) =>
            <<a, b>> \in order[k] \/ (b = w /\ (a = w \/ \E c \in Holder : <<a, c>> \in order[k]))
      BY <3>1, NewestPairs
    <3> QED
      BY <3>2, <3>3
  <2>3. \A j \in Pair \ {k} : order'[j] = order[j]
    BY <2>1 DEF ScanTypeOK
  <2> SUFFICES ASSUME NEW j \in Pair, NEW a \in Holder, NEW b \in Holder, <<a, b>> \in order'[j]
               PROVE  /\ a \in Worker => at'[a][j] \in Holding
                      /\ b \in Worker => at'[b][j] \in Holding
    OBVIOUS
  <2>4. CASE j # k
    BY <1>1, <2>3, <2>4
  <2>5. CASE j = k
    <3>1. a = w \/ \E c \in Holder : <<a, c>> \in order[k]
      BY <2>2, <2>5
    <3>2. b = w \/ \E c \in Holder : <<c, b>> \in order[k]
      BY <2>2, <2>5
    <3>3. \A h \in Worker : h # w => at'[h][k] = at[h][k]
      BY <1>1
    <3>4. ASSUME NEW h \in Worker, h # w,
                 (\E c \in Holder : <<h, c>> \in order[k])
                   \/ (\E c \in Holder : <<c, h>> \in order[k])
          PROVE  at'[h][k] \in Holding
      BY <3>3, <3>4 DEF Holder
    <3> QED
      BY <2>1, <2>5, <3>1, <3>2, <3>4
  <2> QED
    BY <2>4, <2>5
<1>4. CASE Invalid(w, k) \/ Fail(w, k)
  <2>1. order' = [order EXCEPT ![k] = Without(w, order[k])]
    BY <1>4 DEF Invalid, Fail
  <2>2. \A a, b \in Holder : <<a, b>> \in order'[k] => <<a, b>> \in order[k] /\ a # w /\ b # w
    BY <2>1 DEF Without, ScanTypeOK
  <2>3. \A j \in Pair \ {k} : order'[j] = order[j]
    BY <2>1 DEF ScanTypeOK
  <2> QED
    BY <1>1, <2>2, <2>3
<1>5. CASE Load(w, k) \/ Process(w, k) \/ \E r \in Regime : Classify(w, k, r)
  <2>1. at'[w][k] \in Holding /\ order' = order
    BY <1>5, ThreadMoves DEF Load, Process, Classify, Place
  <2> QED
    BY <1>1, <2>1
<1> QED
  BY <1>2, <1>3, <1>4, <1>5 DEF Thread

(* Publishing turns the frame of the scan into that of the cache.           *)
LEMMA PublishOrder ==
    ASSUME ScanTypeOK, Owned, NEW w \in Worker, Publish(w), NEW k \in Pair,
           NEW a \in Holder, NEW b \in Holder, <<a, b>> \in order'[k]
    PROVE  /\ a \in Worker => a # w /\ at[a][k] \in Holding
           /\ b \in Worker => b # w /\ at[b][k] \in Holding
           /\ a \in Worker /\ b = Cache => <<a, Cache>> \in order[k] \/ <<a, w>> \in order[k]
<1> USE ScanConstants
<1>1. CASE at[w][k] = "done"
  <2>1. <<a, b>> \in Replaced(w, order[k]) /\ order[k] \in SUBSET (Holder \X Holder)
    BY <1>1 DEF Publish, ScanTypeOK, Holder
  <2>2. PICK c \in Holder, d \in Holder : /\ <<c, d>> \in order[k] /\ c # Cache /\ d # Cache
                 /\ a = (IF c = w THEN Cache ELSE c) /\ b = (IF d = w THEN Cache ELSE d)
    BY <2>1 DEF Replaced, Without
  <2> QED
    BY <2>2 DEF Owned, Holder
<1>2. CASE at[w][k] # "done"
  <2>1. <<a, b>> \in order[k] /\ at[w][k] \notin Holding
    BY <1>2 DEF Publish, Holding
  <2> QED
    BY <2>1 DEF Owned, Holder
<1> QED
  BY <1>1, <1>2

LEMMA OwnedStep ==
    ASSUME ScanTypeOK, Owned, [ScanNext]_scanVars
    PROVE  Owned'
<1> USE ScanConstants DEF scan
<1>1. CASE \/ Throttled \/ Unthrottled \/ Open \/ Closed
           \/ Cached \/ Request \/ Timeout
  BY <1>1 DEF Throttled, Unthrottled, Open, Closed, Cached, Request, Timeout, Owned
<1>2. ASSUME NEW w \in Worker, Begin(w) PROVE Owned'
  <2>1. order' = order /\ \A v \in Worker \ {w} : at'[v] = at[v]
    BY <1>2 DEF Begin, ScanTypeOK
  <2>2. \A j \in Pair : at[w][j] \notin Holding
    BY <1>2 DEF Begin, Busy, InScan, Holding
  <2> QED
    BY <2>1, <2>2 DEF Owned
<1>3. ASSUME NEW w \in Worker, Publish(w) PROVE Owned'
  <2>1. \A v \in Worker \ {w} : at'[v] = at[v]
    BY <1>3 DEF Publish, ScanTypeOK
  <2> SUFFICES ASSUME NEW k \in Pair, NEW a \in Holder, NEW b \in Holder, <<a, b>> \in order'[k]
               PROVE  /\ a \in Worker => at'[a][k] \in Holding
                      /\ b \in Worker => at'[b][k] \in Holding
    BY DEF Owned, Holding
  <2>2. /\ a \in Worker => a # w /\ at[a][k] \in Holding
        /\ b \in Worker => b # w /\ at[b][k] \in Holding
    BY <1>3, PublishOrder
  <2> QED
    BY <2>1, <2>2
<1>4. CASE Tick \/ UNCHANGED scanVars
  BY <1>4 DEF Tick, scanVars, Owned
<1> QED
  BY <1>1, <1>2, <1>3, <1>4, ThreadOwned DEF ScanNext

(* Two scans of a pair that ran beside no abandoned one are one.            *)
LEMMA ThreadMixing ==
    ASSUME ScanTypeOK, Mixing, NEW w \in Worker, NEW k \in Pair, Thread(w, k)
    PROVE  Mixing'
<1> USE ScanConstants DEF Apart
<1> SUFFICES ASSUME NEW j \in Pair, ~beside'[j]
             PROVE  Apart(j)'
  BY DEF Mixing
<1>1. /\ Apart(j)
      /\ InScan(w, k)
      /\ \A v \in Worker, i \in Pair : InScan(v, i)' <=> InScan(v, i)
      /\ \A v \in Worker, i \in Pair : v # w \/ i # k => at'[v][i] = at[v][i]
  BY ThreadStays DEF Mixing
<1>2. CASE j # k
  <2>1. loader'[j] = loader[j] /\ scanFailures'[j] = scanFailures[j] /\ order'[j] = order[j]
    BY <1>2 DEF Thread, Enter, Fetch, Load, Classify, Invalid, Fail, Trip, Process,
       breaker, ScanTypeOK
  <2> QED
    BY <1>1, <1>2, <2>1
<1>3. CASE j = k
  <2>1. \A v, u \in Worker : InScan(v, j)' /\ InScan(u, j)' => v = u
    BY <1>1
  <2>2. \A v \in Worker : v # w => at'[v][j] = "off"
    BY <1>1, <1>3 DEF InScan
  <2>3. at'[w][j] = "classify" => loader'[j] = w
    BY <1>3, ThreadMoves DEF Thread, Enter, Fetch, Load, Classify, Invalid, Fail, Trip,
       Process, Place, ScanTypeOK
  <2>4. at'[w][j] = "trip" => scanFailures'[j] = MaxFailures
    <3>1. CASE Fail(w, k)
      <4> DEFINE n == scanFailures[k] + 1
      <4>1. at'[w][k] = "trip" => n >= MaxFailures
        BY <3>1, ThreadMoves DEF Fail, Place
      <4>2. n >= MaxFailures => scanFailures'[k] = MaxFailures
        <5>1. scanFailures \in [Pair -> 0..MaxFailures] /\ n \in Nat
          BY DEF ScanTypeOK
        <5> QED
          BY <3>1, <5>1 DEF Fail
      <4> QED
        BY <1>3, <4>1, <4>2
    <3>2. CASE ~Fail(w, k)
      <4>1. at'[w][k] # "trip"
        BY <3>2, ThreadMoves DEF Thread, Enter, Fetch, Load, Classify, Invalid, Trip,
           Process, Place
      <4> QED
        BY <1>3, <4>1
    <3> QED
      BY <3>1, <3>2
  <2>5. ASSUME NEW v \in Worker PROVE <<v, Cache>> \notin order'[j]
    <3>1. order'[j] = order[j] \/ order'[j] = Newest(w, order[j])
            \/ order'[j] = Without(w, order[j])
      BY <1>3 DEF Thread, Enter, Fetch, Load, Classify, Invalid, Fail, Trip, Process,
         ScanTypeOK
    <3> QED
      BY <1>1, <3>1 DEF Newest, Without
  <2> QED
    BY <2>1, <2>2, <2>3, <2>4, <2>5
<1> QED
  BY <1>2, <1>3

LEMMA BeginMixing ==
    ASSUME ScanTypeOK, Serial, Owned, Mixing, NEW w \in Worker, Begin(w)
    PROVE  Mixing'
<1> USE ScanConstants
<1> SUFFICES ASSUME NEW k \in Pair, ~beside'[k]
             PROVE  Apart(k)'
  BY DEF Mixing
<1>1. /\ \A v \in Worker \ {w} : at'[v] = at[v]
      /\ at[w][k] = "off" /\ at'[w][k] = IF k \in queued THEN "begin" ELSE "off"
      /\ UNCHANGED <<order, loader, scanFailures>>
  BY DEF Begin, ScanTypeOK, Busy, InScan, breaker
<1>2. CASE k \in queued
  <2>1. \A v \in Worker : Busy(v) => v \in abandoned
    BY DEF Begin, Serial, ScanTypeOK
  <2>2. ~\E v \in abandoned : InScan(v, k)
    BY <1>2 DEF Begin, ScanTypeOK
  <2>3. \A v \in Worker : ~InScan(v, k)
    BY <2>1, <2>2 DEF Busy
  <2>4. \A v \in Worker : <<v, Cache>> \notin order[k]
    BY <2>3 DEF Owned, Holder, Holding, InScan
  <2> QED
    BY <1>1, <1>2, <2>3, <2>4 DEF Apart, InScan
<1>3. CASE k \notin queued
  <2>1. Apart(k)
    BY <1>3 DEF Begin, Mixing, ScanTypeOK
  <2>2. \A v \in Worker : at'[v][k] = at[v][k]
    BY <1>1, <1>3
  <2> QED
    BY <1>1, <2>1, <2>2 DEF Apart, InScan
<1> QED
  BY <1>2, <1>3

LEMMA PublishMixing ==
    ASSUME ScanTypeOK, Owned, Mixing, NEW w \in Worker, Publish(w)
    PROVE  Mixing'
<1> USE ScanConstants
<1> SUFFICES ASSUME NEW k \in Pair, ~beside'[k]
             PROVE  Apart(k)'
  BY DEF Mixing
<1>1. Apart(k)
  BY DEF Publish, Mixing
<1>2. /\ \A v \in Worker \ {w} : at'[v] = at[v]
      /\ at'[w][k] = "off"
      /\ UNCHANGED <<loader, scanFailures>>
  BY DEF Publish, ScanTypeOK, breaker
<1>3. ASSUME NEW v \in Worker, <<v, Cache>> \in order'[k] PROVE FALSE
  <2>1. v # w
    BY <1>3, PublishOrder DEF Holder
  <2>2. <<v, Cache>> \in order[k] \/ <<v, w>> \in order[k]
    BY <1>3, PublishOrder DEF Holder
  <2>3. <<v, w>> \notin order[k]
    BY <1>1, <2>1 DEF Apart, Owned, Holder, Holding, InScan
  <2> QED
    BY <1>1, <2>2, <2>3 DEF Apart
<1> QED
  BY <1>1, <1>2, <1>3 DEF Apart, InScan

LEMMA MixingStep ==
    ASSUME ScanTypeOK, Serial, Owned, Mixing, [ScanNext]_scanVars
    PROVE  Mixing'
<1>1. CASE \/ Throttled \/ Unthrottled \/ Open \/ Closed
           \/ Cached \/ Request \/ Timeout \/ Tick \/ UNCHANGED scanVars
  <2>1. UNCHANGED <<at, loader, scanFailures, order, beside>>
    BY <1>1 DEF Throttled, Unthrottled, Open, Closed, Cached, Request, Timeout, Tick,
       scanVars, scan, breaker
  <2> QED
    BY <2>1 DEF Mixing, Apart, InScan
<1> QED
  BY <1>1, ThreadMixing, BeginMixing, PublishMixing DEF ScanNext

LEMMA ScannerInductive == ScanSpec => []ScannerInv
<1>1. ScanInit => ScannerInv
  <2>1. ScanInit => Serial /\ Owned /\ Mixing
    BY ScanConstants DEF ScanInit, Serial, Owned, Mixing, Apart, Busy, InScan
  <2> QED
    BY <2>1, ScanInitType DEF ScannerInv
<1>2. ScannerInv /\ [ScanNext]_scanVars => ScannerInv'
  BY ScanTypeStep, SerialStep, OwnedStep, MixingStep DEF ScannerInv
<1> QED
  BY <1>1, <1>2, PTL DEF ScanSpec

(* NoMixing, step by step.                                                  *)
LEMMA StepUnmixed ==
    ASSUME ScannerInv, [ScanNext]_scanVars, NEW k \in Pair,
           Regresses(k) \/ Borrows(k) \/ Unearned(k)
    PROVE  beside[k]
<1> USE ScanConstants DEF ScannerInv
<1> SUFFICES ASSUME ~beside[k]
             PROVE  FALSE
  OBVIOUS
<1>1. Apart(k)
  BY DEF Mixing
<1>2. CASE Regresses(k)
  BY <1>1, <1>2 DEF Regresses, Apart
<1>3. CASE Borrows(k)
  BY <1>1, <1>3 DEF Borrows, Apart
<1>4. CASE Unearned(k)
  <2>1. cooldown \in [Pair -> 0..Cooldown] /\ cooldown'[k] > cooldown[k]
    BY <1>4 DEF Unearned, ScanTypeOK
  <2>2. PICK w \in Worker : Trip(w, k)
    <3>1. \A n \in 0..Cooldown : ~(0 > n) /\ ~(n > n) /\ ~(n - 1 > n)
      OBVIOUS
    <3>2. ~Tick
      BY <2>1, <3>1 DEF Tick
    <3>3. cooldown' # cooldown
      BY <2>1, <3>1
    <3>4. ~\E w \in Worker, j \in Pair, r \in Regime : Classify(w, j, r)
      BY <2>1, <3>1 DEF Classify
    <3>5. PICK w \in Worker, j \in Pair : Trip(w, j)
      BY <3>2, <3>3, <3>4 DEF ScanNext, scanVars, cycle, breaker, Throttled,
         Unthrottled, Open, Closed, Cached, Request, Timeout, Begin, Publish, Thread,
         Enter, Fetch, Load, Invalid, Fail, Process
    <3>6. j = k
      BY <2>1, <3>1, <3>5 DEF Trip
    <3> QED
      BY <3>5, <3>6
  <2> QED
    BY <1>1, <1>4, <2>2 DEF Trip, Apart, Unearned
<1> QED
  BY <1>2, <1>3, <1>4

(* Unless it ran beside an abandoned scan, a pair's frames, regime and      *)
(* breaker are those of one scan: no older frame replaces a newer one in    *)
(* last_results, no thread classifies another's frame, and a breaker opens  *)
(* on its own failures only.                                                *)
THEOREM NeverMixed == ScanSpec => NoMixing
<1>1. ScannerInv /\ [ScanNext]_scanVars =>
        [\A k \in Pair :
            Regresses(k) \/ Borrows(k) \/ Unearned(k) => beside[k]]_scanVars
  BY StepUnmixed
<1> QED
  BY <1>1, ScannerInductive, PTL DEF ScanSpec, NoMixing

-----------------------------------------------------------------------------
(* The positions *)

(* No row has the form of a row.                                            *)
LEMMA NoMetaType == NoMeta \in Row
BY DEF NoMeta, Row

(* Where a turn goes on, or its end, leaves places and locals of their types. *)
LEMMA PlaceType ==
    ASSUME PositionTypeOK, NEW m \in Monitor
    PROVE  /\ \A label \in Label : To(m, label) => pc' \in [Monitor -> Label]
           /\ Done(m) => /\ pc' \in [Monitor -> Label] /\ held' \in [Monitor -> Row]
                         /\ snap' \in [Monitor -> [price : Price \cup {0}, sl : Nat]]
<1>1. \A label \in Label : To(m, label) => pc' \in [Monitor -> Label]
  BY DEF PositionTypeOK, To
<1>2. ASSUME Done(m)
      PROVE  /\ pc' \in [Monitor -> Label] /\ held' \in [Monitor -> Row]
             /\ snap' \in [Monitor -> [price : Price \cup {0}, sl : Nat]]
  <2>1. pc' \in [Monitor -> Label]
    BY <1>2, <1>1 DEF Done, Label
  <2>2. held' \in [Monitor -> Row]
    BY <1>2, NoMetaType DEF Done, PositionTypeOK
  <2>3. [price |-> 0, sl |-> 0] \in [price : Price \cup {0}, sl : Nat]
    BY PriceAssumption
  <2>4. snap' \in [Monitor -> [price : Price \cup {0}, sl : Nat]]
    BY <1>2, <2>3 DEF Done, PositionTypeOK
  <2> QED
    BY <2>1, <2>2, <2>4
<1> QED
  BY <1>1, <1>2

(* What a modification leaves behind.                                       *)
LEMMA ModifiedType ==
    ASSUME NEW stop \in Int, Modified(stop)
    PROVE  sl' \in Nat /\ failing' = FALSE
BY DEF Modified

LEMMA MissedType ==
    ASSUME PositionTypeOK, NEW m \in Monitor, NEW label \in Label, Missed(m, label)
    PROVE  /\ sl' \in Nat /\ failing' \in BOOLEAN
           /\ pc' \in [Monitor -> Label] /\ held' \in [Monitor -> Row]
           /\ snap' \in [Monitor -> [price : Price \cup {0}, sl : Nat]]
<1>1. sl' \in Nat /\ failing' \in BOOLEAN
  BY DEF Missed, PositionTypeOK
<1>2. CASE Done(m)
  BY <1>1, <1>2, PlaceType
<1>3. CASE To(m, label) /\ UNCHANGED <<snap, held>>
  BY <1>1, <1>3, PlaceType DEF PositionTypeOK
<1> QED
  BY <1>1, <1>2, <1>3 DEF Missed

LEMMA Stops ==
    ASSUME PositionTypeOK, NEW m \in Monitor
    PROVE  /\ Entry + Cost \in Int
           /\ marketRegime \in DOMAIN TrailDistance => TrailingStop(m) \in Int
           /\ marketRegime \in DOMAIN StopDistance =>
                Entry - Side * StopDistance[marketRegime] \in Int
<1>1. Entry \in Int /\ Cost \in Int /\ Side \in {1, -1} /\ snap[m].price \in Int
  BY PriceAssumption, ConfigAssumption DEF PositionTypeOK
<1>2. \A d \in Int : Side * d \in Int /\ (Side * d = d \/ Side * d = -d)
  BY <1>1
<1>3. marketRegime \in DOMAIN TrailDistance => TrailDistance[marketRegime] \in Int
  BY ConfigAssumption
<1>4. marketRegime \in DOMAIN StopDistance => StopDistance[marketRegime] \in Int
  BY ConfigAssumption
<1> QED
  BY <1>1, <1>2, <1>3, <1>4 DEF TrailingStop

LEMMA WorldType ==
    ASSUME PositionTypeOK, World
    PROVE  PositionTypeOK'
<1> USE DEF World, PositionTypeOK, stored, memory
<1>1. CASE Quote
  BY <1>1 DEF Quote
<1>2. CASE Shift
  BY <1>2 DEF Shift
<1>3. CASE Hour
  <2>1. age' \in 0..Oldest
    BY <1>3, ConfigAssumption DEF Hour
  <2> QED
    BY <1>3, <2>1 DEF Hour
<1>4. CASE Leave
  <2>1. 0 \in 0..Oldest
    BY ConfigAssumption
  <2> QED
    BY <1>4, <2>1 DEF Leave, Gone
<1> QED
  BY <1>1, <1>2, <1>3, <1>4

LEMMA ExecutorType ==
    ASSUME PositionTypeOK, ExecutorSaves
    PROVE  PositionTypeOK'
<1>1. meta' \in Row
  <2>1. \A risk \in ComputedRisk \cup {NoRisk}, r \in SignalRegime, sound \in BOOLEAN :
          [risk |-> risk, entered |-> r, sound |-> sound, row |-> TRUE] \in Row
    BY ConfigAssumption DEF Row
  <2> QED
    BY <2>1 DEF ExecutorSaves, PositionTypeOK
<1> QED
  BY <1>1 DEF ExecutorSaves, PositionTypeOK, market, memory

LEMMA SyncType ==
    ASSUME PositionTypeOK, NEW m \in Monitor,
           Start(m) \/ Sync(m) \/ SyncSave(m) \/ CountSynced(m)
    PROVE  PositionTypeOK'
<1>1. CASE Start(m)
  <2>1. [price |-> price, sl |-> sl] \in [price : Price \cup {0}, sl : Nat]
    BY PriceAssumption DEF PositionTypeOK
  <2>2. snap' \in [Monitor -> [price : Price \cup {0}, sl : Nat]]
    BY <1>1, <2>1 DEF Start, PositionTypeOK
  <2> QED
    BY <1>1, <2>2, PlaceType DEF Start, PositionTypeOK, market, stored, memory, Label
<1>2. CASE Sync(m)
  <2>1. Estimate(m) \in Nat
    <3>1. snap[m].sl \in Nat /\ Entry \in Nat
      BY PriceAssumption DEF PositionTypeOK
    <3> QED
      BY <3>1 DEF Estimate, Abs
  <2>2. [risk |-> Estimate(m), entered |-> marketRegime, sound |-> TRUE, row |-> TRUE]
          \in Row
    BY <2>1 DEF Row, PositionTypeOK
  <2>3. snap' \in [Monitor -> [price : Price \cup {0}, sl : Nat]]
    BY <1>2 DEF Sync, PositionTypeOK
  <2>4. held' \in [Monitor -> Row]
    BY <1>2, <2>2 DEF Sync, PositionTypeOK
  <2>5. pc' \in [Monitor -> Label]
    BY <1>2, PlaceType DEF Sync, Label
  <2> QED
    BY <1>2, <2>3, <2>4, <2>5 DEF Sync, PositionTypeOK, market, stored, memory
<1>3. CASE SyncSave(m)
  <2>1. pc' \in [Monitor -> Label]
    BY <1>3, PlaceType DEF SyncSave, Label
  <2>2. held' \in [Monitor -> Row] /\ meta' \in Row
    <3>1. NoMeta \in Row /\ held \in [Monitor -> Row] /\ meta \in Row
      BY NoMetaType DEF PositionTypeOK
    <3>2. held' = [held EXCEPT ![m] = NoMeta] /\ meta' \in {meta, held[m]}
      BY <1>3 DEF SyncSave
    <3> QED
      BY <3>1, <3>2
  <2> QED
    BY <1>3, <2>1, <2>2 DEF SyncSave, PositionTypeOK, market, memory
<1>4. CASE CountSynced(m)
  BY <1>4, PlaceType DEF CountSynced, PositionTypeOK, market, stored, Label
<1> QED
  BY <1>1, <1>2, <1>3, <1>4

LEMMA LimitType ==
    ASSUME PositionTypeOK, NEW m \in Monitor,
           Drawdown(m) \/ Stale(m) \/ CloseOk(m) \/ CloseFails(m)
    PROVE  PositionTypeOK'
<1>1. ASSUME NEW beyond \in BOOLEAN, NEW label \in Label, Limited(m, beyond, label)
      PROVE  /\ pc' \in [Monitor -> Label] /\ held' \in [Monitor -> Row]
             /\ snap' \in [Monitor -> [price : Price \cup {0}, sl : Nat]]
  BY <1>1, PlaceType DEF Limited, PositionTypeOK, Label
<1>2. CASE Drawdown(m)
  <2>1. Done(m) \/ \E beyond \in BOOLEAN : Limited(m, beyond, "stale")
    BY <1>2 DEF Drawdown, Exceeds
  <2>2. /\ pc' \in [Monitor -> Label] /\ held' \in [Monitor -> Row]
        /\ snap' \in [Monitor -> [price : Price \cup {0}, sl : Nat]]
    BY <1>1, <2>1, PlaceType DEF Label
  <2> QED
    BY <1>2, <2>2 DEF Drawdown, PositionTypeOK, market, stored, memory
<1>3. CASE Stale(m)
  <2>1. (meta.row /\ TooOld) \in BOOLEAN /\ "breakeven" \in Label
    BY DEF Label
  <2>2. /\ pc' \in [Monitor -> Label] /\ held' \in [Monitor -> Row]
        /\ snap' \in [Monitor -> [price : Price \cup {0}, sl : Nat]]
    BY <1>1, <1>3, <2>1 DEF Stale
  <2> QED
    BY <1>3, <2>2 DEF Stale, PositionTypeOK, market, stored, memory
<1>4. CASE CloseOk(m)
  <2>1. 0 \in 0..Oldest
    BY ConfigAssumption
  <2>2. /\ pc' \in [Monitor -> Label] /\ held' \in [Monitor -> Row]
        /\ snap' \in [Monitor -> [price : Price \cup {0}, sl : Nat]]
    BY <1>4, PlaceType DEF CloseOk
  <2> QED
    BY <1>4, <2>1, <2>2 DEF CloseOk, Gone, PositionTypeOK, stored, memory
<1>5. CASE CloseFails(m)
  BY <1>5, PlaceType DEF CloseFails, PositionTypeOK, market, stored, memory
<1> QED
  BY <1>2, <1>3, <1>4, <1>5

LEMMA StopType ==
    ASSUME PositionTypeOK, NEW m \in Monitor,
           Breakeven(m) \/ Discard(m) \/ Forget(m) \/ Move(m) \/ Trail(m)
    PROVE  PositionTypeOK'
<1>1. CASE Breakeven(m)
  BY <1>1, PlaceType DEF Breakeven, PositionTypeOK, market, stored, memory, Label
<1>2. CASE Discard(m)
  BY <1>2, PlaceType, NoMetaType DEF Discard, PositionTypeOK, market, memory, Label
<1>3. CASE Move(m)
  <2>1. sl' \in Nat /\ failing' \in BOOLEAN
    BY <1>3, Stops, ModifiedType, MissedType DEF Move, Label
  <2>2. /\ pc' \in [Monitor -> Label] /\ held' \in [Monitor -> Row]
        /\ snap' \in [Monitor -> [price : Price \cup {0}, sl : Nat]]
    BY <1>3, MissedType, PlaceType DEF Move, Label, PositionTypeOK
  <2> QED
    BY <1>3, <2>1, <2>2 DEF Move, PositionTypeOK, stored
<1>4. CASE Trail(m)
  <2>1. sl' \in Nat /\ failing' \in BOOLEAN
    BY <1>4, Stops, ModifiedType, MissedType DEF Trail, Trails, Label, PositionTypeOK
  <2>2. /\ pc' \in [Monitor -> Label] /\ held' \in [Monitor -> Row]
        /\ snap' \in [Monitor -> [price : Price \cup {0}, sl : Nat]]
    BY <1>4, MissedType, PlaceType DEF Trail, Label, PositionTypeOK
  <2> QED
    BY <1>4, <2>1, <2>2 DEF Trail, PositionTypeOK, stored
<1>5. CASE Forget(m)
  BY <1>5, PlaceType DEF Forget, PositionTypeOK, market, stored, Label
<1> QED
  BY <1>1, <1>2, <1>3, <1>4, <1>5

LEMMA AdjustType ==
    ASSUME PositionTypeOK, NEW m \in Monitor, RegimeCheck(m) \/ Persist(m) \/ Adjust(m)
    PROVE  PositionTypeOK'
<1>1. CASE RegimeCheck(m)
  <2>1. CASE Adjusts /\ ~FreezeLevel
    <3>1. 0 \in Price \cup {0}
      BY PriceAssumption
    <3>2. snap' \in [Monitor -> [price : Price \cup {0}, sl : Nat]]
      BY <1>1, <2>1, <3>1 DEF RegimeCheck, PositionTypeOK
    <3> QED
      BY <1>1, <2>1, <3>2, PlaceType DEF RegimeCheck, PositionTypeOK, market, stored,
         memory, Label
  <2>2. CASE ~(Adjusts /\ ~FreezeLevel)
    BY <1>1, <2>2, PlaceType DEF RegimeCheck, PositionTypeOK, market, stored, memory
  <2> QED
    BY <2>1, <2>2
<1>2. CASE Persist(m)
  <2>1. /\ pc' \in [Monitor -> Label] /\ held' \in [Monitor -> Row]
        /\ snap' \in [Monitor -> [price : Price \cup {0}, sl : Nat]]
    BY <1>2, PlaceType, NoMetaType DEF Persist, Label, PositionTypeOK
  <2> QED
    BY <1>2, <2>1 DEF Persist, PositionTypeOK, market, memory
<1>3. CASE Adjust(m)
  <2>1. sl' \in Nat /\ failing' \in BOOLEAN
    BY <1>3, Stops, ModifiedType DEF Adjust, PositionTypeOK
  <2> QED
    BY <1>3, <2>1, PlaceType DEF Adjust, PositionTypeOK, stored
<1> QED
  BY <1>1, <1>2, <1>3

LEMMA PositionTypeStep ==
    ASSUME PositionTypeOK, [PositionNext]_positionVars
    PROVE  PositionTypeOK'
<1>1. ASSUME NEW m \in Monitor, Turn(m) PROVE PositionTypeOK'
  BY <1>1, SyncType, LimitType, StopType, AdjustType DEF Turn
<1>2. CASE UNCHANGED positionVars
  BY <1>2 DEF positionVars, PositionTypeOK
<1> QED
  BY <1>1, <1>2, WorldType, ExecutorType, SyncType DEF PositionNext

(* A monitor that is to write a row has one to write, and one that is to    *)
(* count the ticket as synced has its row, or had it deleted.               *)
Writes == \A m \in Monitor : pc[m] \in {"save", "persist"} => held[m].row
Marks  == \A m \in Monitor : pc[m] = "mark" => meta.row \/ m \in crossed

RowInv == Writes /\ Marks /\ SyncedHasRow

(* What the steps leave of it that write nothing. *)
LEMMA RowKept ==
    ASSUME PositionTypeOK, RowInv, NEW m \in Monitor, NEW place, To(m, place),
           \A n \in Monitor \ {m} : held'[n] = held[n],
           place \in {"save", "persist"} => held'[m].row,
           place # "mark", pc[m] # "forget",
           meta' = meta, synced' = synced, crossed' = crossed
    PROVE  RowInv'
<1>1. pc'[m] = place /\ \A n \in Monitor \ {m} : pc'[n] = pc[n]
  BY DEF To, PositionTypeOK
<1>2. Writes' /\ Marks'
  BY <1>1 DEF RowInv, Writes, Marks
<1>3. SyncedHasRow'
  BY <1>1 DEF RowInv, SyncedHasRow
<1> QED
  BY <1>2, <1>3 DEF RowInv

LEMMA RowStep ==
    ASSUME PositionTypeOK, RowInv, [PositionNext]_positionVars
    PROVE  RowInv'
<1>1. CASE World \/ UNCHANGED positionVars
  BY <1>1 DEF World, positionVars, stored, memory, RowInv, Writes, Marks, SyncedHasRow
<1>2. CASE ExecutorSaves
  BY <1>2 DEF ExecutorSaves, memory, RowInv, Writes, Marks, SyncedHasRow
<1>3. ASSUME NEW m \in Monitor, Start(m) \/ Turn(m) PROVE RowInv'
  <2>1. \A n \in Monitor \ {m} : pc'[n] = pc[n] /\ held'[n] = held[n]
    BY <1>3 DEF Start, Turn, Sync, SyncSave, CountSynced, Drawdown, Stale, Limited, CloseOk, CloseFails,
       Breakeven, Discard, Forget, Move, Trail, RegimeCheck, Persist, Adjust, Missed, Done, To,
       PositionTypeOK
  <2>2. CASE Sync(m)
    <3>1. PICK place \in {"save", "drawdown"} : To(m, place) /\ (place = "save" => held'[m].row)
      BY <2>2 DEF Sync, PositionTypeOK
    <3> QED
      BY <2>1, <2>2, <3>1, RowKept DEF Sync, stored, memory
  <2>3. CASE SyncSave(m)
    <3>1. held[m].row /\ meta' \in {meta, held[m]} /\ synced' = synced /\ crossed' = crossed
      BY <2>3 DEF SyncSave, RowInv, Writes, memory
    <3>2. /\ pc[m] = "save" /\ pc'[m] \in {"mark", "drawdown"}
          /\ pc'[m] = "mark" => meta' = held[m]
      BY <2>3 DEF SyncSave, To, PositionTypeOK
    <3>3. meta.row => meta'.row
      BY <3>1
    <3>4. Writes' /\ Marks'
      BY <2>1, <3>1, <3>2, <3>3 DEF RowInv, Writes, Marks
    <3>5. SyncedHasRow'
      BY <2>1, <3>1, <3>2, <3>3 DEF RowInv, SyncedHasRow
    <3> QED
      BY <3>4, <3>5 DEF RowInv
  <2>4. CASE CountSynced(m)
    <3>1. /\ pc[m] = "mark" /\ pc'[m] = "drawdown" /\ synced' = TRUE
          /\ meta' = meta /\ crossed' = crossed
      BY <2>4 DEF CountSynced, To, PositionTypeOK, stored
    <3>2. Writes' /\ Marks'
      BY <2>1, <3>1 DEF RowInv, Writes, Marks
    <3>3. SyncedHasRow'
      BY <3>1 DEF RowInv, Marks, SyncedHasRow
    <3> QED
      BY <3>2, <3>3 DEF RowInv
  <2>5. CASE Discard(m)
    <3>1. /\ pc[m] = "discard" /\ pc'[m] = "forget" /\ synced' = synced
          /\ \/ meta' = meta /\ crossed' = crossed
             \/ crossed' = crossed \cup {u \in Monitor : pc[u] = "mark"}
      BY <2>5 DEF Discard, To, PositionTypeOK, memory
    <3>2. Writes' /\ Marks'
      BY <2>1, <3>1 DEF RowInv, Writes, Marks
    <3>3. SyncedHasRow'
      BY <3>1 DEF SyncedHasRow
    <3> QED
      BY <3>2, <3>3 DEF RowInv
  <2>6. CASE Forget(m)
    <3>1. /\ pc'[m] = "trail" /\ synced' = FALSE /\ meta' = meta
          /\ crossed' = {u \in crossed : pc[u] = "mark"}
      BY <2>6 DEF Forget, To, PositionTypeOK, stored
    <3>2. Writes' /\ Marks'
      BY <2>1, <3>1 DEF RowInv, Writes, Marks
    <3> QED
      BY <3>1, <3>2 DEF RowInv, SyncedHasRow
  <2>7. CASE RegimeCheck(m)
    <3>1. PICK place \in {"persist", "idle"} : To(m, place) /\ (place = "persist" => held'[m].row)
      BY <2>7 DEF RegimeCheck, Adjusts, Done, PositionTypeOK
    <3> QED
      BY <2>1, <2>7, <3>1, RowKept DEF RegimeCheck, stored, memory
  <2>8. CASE Persist(m)
    <3>1. held[m].row /\ meta' \in {meta, held[m]} /\ synced' = synced /\ crossed' = crossed
      BY <2>8 DEF Persist, RowInv, Writes, memory
    <3>2. pc[m] = "persist" /\ pc'[m] \in {"adjust", "idle"}
      BY <2>8 DEF Persist, Done, To, PositionTypeOK
    <3>3. meta.row => meta'.row
      BY <3>1
    <3>4. Writes' /\ Marks'
      BY <2>1, <3>1, <3>2, <3>3 DEF RowInv, Writes, Marks
    <3>5. SyncedHasRow'
      BY <2>1, <3>1, <3>2, <3>3 DEF RowInv, SyncedHasRow
    <3> QED
      BY <3>4, <3>5 DEF RowInv
  <2>9. CASE \/ Start(m) \/ Drawdown(m) \/ Stale(m)
             \/ CloseOk(m) \/ CloseFails(m)
             \/ Breakeven(m) \/ Move(m) \/ Trail(m) \/ Adjust(m)
    <3>1. PICK place \in Label \ {"save", "persist", "mark"} : To(m, place)
      BY <2>9 DEF Start, Drawdown, Stale, Limited, CloseOk, CloseFails, Breakeven, Move, Trail,
         Adjust, Missed, Done, Label
    <3>2. meta' = meta /\ synced' = synced /\ crossed' = crossed /\ pc[m] # "forget"
      BY <2>9 DEF Start, Drawdown, Stale, CloseOk, CloseFails, Breakeven, Move, Trail,
         Adjust, stored, memory
    <3> QED
      BY <2>1, <3>1, <3>2, RowKept
  <2> QED
    BY <1>3, <2>2, <2>3, <2>4, <2>5, <2>6, <2>7, <2>8, <2>9 DEF Turn
<1> QED
  BY <1>1, <1>2, <1>3 DEF PositionNext

LEMMA PositionInitType ==
    PositionInit => PositionTypeOK /\ RowInv
<1> SUFFICES ASSUME PositionInit PROVE PositionTypeOK /\ RowInv
  OBVIOUS
<1>1. price \in Price /\ age \in 0..Oldest /\ 0 \in Price \cup {0}
  BY PriceAssumption, ConfigAssumption DEF PositionInit
<1>2. sl \in Nat
  <2>1. Entry \in Int /\ Side \in {1, -1} /\ InitialStop \in 0..Entry
    BY PriceAssumption, ConfigAssumption
  <2>2. Entry - Side * InitialStop \in Nat
    <3>1. CASE Side = 1
      BY <2>1, <3>1
    <3>2. CASE Side = -1
      BY <2>1, <3>2
    <3> QED
      BY <2>1, <3>1, <3>2
  <2> QED
    BY <2>2 DEF PositionInit
<1>3. snap \in [Monitor -> [price : Price \cup {0}, sl : Nat]]
  BY <1>1 DEF PositionInit
<1> QED
  <2>1. meta \in Row /\ held \in [Monitor -> Row]
    BY NoMetaType DEF PositionInit
  <2>2. pc \in [Monitor -> Label]
    BY DEF PositionInit, Label
  <2>3. PositionTypeOK
    <3>1. /\ positionOpen \in BOOLEAN /\ marketRegime \in MarketRegime
          /\ filled \in BOOLEAN /\ synced \in BOOLEAN
      BY Zenon DEF PositionInit
    <3>2. failing \in BOOLEAN /\ crossed \subseteq Monitor
      BY DEF PositionInit
    <3> QED
      BY <1>1, <1>2, <1>3, <2>1, <2>2, <3>1, <3>2 DEF PositionTypeOK
  <2>4. RowInv
    BY DEF PositionInit, RowInv, Writes, Marks, SyncedHasRow
  <2> QED
    BY <2>3, <2>4

(* The variables of PositionManager keep their types: every stop is a price *)
(* or none, whatever is trailed, moved to breakeven or adjusted.            *)
THEOREM PositionTypeCorrect ==
    PositionSpec => []PositionTypeOK
BY PositionInitType, PositionTypeStep, PTL DEF PositionSpec

(* A ticket that _sync_orphan_position remembers has its row or is about to *)
(* be forgotten, for any number of monitors: neither the executor nor a     *)
(* failed write nor another monitor takes the row away behind its back, but *)
(* one that deletes it and forgets the ticket between the commit of the row *)
(* and the counting of the ticket as synced.                                *)
THEOREM SyncedAlwaysHasRow ==
    PositionSpec => []SyncedHasRow
<1>1. PositionTypeOK /\ RowInv /\ [PositionNext]_positionVars =>
        (PositionTypeOK /\ RowInv)'
  BY PositionTypeStep, RowStep
<1>2. RowInv => SyncedHasRow
  BY DEF RowInv
<1> QED
  BY <1>1, <1>2, PositionInitType, PTL DEF PositionSpec
=============================================================================
