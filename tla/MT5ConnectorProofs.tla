------------------------- MODULE MT5ConnectorProofs -------------------------
(* Proofs about MT5Connector for every set of instances, accounts, chains   *)
(* of attempts and callers, wherever the terminal was left, and for every   *)
(* bound on timeouts and drops.                                             *)
EXTENDS MT5Connector, SequenceTheorems, TLAPS

-----------------------------------------------------------------------------
(* Types.  The library calls and the changes of one thread's place are the  *)
(* parts every action is made of.                                           *)

LibraryOK == terminal \in Accounts /\ attached \in BOOLEAN
FlagsOK ==
    /\ state \in [Conns -> {"DISCONNECTED", "CONNECTING", "CONNECTED", "FAILED"}]
    /\ connected \in [Conns -> BOOLEAN] /\ demo \in [Conns -> BOOLEAN]
ExecutorOK ==
    /\ queue \in [Conns -> Seq(Threads \cup {Nobody})]
    /\ task \in [Conns -> Threads \cup {Nobody}]
    /\ exec \in [Conns -> {"idle", "init", "login", "verify", "finish"}]

LEMMA OfType == \A t \in Threads : Of[t] \in Conns
  BY MT5Assumption DEF Threads

LEMMA InitType == Init => TypeOK
<1> SUFFICES ASSUME Init PROVE TypeOK
  OBVIOUS
<1>1. /\ timeouts \in 0..MaxTimeouts /\ drops \in 0..MaxDrops
      /\ terminal \in Accounts /\ sent \subseteq Conns \X Accounts
  BY MT5Assumption DEF Init, Accounts
<1>2. FlagsOK
  BY DEF Init, FlagsOK
<1>3. ExecutorOK
  BY DEF Init, ExecutorOK
<1> QED
  BY <1>1, <1>2, <1>3 DEF Init, TypeOK, FlagsOK, ExecutorOK

LEMMA InitializeType ==
  ASSUME TypeOK, NEW ok \in BOOLEAN, Initialize(ok) PROVE LibraryOK'
  BY DEF TypeOK, Initialize, LibraryOK

LEMMA LoginType ==
  ASSUME TypeOK, NEW c \in Conns, NEW ok \in BOOLEAN, Login(Account[c], ok)
  PROVE  LibraryOK'
  BY DEF TypeOK, Login, LibraryOK, Accounts

LEMMA AcceptType ==
  ASSUME TypeOK, NEW c \in Conns, NEW ok \in BOOLEAN, Accept(c, ok)
  PROVE  LibraryOK' /\ FlagsOK'
  BY DEF TypeOK, Accept, Mark, library, LibraryOK, FlagsOK

LEMMA RejectType ==
  ASSUME TypeOK, NEW c \in Conns, NEW ok \in BOOLEAN, Reject(c, ok)
  PROVE  LibraryOK' /\ FlagsOK'
  BY DEF TypeOK, Reject, library, flags, LibraryOK, FlagsOK

(* A refusal writes FAILED and nothing else. *)
LEMMA RefusedType ==
  ASSUME TypeOK, NEW c \in Conns, Refused(c)
  PROVE  FlagsOK' /\ UNCHANGED <<pc, executor>>
  BY DEF TypeOK, Refused, Mark, FlagsOK, executor

LEMMA ChainType ==
  ASSUME TypeOK, NEW t \in Chains, Connect(t) \/ Chain(t) PROVE TypeOK'
<1> USE DEF flags, library, executor, world
<1>0. t \in Threads /\ Of[t] \in Conns
  BY OfType DEF Threads
<1>1. CASE Connect(t)
  <2>1. CASE Refused(Of[t])
    BY <1>0, <1>1, <2>1, RefusedType DEF Connect, FlagsOK, TypeOK
  <2>2. CASE ~Refused(Of[t])
    BY <1>0, <1>1, <2>2 DEF Connect, To, TypeOK
  <2> QED
    BY <2>1, <2>2
<1>2. CASE Spawn(t)
  BY <1>0, <1>2 DEF Spawn, To, Mark, TypeOK, Working
<1>3. CASE RawInit(t)
  BY <1>0, <1>3, InitializeType DEF RawInit, To, TypeOK, Working, LibraryOK
<1>4. CASE RawAgain(t)
  BY <1>0, <1>4, InitializeType DEF RawAgain, To, TypeOK, Working, LibraryOK
<1>5. CASE RawLogin(t)
  BY <1>0, <1>5, LoginType DEF RawLogin, To, TypeOK, Working, LibraryOK
<1>6. CASE RawVerify(t)
  <2>1. LibraryOK' /\ FlagsOK'
    BY <1>0, <1>6, AcceptType, RejectType DEF RawVerify
  <2> QED
    BY <1>0, <1>6, <2>1 DEF RawVerify, To, TypeOK, Working, LibraryOK, FlagsOK
<1>7. CASE RawFinish(t)
  BY <1>0, <1>7 DEF RawFinish, To, TypeOK, Working
<1>8. CASE Fail(t)
  <2>1. pc' \in [Threads -> Working \cup {"free", "ask", "won"}]
    BY <1>8 DEF Fail, Cancelled, TypeOK, Working
  <2> QED
    BY <1>0, <1>8, <2>1 DEF Fail, Mark, TypeOK
<1>9. CASE Arm(t)
  BY <1>0, <1>9 DEF Arm, To, TypeOK, Working
<1>10. CASE Fire(t)
  <2>1. queue' \in [Conns -> Seq(Threads \cup {Nobody})]
    BY <1>0, <1>10 DEF Fire, Submit, TypeOK
  <2> QED
    BY <1>0, <1>10, <2>1 DEF Fire, Submit, To, Mark, TypeOK, Working
<1>11. CASE Won(t)
  BY <1>0, <1>11 DEF Won, To, TypeOK
<1> QED
  BY <1>1, <1>2, <1>3, <1>4, <1>5, <1>6, <1>7, <1>8, <1>9, <1>10, <1>11 DEF Chain

LEMMA CallerType ==
  ASSUME TypeOK, NEW t \in Callers, ConnectBlocking(t) \/ Answered(t)
  PROVE  TypeOK'
<1> USE DEF flags, library, executor, world
<1>0. t \in Threads /\ Of[t] \in Conns
  BY OfType DEF Threads
<1>1. CASE ConnectBlocking(t)
  <2>1. CASE Refused(Of[t])
    BY <1>0, <1>1, <2>1, RefusedType DEF ConnectBlocking, FlagsOK, TypeOK
  <2>2. CASE Submit(t) /\ To(t, "wait") /\ UNCHANGED flags
    <3>1. queue' \in [Conns -> Seq(Threads \cup {Nobody})]
      BY <1>0, <2>2 DEF Submit, TypeOK
    <3> QED
      BY <1>0, <1>1, <2>2, <3>1 DEF ConnectBlocking, Submit, To, TypeOK, Working
  <2> QED
    BY <1>1, <2>1, <2>2 DEF ConnectBlocking
<1>2. CASE Answered(t)
  BY <1>0, <1>2 DEF Answered, To, TypeOK
<1> QED
  BY <1>1, <1>2

(* The queue keeps its length and loses the name of the thread. *)
LEMMA GiveUpType ==
  ASSUME TypeOK, NEW t \in Threads, GiveUp(t) PROVE TypeOK'
<1> USE DEF flags, library, executor, world
<1>0. Of[t] \in Conns
  BY OfType
<1>1. queue' \in [Conns -> Seq(Threads \cup {Nobody})]
  <2> DEFINE q == queue[Of[t]]
             qq == [i \in DOMAIN q |-> IF q[i] = t THEN Nobody ELSE q[i]]
  <2>1. q \in Seq(Threads \cup {Nobody})
    BY <1>0 DEF TypeOK
  <2>2. qq \in [1..Len(q) -> Threads \cup {Nobody}] /\ Len(q) \in Nat
    BY <2>1, LenProperties
  <2>3. qq \in Seq(Threads \cup {Nobody})
    BY <2>2, SeqDef
  <2>4. queue' = [queue EXCEPT ![Of[t]] = qq]
    BY DEF GiveUp
  <2> HIDE DEF qq
  <2> QED
    BY <2>3, <2>4 DEF TypeOK
<1>2. task' \in [Conns -> Threads \cup {Nobody}]
  BY <1>0 DEF GiveUp, TypeOK
<1>3. timeouts' \in 0..MaxTimeouts
  BY MT5Assumption DEF GiveUp, TypeOK
<1> QED
  BY <1>0, <1>1, <1>2, <1>3 DEF GiveUp, To, TypeOK, Working

LEMMA AnswerType ==
  ASSUME TypeOK, NEW c \in Conns, NEW ok \in BOOLEAN, Answer(c, ok)
  PROVE  ExecutorOK' /\ pc' \in [Threads -> Working \cup {"free", "ask", "won"}]
  BY DEF Answer, TypeOK, ExecutorOK, Working

LEMMA ProceedType ==
  ASSUME TypeOK, NEW c \in Conns, NEW place \in {"login", "verify", "finish"},
         Proceed(c, place)
  PROVE  ExecutorOK' /\ pc' \in [Threads -> Working \cup {"free", "ask", "won"}]
  BY DEF Proceed, TypeOK, ExecutorOK

LEMMA ExecutorType ==
  ASSUME TypeOK, NEW c \in Conns, Executor(c) PROVE TypeOK'
<1> USE DEF flags, world
<1>1. CASE Take(c)
  <2>1. Head(queue[c]) \in Threads \cup {Nobody} /\ Tail(queue[c]) \in Seq(Threads \cup {Nobody})
    BY <1>1 DEF Take, TypeOK
  <2>2. queue' \in [Conns -> Seq(Threads \cup {Nobody})]
    BY <1>1, <2>1 DEF Take, TypeOK
  <2> QED
    BY <1>1, <2>1, <2>2 DEF Take, TypeOK, library
<1>2. CASE ExecInit(c)
  <2>1. LibraryOK' /\ ExecutorOK' /\ pc' \in [Threads -> Working \cup {"free", "ask", "won"}]
    BY <1>2, InitializeType, ProceedType, AnswerType DEF ExecInit
  <2> QED
    BY <1>2, <2>1 DEF ExecInit, TypeOK, LibraryOK, ExecutorOK
<1>3. CASE ExecLogin(c)
  <2>1. LibraryOK'
    BY <1>3, LoginType DEF ExecLogin, library, LibraryOK, TypeOK
  <2>2. ExecutorOK' /\ pc' \in [Threads -> Working \cup {"free", "ask", "won"}]
    BY <1>3, ProceedType, AnswerType DEF ExecLogin
  <2> QED
    BY <1>3, <2>1, <2>2 DEF ExecLogin, TypeOK, LibraryOK, ExecutorOK
<1>4. CASE ExecVerify(c)
  <2>1. LibraryOK' /\ FlagsOK'
    BY <1>4, AcceptType, RejectType DEF ExecVerify
  <2>2. ExecutorOK' /\ pc' \in [Threads -> Working \cup {"free", "ask", "won"}]
    BY <1>4, ProceedType, AnswerType DEF ExecVerify
  <2> QED
    BY <1>4, <2>1, <2>2 DEF ExecVerify, TypeOK, LibraryOK, ExecutorOK, FlagsOK
<1>5. CASE ExecFinish(c)
  <2>1. ExecutorOK' /\ pc' \in [Threads -> Working \cup {"free", "ask", "won"}]
    BY <1>5, AnswerType DEF ExecFinish, TypeOK
  <2> QED
    BY <1>5, <2>1 DEF ExecFinish, TypeOK, ExecutorOK, library
<1> QED
  BY <1>1, <1>2, <1>3, <1>4, <1>5 DEF Executor

LEMMA OrderType ==
  ASSUME TypeOK, NEW c \in Conns, Disconnect(c) \/ Validate(c) \/ OrderSend(c)
  PROVE  TypeOK'
<1> USE DEF flags, library, executor, world
<1>1. CASE Disconnect(c)
  BY <1>1 DEF Disconnect, TypeOK
<1>2. CASE Validate(c)
  BY <1>2 DEF Validate, TypeOK
<1>3. CASE OrderSend(c)
  BY <1>3 DEF OrderSend, TypeOK
<1> QED
  BY <1>1, <1>2, <1>3

LEMMA TypeStep == ASSUME TypeOK, [Next]_vars PROVE TypeOK'
<1> USE DEF flags, library, executor, world
<1>1. CASE Drop
  <2>1. drops' \in 0..MaxDrops
    BY <1>1, MT5Assumption DEF Drop, TypeOK
  <2> QED
    BY <1>1, <2>1 DEF Drop, TypeOK
<1>2. CASE Return
  BY <1>2 DEF Return, TypeOK
<1>3. CASE UNCHANGED vars
  BY <1>3 DEF vars, TypeOK
<1> QED
  BY <1>1, <1>2, <1>3, ChainType, CallerType, GiveUpType, ExecutorType, OrderType
  DEF Next

(* Every variable stays in its set, for every number of instances and of   *)
(* threads that connect, retry and wait.                                    *)
THEOREM TypeCorrect == Spec => []TypeOK
  BY InitType, TypeStep, PTL DEF Spec

-----------------------------------------------------------------------------
(* The executor and those who wait on it.  Every task that still has a      *)
(* submitter has one who waits, on the executor of his own instance, and    *)
(* nobody waits without a task: GiveUp takes the name out of the queue,     *)
(* Answer ends the wait of the task that ran, and no submitter has two      *)
(* tasks, so that no answer reaches a thread that does not expect it.       *)

Waits(t) ==
    \/ task[Of[t]] = t
    \/ \E i \in DOMAIN queue[Of[t]] : queue[Of[t]][i] = t

QueueOwed ==
    \A c \in Conns : \A i \in DOMAIN queue[c] : queue[c][i] # Nobody =>
        /\ Of[queue[c][i]] = c /\ pc[queue[c][i]] = "wait"
        /\ task[c] # queue[c][i]
        /\ \A j \in DOMAIN queue[c] : queue[c][j] = queue[c][i] => j = i
TaskOwed ==
    \A c \in Conns : task[c] # Nobody =>
        Of[task[c]] = c /\ pc[task[c]] = "wait" /\ exec[c] # "idle"
WaiterOwed == \A t \in Threads : pc[t] = "wait" => Waits(t)

Owed == QueueOwed /\ TaskOwed /\ WaiterOwed

(* Steps that leave the executor alone and neither begin nor end a wait. *)
LEMMA OwedElsewhere ==
  ASSUME TypeOK, Owed, UNCHANGED executor,
         \A t \in Threads : pc'[t] = "wait" <=> pc[t] = "wait"
  PROVE  Owed'
<1>1. queue' = queue /\ task' = task /\ exec' = exec
  BY DEF executor
<1>2. \A c \in Conns : \A i \in DOMAIN queue[c] :
        queue[c][i] # Nobody => queue[c][i] \in Threads
  BY LenProperties, ElementOfSeq DEF TypeOK
<1>3. QueueOwed'
  BY <1>1, <1>2 DEF Owed, QueueOwed
<1>4. TaskOwed'
  BY <1>1 DEF Owed, TaskOwed, TypeOK
<1>5. WaiterOwed'
  BY <1>1 DEF Owed, WaiterOwed, Waits
<1> QED
  BY <1>3, <1>4, <1>5 DEF Owed

(* A new task goes to the end of the queue of a thread that did not wait. *)
LEMMA SubmitOwed ==
  ASSUME TypeOK, Owed, NEW t \in Threads, pc[t] # "wait",
         Submit(t), To(t, "wait")
  PROVE  Owed'
<1>0. Of[t] \in Conns /\ t # Nobody
  BY OfType, MT5Assumption DEF Threads
<1> DEFINE q == queue[Of[t]]
<1>1. q \in Seq(Threads \cup {Nobody})
  BY <1>0 DEF TypeOK
<1>2. /\ queue'[Of[t]] = Append(q, t)
      /\ \A c \in Conns : c # Of[t] => queue'[c] = queue[c]
      /\ task' = task /\ exec' = exec
      /\ pc' = [pc EXCEPT ![t] = "wait"]
  BY <1>0 DEF Submit, To, TypeOK
<1>3. /\ Len(q) \in Nat /\ DOMAIN q = 1..Len(q)
      /\ DOMAIN Append(q, t) = 1..(Len(q) + 1)
      /\ \A i \in DOMAIN q : Append(q, t)[i] = q[i]
      /\ Append(q, t)[Len(q) + 1] = t
  BY <1>1, AppendProperties, LenProperties
<1>4. \A c \in Conns : \A i \in DOMAIN queue[c] : queue[c][i] # t
  BY <1>0 DEF Owed, QueueOwed
<1>5. \A c \in Conns : task[c] # t
  BY <1>0 DEF Owed, TaskOwed
<1>6. \A u \in Threads : pc[u] = "wait" => pc'[u] = "wait"
  BY <1>2 DEF TypeOK
<1>7. \A c \in Conns : \A i \in DOMAIN queue[c] :
        queue[c][i] # Nobody => queue[c][i] \in Threads
  BY LenProperties, ElementOfSeq DEF TypeOK
<1>8. QueueOwed'
  <2> SUFFICES ASSUME NEW c \in Conns, NEW i \in DOMAIN queue'[c], queue'[c][i] # Nobody
               PROVE  /\ Of[queue'[c][i]] = c /\ pc'[queue'[c][i]] = "wait"
                      /\ task'[c] # queue'[c][i]
                      /\ \A j \in DOMAIN queue'[c] : queue'[c][j] = queue'[c][i] => j = i
    BY DEF QueueOwed
  <2>1. CASE c # Of[t]
    BY <2>1, <1>2, <1>6, <1>7 DEF Owed, QueueOwed
  <2>2. CASE c = Of[t] /\ i \in DOMAIN q
    <3>1. queue'[c][i] = q[i] /\ q[i] # Nobody /\ q[i] # t
      BY <2>2, <1>2, <1>3, <1>4
    <3>2. /\ Of[q[i]] = c /\ pc[q[i]] = "wait" /\ task[c] # q[i]
          /\ \A j \in DOMAIN q : q[j] = q[i] => j = i
      BY <2>2, <3>1 DEF Owed, QueueOwed
    <3>3. pc'[q[i]] = "wait"
      BY <2>2, <3>1, <3>2, <1>6, <1>7
    <3>4. \A j \in DOMAIN queue'[c] : queue'[c][j] = q[i] => j = i
      BY <2>2, <3>1, <3>2, <1>2, <1>3
    <3> QED
      BY <3>1, <3>2, <3>3, <3>4, <1>2
  <2>3. CASE c = Of[t] /\ i \notin DOMAIN q
    <3>1. i = Len(q) + 1 /\ queue'[c][i] = t
      BY <2>3, <1>2, <1>3
    <3>2. \A j \in DOMAIN queue'[c] : queue'[c][j] = t => j = i
      BY <2>3, <3>1, <1>0, <1>2, <1>3, <1>4
    <3> QED
      BY <2>3, <3>1, <3>2, <1>2, <1>5 DEF TypeOK
  <2> QED
    BY <2>1, <2>2, <2>3
<1>9. TaskOwed'
  BY <1>2, <1>6 DEF Owed, TaskOwed, TypeOK
<1>10. WaiterOwed'
  <2> SUFFICES ASSUME NEW u \in Threads, pc'[u] = "wait" PROVE Waits(u)'
    BY DEF WaiterOwed
  <2>1. CASE u = t
    BY <2>1, <1>2, <1>3 DEF Waits
  <2>2. CASE u # t
    <3>1. Waits(u)
      BY <2>2, <1>2 DEF Owed, WaiterOwed, TypeOK
    <3>2. Of[u] \in Conns
      BY OfType
    <3> QED
      BY <3>1, <3>2, <1>2, <1>3 DEF Waits
  <2> QED
    BY <2>1, <2>2
<1> QED
  BY <1>8, <1>9, <1>10 DEF Owed

(* The submitter stops waiting and its name goes out of queue and task. *)
LEMMA GiveUpOwed ==
  ASSUME TypeOK, Owed, NEW t \in Threads, GiveUp(t) PROVE Owed'
<1>0. Of[t] \in Conns /\ t # Nobody /\ pc[t] = "wait"
  BY OfType, MT5Assumption DEF Threads, GiveUp
<1> DEFINE Orphan(u) == IF u = t THEN Nobody ELSE u
<1>1. /\ exec' = exec /\ pc' = [pc EXCEPT ![t] = "lost"]
      /\ task' = [task EXCEPT ![Of[t]] = Orphan(@)]
      /\ queue' = [queue EXCEPT ![Of[t]] = [i \in DOMAIN @ |-> Orphan(@[i])]]
  BY DEF GiveUp, To
<1>2. \A c \in Conns : /\ DOMAIN queue'[c] = DOMAIN queue[c]
                       /\ \A i \in DOMAIN queue[c] : queue'[c][i] = Orphan(queue[c][i])
  <2> SUFFICES ASSUME NEW c \in Conns
               PROVE  /\ DOMAIN queue'[c] = DOMAIN queue[c]
                      /\ \A i \in DOMAIN queue[c] : queue'[c][i] = Orphan(queue[c][i])
    OBVIOUS
  <2>1. CASE c = Of[t]
    BY <2>1, <1>1 DEF TypeOK
  <2>2. CASE c # Of[t]
    <3>1. queue'[c] = queue[c]
      BY <2>2, <1>1 DEF TypeOK
    <3>2. \A i \in DOMAIN queue[c] : queue[c][i] # t
      BY <2>2, <1>0 DEF Owed, QueueOwed
    <3> QED
      BY <3>1, <3>2
  <2> QED
    BY <2>1, <2>2
<1>3. \A c \in Conns : task'[c] = Orphan(task[c])
  BY <1>0, <1>1 DEF TypeOK, Owed, TaskOwed
<1>4. \A u \in Threads : u # t => pc'[u] = pc[u]
  BY <1>1 DEF TypeOK
<1>5. pc'[t] # "wait"
  BY <1>1 DEF TypeOK
<1>6. \A c \in Conns : \A i \in DOMAIN queue[c] :
        queue[c][i] # Nobody => queue[c][i] \in Threads
  BY LenProperties, ElementOfSeq DEF TypeOK
<1> HIDE DEF Orphan
<1>7. \A u \in Threads \cup {Nobody} :
        /\ Orphan(u) # Nobody => Orphan(u) = u /\ u # t
        /\ u # t => Orphan(u) = u
  BY DEF Orphan
<1>8. QueueOwed'
  <2> SUFFICES ASSUME NEW c \in Conns, NEW i \in DOMAIN queue[c], queue'[c][i] # Nobody
               PROVE  /\ Of[queue'[c][i]] = c /\ pc'[queue'[c][i]] = "wait"
                      /\ task'[c] # queue'[c][i]
                      /\ \A j \in DOMAIN queue[c] : queue'[c][j] = queue'[c][i] => j = i
    BY <1>2 DEF QueueOwed
  <2>1. queue'[c][i] = queue[c][i] /\ queue[c][i] # t /\ queue[c][i] \in Threads
    BY <1>2, <1>6, <1>7
  <2>2. /\ Of[queue[c][i]] = c /\ pc[queue[c][i]] = "wait"
        /\ task[c] # queue[c][i]
        /\ \A j \in DOMAIN queue[c] : queue[c][j] = queue[c][i] => j = i
    BY <2>1 DEF Owed, QueueOwed
  <2>3. \A j \in DOMAIN queue[c] : queue'[c][j] = queue'[c][i] => queue[c][j] = queue[c][i]
    BY <2>1, <1>2, <1>6, <1>7
  <2>4. task'[c] # queue'[c][i]
    BY <2>1, <2>2, <1>3, <1>7 DEF TypeOK
  <2> QED
    BY <2>1, <2>2, <2>3, <2>4, <1>4
<1>9. TaskOwed'
  BY <1>1, <1>3, <1>4, <1>7 DEF Owed, TaskOwed, TypeOK
<1>10. WaiterOwed'
  <2> SUFFICES ASSUME NEW u \in Threads, pc'[u] = "wait" PROVE Waits(u)'
    BY DEF WaiterOwed
  <2>1. u # t /\ Waits(u) /\ Of[u] \in Conns
    BY <1>4, <1>5, OfType DEF Owed, WaiterOwed
  <2> QED
    BY <2>1, <1>2, <1>3, <1>7 DEF Waits
<1> QED
  BY <1>8, <1>9, <1>10 DEF Owed

(* The executor was idle, so that no task is lost when it takes the next. *)
LEMMA TakeOwed ==
  ASSUME TypeOK, Owed, NEW c \in Conns, Take(c) PROVE Owed'
<1> DEFINE q == queue[c]
<1>1. q \in Seq(Threads \cup {Nobody}) /\ q # <<>>
  BY DEF Take, TypeOK
<1>2. /\ task' = [task EXCEPT ![c] = Head(q)]
      /\ queue' = [queue EXCEPT ![c] = Tail(q)]
      /\ exec' = [exec EXCEPT ![c] = "init"] /\ pc' = pc
  BY DEF Take
<1>3. /\ Len(q) \in Nat \ {0} /\ DOMAIN q = 1..Len(q)
      /\ DOMAIN Tail(q) = 1..(Len(q) - 1)
      /\ \A i \in 1..(Len(q) - 1) : Tail(q)[i] = q[i + 1]
      /\ Head(q) = q[1] /\ Head(q) \in Threads \cup {Nobody}
  BY <1>1, HeadTailProperties, LenProperties, EmptySeq
<1>4. task[c] = Nobody
  BY DEF Take, Owed, TaskOwed
<1>5. QueueOwed'
  <2> SUFFICES ASSUME NEW d \in Conns, NEW i \in DOMAIN queue'[d], queue'[d][i] # Nobody
               PROVE  /\ Of[queue'[d][i]] = d /\ pc'[queue'[d][i]] = "wait"
                      /\ task'[d] # queue'[d][i]
                      /\ \A j \in DOMAIN queue'[d] : queue'[d][j] = queue'[d][i] => j = i
    BY DEF QueueOwed
  <2>1. CASE d # c
    BY <2>1, <1>2 DEF Owed, QueueOwed, TypeOK
  <2>2. CASE d = c
    <3>1. /\ queue'[d] = Tail(q) /\ task'[d] = q[1] /\ i \in 1..(Len(q) - 1)
          /\ queue'[d][i] = q[i + 1] /\ i + 1 \in DOMAIN q /\ 1 \in DOMAIN q
      BY <2>2, <1>2, <1>3 DEF TypeOK
    <3>2. /\ Of[q[i + 1]] = d /\ pc[q[i + 1]] = "wait"
          /\ \A j \in DOMAIN q : q[j] = q[i + 1] => j = i + 1
      BY <2>2, <3>1 DEF Owed, QueueOwed
    <3>3. q[1] # q[i + 1]
      BY <3>1, <3>2
    <3>4. \A j \in DOMAIN queue'[d] : queue'[d][j] = queue'[d][i] => j = i
      BY <3>1, <3>2, <1>3
    <3> QED
      BY <3>1, <3>2, <3>3, <3>4, <1>2
  <2> QED
    BY <2>1, <2>2
<1>6. TaskOwed'
  <2> SUFFICES ASSUME NEW d \in Conns, task'[d] # Nobody
               PROVE  Of[task'[d]] = d /\ pc'[task'[d]] = "wait" /\ exec'[d] # "idle"
    BY DEF TaskOwed
  <2>1. CASE d # c
    BY <2>1, <1>2 DEF Owed, TaskOwed, TypeOK
  <2>2. CASE d = c
    <3>1. task'[d] = q[1] /\ 1 \in DOMAIN q /\ exec'[d] = "init"
      BY <2>2, <1>2, <1>3 DEF TypeOK
    <3> QED
      BY <2>2, <3>1, <1>2 DEF Owed, QueueOwed
  <2> QED
    BY <2>1, <2>2
<1>7. WaiterOwed'
  <2> SUFFICES ASSUME NEW u \in Threads, pc[u] = "wait" PROVE Waits(u)'
    BY <1>2 DEF WaiterOwed
  <2>1. Waits(u) /\ Of[u] \in Conns /\ u # Nobody
    BY OfType, MT5Assumption DEF Owed, WaiterOwed, Threads
  <2>2. CASE Of[u] # c
    BY <2>1, <2>2, <1>2 DEF Waits, TypeOK
  <2>3. CASE Of[u] = c
    <3>1. PICK i \in DOMAIN q : q[i] = u
      BY <2>1, <2>3, <1>4 DEF Waits
    <3>2. CASE i = 1
      BY <2>3, <3>1, <3>2, <1>2, <1>3 DEF Waits, TypeOK
    <3>3. CASE i # 1
      <4>1. i - 1 \in DOMAIN Tail(q) /\ Tail(q)[i - 1] = u
        BY <3>1, <3>3, <1>3
      <4>2. queue'[c] = Tail(q)
        BY <1>2 DEF TypeOK
      <4> QED
        BY <2>3, <4>1, <4>2 DEF Waits
    <3> QED
      BY <3>2, <3>3
  <2> QED
    BY <2>2, <2>3
<1> QED
  BY <1>5, <1>6, <1>7 DEF Owed

(* The answer goes to the submitter of the task that ran, who waits. *)
LEMMA AnswerOwed ==
  ASSUME TypeOK, Owed, NEW c \in Conns, NEW ok \in BOOLEAN, Answer(c, ok)
  PROVE  Owed'
<1>1. /\ task' = [task EXCEPT ![c] = Nobody] /\ queue' = queue
      /\ exec' = [exec EXCEPT ![c] = "idle"]
      /\ task[c] = Nobody => pc' = pc
      /\ task[c] # Nobody => pc' = [pc EXCEPT ![task[c]] = IF ok THEN "won" ELSE "lost"]
  BY DEF Answer
<1>2. /\ \A u \in Threads : u # task[c] => pc'[u] = pc[u]
      /\ \A u \in Threads : u = task[c] => pc'[u] # "wait"
  BY <1>1, MT5Assumption DEF TypeOK, Threads
<1>3. \A d \in Conns : \A i \in DOMAIN queue[d] :
        queue[d][i] # Nobody => queue[d][i] \in Threads
  BY LenProperties, ElementOfSeq DEF TypeOK
<1>4. \A d \in Conns : d # c /\ task[d] # Nobody => task[d] # task[c] /\ task[d] \in Threads
  <2>1. \A d \in Conns : task[d] # Nobody => Of[task[d]] = d
    BY DEF Owed, TaskOwed
  <2>2. \A d \in Conns : task[d] # Nobody => task[d] \in Threads
    BY DEF TypeOK
  <2> QED
    BY <2>1, <2>2
<1>5. \A d \in Conns : \A i \in DOMAIN queue[d] :
        queue[d][i] # Nobody => queue[d][i] # task[c]
  BY DEF Owed, QueueOwed, TaskOwed
<1>6. \A d \in Conns : task'[d] = IF d = c THEN Nobody ELSE task[d]
  BY <1>1 DEF TypeOK
<1>7. QueueOwed'
  BY <1>1, <1>2, <1>3, <1>5, <1>6 DEF Owed, QueueOwed
<1>8. TaskOwed'
  BY <1>1, <1>2, <1>4, <1>6 DEF Owed, TaskOwed, TypeOK
<1>9. WaiterOwed'
  <2> SUFFICES ASSUME NEW u \in Threads, pc'[u] = "wait" PROVE Waits(u)'
    BY DEF WaiterOwed
  <2>1. Waits(u) /\ Of[u] \in Conns /\ u # task[c]
    BY <1>2, OfType DEF Owed, WaiterOwed
  <2> QED
    BY <2>1, <1>1, <1>6 DEF Waits
<1> QED
  BY <1>7, <1>8, <1>9 DEF Owed

LEMMA ProceedOwed ==
  ASSUME TypeOK, Owed, NEW c \in Conns, NEW place \in {"login", "verify", "finish"},
         Proceed(c, place)
  PROVE  Owed'
<1>1. /\ exec' = [exec EXCEPT ![c] = place]
      /\ pc' = pc /\ queue' = queue /\ task' = task
  BY DEF Proceed
<1>2. \A d \in Conns : exec'[d] = "idle" => exec[d] = "idle"
  BY <1>1 DEF TypeOK
<1> QED
  BY <1>1, <1>2 DEF Owed, QueueOwed, TaskOwed, WaiterOwed, Waits

LEMMA InitOwed == Init => Owed
  BY DEF Init, Owed, QueueOwed, TaskOwed, WaiterOwed

LEMMA ChainOwed ==
  ASSUME TypeOK, Owed, NEW t \in Chains, Connect(t) \/ Chain(t) PROVE Owed'
<1> t \in Threads
  BY DEF Threads
<1>1. CASE Fire(t)
  BY <1>1, SubmitOwed DEF Fire
<1>2. ASSUME UNCHANGED executor, NEW place, To(t, place),
             pc[t] # "wait", place # "wait"
      PROVE  Owed'
  BY <1>2, OwedElsewhere DEF To, TypeOK
<1>3. CASE Fail(t)
  <2>1. \A u \in Threads : pc'[u] = "wait" <=> pc[u] = "wait"
    BY <1>3 DEF Fail, Cancelled
  <2> QED
    BY <1>3, <2>1, OwedElsewhere DEF Fail
<1>4. CASE Spawn(t) \/ RawAgain(t) \/ RawVerify(t) \/ Arm(t) \/ Won(t)
  BY <1>2, <1>4 DEF Spawn, RawAgain, RawVerify, Arm, Won
<1>8. CASE Connect(t)
  <2>1. CASE Refused(Of[t])
    BY <2>1, RefusedType, OwedElsewhere, OfType
  <2>2. CASE ~Refused(Of[t])
    BY <1>2, <1>8, <2>2 DEF Connect
  <2> QED
    BY <2>1, <2>2
<1>5. CASE RawInit(t)
  <2>1. PICK place \in {"again", "fail"} : To(t, place)
    BY <1>5 DEF RawInit
  <2> QED
    BY <1>2, <1>5, <2>1 DEF RawInit
<1>6. CASE RawLogin(t)
  <2>1. PICK ok \in BOOLEAN : To(t, IF ok THEN "verify" ELSE "fail")
    BY <1>6 DEF RawLogin
  <2> QED
    BY <1>2, <1>6, <2>1 DEF RawLogin
<1>7. CASE RawFinish(t)
  BY <1>2, <1>7 DEF RawFinish
<1> QED
  BY <1>1, <1>3, <1>4, <1>5, <1>6, <1>7, <1>8 DEF Chain

LEMMA ExecutorOwed ==
  ASSUME TypeOK, Owed, NEW c \in Conns, Executor(c) PROVE Owed'
<1>1. CASE ExecInit(c)
  BY <1>1, ProceedOwed, AnswerOwed DEF ExecInit
<1>2. CASE ExecLogin(c)
  BY <1>2, ProceedOwed, AnswerOwed DEF ExecLogin
<1>3. CASE ExecVerify(c)
  BY <1>3, ProceedOwed, AnswerOwed DEF ExecVerify
<1>4. CASE ExecFinish(c)
  BY <1>4, AnswerOwed DEF ExecFinish, TypeOK
<1> QED
  BY <1>1, <1>2, <1>3, <1>4, TakeOwed DEF Executor

LEMMA OwedStep == ASSUME TypeOK, Owed, [Next]_vars PROVE Owed'
<1>1. ASSUME NEW t \in Callers, ConnectBlocking(t) PROVE Owed'
  <2>1. t \in Threads /\ Of[t] \in Conns
    BY OfType DEF Threads
  <2>2. CASE Refused(Of[t])
    BY <2>1, <2>2, RefusedType, OwedElsewhere
  <2>3. CASE ~Refused(Of[t])
    BY <1>1, <2>1, <2>3, SubmitOwed DEF ConnectBlocking
  <2> QED
    BY <2>2, <2>3
<1>2. ASSUME NEW t \in Callers, Answered(t) PROVE Owed'
  BY <1>2, OwedElsewhere DEF Answered, To, TypeOK, Threads
<1>3. CASE \/ Drop \/ Return \/ UNCHANGED vars
           \/ \E c \in Conns : Disconnect(c) \/ Validate(c) \/ OrderSend(c)
  BY <1>3, OwedElsewhere DEF Drop, Return, vars, Disconnect, Validate, OrderSend
<1> QED
  BY <1>1, <1>2, <1>3, ChainOwed, GiveUpOwed, ExecutorOwed DEF Next

(* A thread waits exactly while a task of its own is in the queue or under *)
(* the executor of its instance, whoever else gives up or is answered: no   *)
(* task is dropped and no answer goes astray (_dll_executor_loop,           *)
(* _submit_to_executor).                                                    *)
THEOREM WaitersAreOwed == Spec => []Owed
  BY InitOwed, OwedStep, TypeCorrect, PTL DEF Spec

-----------------------------------------------------------------------------
(* Somebody tries.  A chain strives unless its attempt is past the point    *)
(* where it wrote CONNECTED: of the raw thread at "finish", of a submitted  *)
(* task while the executor is at "finish".  SomeoneTries alone is not       *)
(* inductive: Won and RawFinish may be the last step of the only chain.     *)

NamedTimer == \A c \in Conns : retryTimer[c] # Nobody => Of[retryTimer[c]] = c

Succeeded(t) == exec[Of[t]] = "finish" /\ task[Of[t]] = t
Striving(t)  == pc[t] \in Working \ {"finish"} /\ ~Succeeded(t)
TriedFor(c)  == config[c] # "disabled" /\ state[c] \in {"CONNECTING", "FAILED"} =>
                    \E t \in Chains : Of[t] = c /\ Striving(t)
Tried == NamedTimer /\ \A c \in Conns : TriedFor(c)

LEMMA InitTried == Init => Tried
  BY DEF Init, Tried, TriedFor, NamedTimer

(* Only Arm names a timer, its own. *)
LEMMA NamedTimerStep ==
  ASSUME TypeOK, NamedTimer, [Next]_vars PROVE NamedTimer'
<1>1. ASSUME NEW t \in Chains, Arm(t) PROVE NamedTimer'
  BY <1>1, OfType DEF Arm, NamedTimer, TypeOK, Threads
<1>2. ASSUME UNCHANGED retryTimer PROVE NamedTimer'
  BY <1>2 DEF NamedTimer
<1>3. CASE \E t \in Chains : \/ Connect(t) \/ Spawn(t) \/ RawInit(t) \/ RawAgain(t)
                             \/ RawLogin(t) \/ RawVerify(t) \/ RawFinish(t)
                             \/ Fail(t) \/ Fire(t) \/ Won(t)
  BY <1>2, <1>3 DEF Connect, Spawn, RawInit, RawAgain, RawLogin, RawVerify,
     RawFinish, Fail, Fire, Won
<1>4. CASE \/ \E t \in Callers : ConnectBlocking(t) \/ Answered(t)
           \/ \E t \in Threads : GiveUp(t)
           \/ Drop \/ Return \/ UNCHANGED vars
  BY <1>2, <1>4 DEF ConnectBlocking, Answered, GiveUp, Drop, Return, vars
<1>5. ASSUME NEW c \in Conns,
             Executor(c) \/ Disconnect(c) \/ Validate(c) \/ OrderSend(c)
      PROVE  NamedTimer'
  BY <1>2, <1>5 DEF Executor, Take, ExecInit, ExecLogin, ExecVerify,
     ExecFinish, Disconnect, Validate, OrderSend
<1> QED
  BY <1>1, <1>3, <1>4, <1>5 DEF Next, Chain

(* The configuration is the one that was loaded. *)
LEMMA ConfigKept == ASSUME [Next]_vars PROVE config' = config
<1>1. ASSUME NEW t \in Chains, Connect(t) \/ Chain(t) PROVE config' = config
  BY <1>1 DEF Connect, Chain, Spawn, RawInit, RawAgain, RawLogin, RawVerify, RawFinish,
     Fail, Arm, Fire, Won, world
<1>2. ASSUME NEW c \in Conns, Executor(c) \/ Disconnect(c) \/ Validate(c) \/ OrderSend(c)
      PROVE  config' = config
  BY <1>2 DEF Executor, Take, ExecInit, ExecLogin, ExecVerify, ExecFinish, Disconnect,
     Validate, OrderSend, world
<1>3. CASE \/ \E t \in Callers : ConnectBlocking(t) \/ Answered(t)
           \/ \E t \in Threads : GiveUp(t)
           \/ Drop \/ Return \/ UNCHANGED vars
  BY <1>3 DEF ConnectBlocking, Answered, GiveUp, Drop, Return, vars, world
<1> QED
  BY <1>1, <1>2, <1>3 DEF Next

(* A refused instance is disabled, and nothing is asked of it. *)
LEMMA RefusedTried ==
  ASSUME TypeOK, Tried, NEW c \in Conns, Refused(c), config' = config
  PROVE  \A d \in Conns : TriedFor(d)'
<1>1. /\ config[c] = "disabled" /\ state' = [state EXCEPT ![c] = "FAILED"]
      /\ pc' = pc /\ task' = task /\ exec' = exec
  BY DEF Refused, Mark
<1>2. \A u \in Chains : Striving(u) => Striving(u)'
  BY <1>1 DEF Striving, Succeeded
<1> QED
  BY <1>1, <1>2 DEF Tried, TriedFor, TypeOK

LEMMA TriedKept ==
  ASSUME NEW c \in Conns, TriedFor(c), config' = config,
         state'[c] \in {"CONNECTING", "FAILED"} => state[c] \in {"CONNECTING", "FAILED"},
         \A t \in Chains : Of[t] = c /\ Striving(t) => Striving(t)'
  PROVE  TriedFor(c)'
  BY DEF TriedFor

(* A chain that does not wait is not the one the executor works for. *)
LEMMA NotSucceeded ==
  ASSUME TypeOK, Owed, NEW t \in Threads, pc[t] # "wait" PROVE task[Of[t]] # t
  BY OfType, MT5Assumption DEF Owed, TaskOwed, Threads

(* One step of chain t: the other chains of its instance and all those of   *)
(* other instances strive as before.                                        *)
LEMMA OthersTry ==
  ASSUME TypeOK, Tried, NEW t \in Chains, exec' = exec, task' = task, config' = config,
         \A u \in Chains : Of[u] # Of[t] => pc'[u] = pc[u],
         \A c \in Conns : c # Of[t] => state'[c] = state[c]
  PROVE  \A c \in Conns : c # Of[t] => TriedFor(c)'
  BY TriedKept DEF Tried, Striving, Succeeded

LEMMA ChainTried ==
  ASSUME TypeOK, Owed, Tried, NEW t \in Chains, Connect(t) \/ Chain(t)
  PROVE  \A c \in Conns : TriedFor(c)'
<1> DEFINE c0 == Of[t]
<1>0. t \in Threads /\ c0 \in Conns /\ config' = config
  BY OfType, ConfigKept DEF Threads, Next
<1>r. CASE Refused(c0)
  BY <1>0, <1>r, RefusedTried
<1> SUFFICES ASSUME ~Refused(c0) PROVE \A c \in Conns : TriedFor(c)'
  BY <1>r
<1>1. exec' = exec /\ task' = task
  BY DEF Connect, Chain, Spawn, RawInit, RawAgain, RawLogin, RawVerify,
     RawFinish, Fail, Arm, Fire, Won, Submit, executor
<1>2. \A u \in Chains : Of[u] # c0 => pc'[u] = pc[u]
  <2>1. CASE Fail(t)
    BY <2>1, <1>0, MT5Assumption DEF Fail, Cancelled, Tried, NamedTimer, TypeOK, Threads
  <2>2. ASSUME NEW place, To(t, place) PROVE \A u \in Chains : Of[u] # c0 => pc'[u] = pc[u]
    BY <2>2 DEF To, TypeOK, Threads
  <2> QED
    BY <2>1, <2>2 DEF Connect, Chain, Spawn, RawInit, RawAgain, RawLogin,
       RawVerify, RawFinish, Arm, Fire, Won
<1>3. \A c \in Conns : c # c0 => state'[c] = state[c]
  BY <1>0 DEF Connect, Chain, Spawn, RawInit, RawAgain, RawLogin, RawVerify,
     Accept, Reject, RawFinish, Fail, Arm, Fire, Won, Mark, flags, TypeOK
<1>4. \A c \in Conns : c # c0 => TriedFor(c)'
  BY <1>0, <1>1, <1>2, <1>3, OthersTry
<1> SUFFICES TriedFor(c0)'
  BY <1>4
<1>5. ASSUME pc[t] # "wait", pc'[t] \in Working \ {"finish"} PROVE TriedFor(c0)'
  <2>1. task[c0] # t
    BY <1>0, <1>5, NotSucceeded
  <2> QED
    BY <1>1, <1>5, <2>1 DEF TriedFor, Striving, Succeeded
<1>6. ASSUME pc[t] \in {"free", "finish", "won"}, state' = state,
             \A u \in Chains : u # t => pc'[u] = pc[u]
      PROVE  TriedFor(c0)'
  <2>1. \A u \in Chains : Striving(u) => Striving(u)'
    BY <1>1, <1>6 DEF Striving, Succeeded, Working
  <2> QED
    BY <1>0, <1>6, <2>1, TriedKept DEF Tried
<1>7. CASE Spawn(t) \/ RawInit(t) \/ RawAgain(t) \/ RawLogin(t) \/ Arm(t) \/ Fire(t)
  <2>1. pc[t] # "wait" /\ pc'[t] \in Working \ {"finish"}
    BY <1>0, <1>7 DEF Spawn, RawInit, RawAgain, RawLogin, Arm, Fire, To, Working, TypeOK
  <2> QED
    BY <2>1, <1>5
<1>8. CASE Fail(t)
  <2>1. pc[t] # "wait" /\ pc'[t] \in Working \ {"finish"}
    BY <1>0, <1>8 DEF Fail, Cancelled, Working
  <2> QED
    BY <2>1, <1>5
<1>9. CASE Connect(t) \/ RawFinish(t) \/ Won(t)
  BY <1>0, <1>6, <1>9 DEF Connect, RawFinish, Won, To, flags, TypeOK, Threads
<1>10. CASE RawVerify(t)
  <2>1. CASE Accept(c0, terminal = Account[c0])
    BY <1>0, <2>1 DEF Accept, Mark, TriedFor, TypeOK
  <2>2. CASE To(t, "fail")
    BY <1>0, <1>5, <1>10, <2>2 DEF RawVerify, To, Working, TypeOK
  <2> QED
    BY <1>10, <2>1, <2>2 DEF RawVerify
<1> QED
  BY <1>7, <1>8, <1>9, <1>10 DEF Chain

(* The submitter that gives up strives on: its own retry is next. *)
LEMMA GiveUpTried ==
  ASSUME TypeOK, Owed, Tried, NEW t \in Threads, GiveUp(t)
  PROVE  \A c \in Conns : TriedFor(c)'
<1>0. Of[t] \in Conns /\ t # Nobody
  BY OfType, MT5Assumption DEF Threads
<1>1. /\ state' = state /\ exec' = exec /\ pc' = [pc EXCEPT ![t] = "lost"]
      /\ task' = [task EXCEPT ![Of[t]] = IF @ = t THEN Nobody ELSE @]
      /\ config' = config
  BY DEF GiveUp, flags, world, To
<1>2. \A u \in Chains : Striving(u) => Striving(u)'
  <2> SUFFICES ASSUME NEW u \in Chains, Striving(u) PROVE Striving(u)'
    OBVIOUS
  <2>1. u \in Threads /\ Of[u] \in Conns /\ u # Nobody
    BY OfType, MT5Assumption DEF Threads
  <2>2. task'[Of[u]] = u => task[Of[u]] = u
    BY <2>1, <1>0, <1>1 DEF TypeOK
  <2>3. pc'[u] \in Working \ {"finish"}
    BY <2>1, <1>1 DEF Striving, Working, TypeOK
  <2> QED
    BY <2>2, <2>3, <1>1 DEF Striving, Succeeded
<1> QED
  BY <1>1, <1>2, TriedKept DEF Tried

(* An answer ends the task: to a failure the chain answers with a retry. *)
LEMMA AnswerTried ==
  ASSUME TypeOK, Owed, NEW c \in Conns, NEW ok \in BOOLEAN, Answer(c, ok),
         ok => exec[c] = "finish"
  PROVE  \A u \in Chains : Striving(u) => Striving(u)'
<1> SUFFICES ASSUME NEW u \in Chains, Striving(u) PROVE Striving(u)'
  OBVIOUS
<1>1. u \in Threads /\ Of[u] \in Conns /\ u # Nobody
  BY OfType, MT5Assumption DEF Threads
<1>2. /\ exec' = [exec EXCEPT ![c] = "idle"]
      /\ task' = [task EXCEPT ![c] = Nobody]
      /\ pc' = IF task[c] = Nobody THEN pc
               ELSE [pc EXCEPT ![task[c]] = IF ok THEN "won" ELSE "lost"]
  BY DEF Answer
<1>3. Succeeded(u)' => Succeeded(u)
  BY <1>1, <1>2 DEF Succeeded, TypeOK
<1>4. CASE u # task[c]
  <2>1. pc'[u] = pc[u]
    BY <1>1, <1>2, <1>4 DEF TypeOK
  <2> QED
    BY <1>3, <2>1 DEF Striving
<1>5. CASE u = task[c]
  <2>1. Of[u] = c
    BY <1>1, <1>5 DEF Owed, TaskOwed
  <2>2. ~ok
    BY <1>5, <2>1 DEF Striving, Succeeded
  <2>3. pc'[u] = "lost"
    BY <1>1, <1>2, <1>5, <2>2 DEF TypeOK
  <2> QED
    BY <1>3, <2>3 DEF Striving, Working
<1> QED
  BY <1>4, <1>5

LEMMA ProceedTried ==
  ASSUME TypeOK, NEW c \in Conns, NEW place \in {"login", "verify"}, Proceed(c, place)
  PROVE  \A u \in Chains : Striving(u) => Striving(u)'
<1>1. pc' = pc /\ task' = task /\ exec' = [exec EXCEPT ![c] = place]
  BY DEF Proceed
<1>2. \A d \in Conns : exec'[d] = "finish" => exec[d] = "finish"
  BY <1>1 DEF TypeOK
<1>3. \A u \in Chains : Of[u] \in Conns
  BY OfType DEF Threads
<1> QED
  BY <1>1, <1>2, <1>3 DEF Striving, Succeeded

LEMMA ExecutorTried ==
  ASSUME TypeOK, Owed, Tried, NEW c \in Conns, Executor(c)
  PROVE  \A d \in Conns : TriedFor(d)'
<1>0. config' = config
  BY ConfigKept DEF Next
<1>1. ASSUME state' = state, \A u \in Chains : Striving(u) => Striving(u)'
      PROVE  \A d \in Conns : TriedFor(d)'
  BY <1>0, <1>1, TriedKept DEF Tried
<1>2. CASE Take(c)
  <2>1. \A u \in Chains : Of[u] \in Conns
    BY OfType DEF Threads
  <2>2. \A u \in Chains : Succeeded(u)' => Succeeded(u)
    BY <1>2, <2>1 DEF Take, Succeeded, TypeOK
  <2> QED
    BY <1>1, <1>2, <2>2 DEF Take, Striving, flags
<1>3. CASE ExecInit(c)
  BY <1>1, <1>3, ProceedTried, AnswerTried DEF ExecInit, flags
<1>4. CASE ExecLogin(c)
  BY <1>1, <1>4, ProceedTried, AnswerTried DEF ExecLogin, flags
<1>5. CASE ExecVerify(c)
  <2>1. CASE Reject(c, TRUE) /\ Answer(c, FALSE)
    <3>1. state' = state
      BY <2>1 DEF Reject, flags
    <3> QED
      BY <1>1, <2>1, <3>1, AnswerTried
  <2>2. CASE Accept(c, TRUE) /\ Proceed(c, "finish")
    <3>1. state' = [state EXCEPT ![c] = "CONNECTED"]
      BY <2>2 DEF Accept, Mark
    <3>2. TriedFor(c)'
      BY <3>1 DEF TriedFor, TypeOK
    <3>3. \A d \in Conns : d # c => TriedFor(d)'
      <4> SUFFICES ASSUME NEW d \in Conns, d # c PROVE TriedFor(d)'
        OBVIOUS
      <4>1. \A u \in Chains : Of[u] = d /\ Striving(u) => Striving(u)'
        BY <2>2 DEF Proceed, Striving, Succeeded, TypeOK
      <4> QED
        BY <1>0, <4>1, <3>1, TriedKept DEF Tried, TypeOK
    <3> QED
      BY <3>2, <3>3
  <2> QED
    BY <1>5, <2>1, <2>2 DEF ExecVerify
<1>6. CASE ExecFinish(c)
  BY <1>1, <1>6, AnswerTried DEF ExecFinish, flags, TypeOK
<1> QED
  BY <1>2, <1>3, <1>4, <1>5, <1>6 DEF Executor

LEMMA TriedStep == ASSUME TypeOK, Owed, Tried, [Next]_vars PROVE Tried'
<1>0. NamedTimer'
  BY NamedTimerStep DEF Tried
<1> SUFFICES \A c \in Conns : TriedFor(c)'
  BY <1>0 DEF Tried
<1>c. config' = config
  BY ConfigKept
<1>1. ASSUME NEW t \in Callers, ConnectBlocking(t) \/ Answered(t)
      PROVE  \A c \in Conns : TriedFor(c)'
  <2>r. CASE Refused(Of[t])
    BY <1>c, <2>r, RefusedTried, OfType DEF Threads
  <2>1. CASE ~Refused(Of[t])
   <3>1. /\ state' = state /\ exec' = exec /\ task' = task
         /\ \A u \in Chains : pc'[u] = pc[u]
     BY <1>1, <2>1, MT5Assumption DEF ConnectBlocking, Answered, Submit, To, flags,
        executor, TypeOK, Threads
   <3> QED
     BY <1>c, <3>1, TriedKept DEF Tried, Striving, Succeeded
  <2> QED
    BY <2>r, <2>1
<1>2. CASE \/ Drop \/ Return \/ UNCHANGED vars
           \/ \E c \in Conns : Disconnect(c) \/ Validate(c) \/ OrderSend(c)
  <2>1. state' = state /\ exec' = exec /\ task' = task /\ pc' = pc
    BY <1>2 DEF Drop, Return, vars, Disconnect, Validate, OrderSend, flags, executor
  <2> QED
    BY <1>c, <2>1, TriedKept DEF Tried, Striving, Succeeded
<1> QED
  BY <1>1, <1>2, ChainTried, GiveUpTried, ExecutorTried DEF Next

(* An instance that is enabled and says CONNECTING or FAILED always has a   *)
(* chain whose attempt, timer or submitted task goes on, with or without    *)
(* complete credentials: chains that cancel each other's timers, give up after 60 seconds or are answered late never      *)
(* leave it with nobody (connect, retry_via_executor, _schedule_retry).     *)
THEOREM SomeoneAlwaysTries == Spec => []SomeoneTries
<1>1. Tried => SomeoneTries
  BY DEF Tried, TriedFor, Striving, SomeoneTries
<1>2. Init => TypeOK /\ Owed /\ Tried
  BY InitType, InitOwed, InitTried
<1>3. TypeOK /\ Owed /\ Tried /\ [Next]_vars => (TypeOK /\ Owed /\ Tried)'
  BY TypeStep, OwedStep, TriedStep
<1> QED
  BY <1>1, <1>2, <1>3, PTL DEF Spec

-----------------------------------------------------------------------------
(* Orders.  An instance says that it is connected only after it has seen    *)
(* the terminal on a demo account, and only a login moves the terminal      *)
(* away from it, to the account of an instance whose credentials are        *)
(* complete, for whichever instance it is made.                             *)

Settled == terminal \in Demo \cup Ours
Credited ==
    /\ \A c \in Conns : exec[c] = "login" => config[c] = "complete"
    /\ \A t \in Chains : pc[t] \in {"again", "login"} => config[Of[t]] = "complete"
OrdersSafe ==
    /\ Credited
    /\ \A c \in Conns : connected[c] \/ order[c] = "send" => Settled
    /\ OnlyConfigured

LEMMA InitOrders == Init => OrdersSafe
  BY MT5Assumption DEF Init, OrdersSafe, Credited, OnlyConfigured, Threads

LEMMA LoginSettles ==
  ASSUME NEW c \in Conns, config[c] = "complete", config' = config,
         NEW ok \in BOOLEAN, Login(Account[c], ok)
  PROVE  Settled => Settled'
  BY DEF Login, Settled, Ours

(* A place that asks for credentials is reached only where they are there. *)
LEMMA CreditedStep ==
  ASSUME TypeOK, Credited, [Next]_vars PROVE Credited'
<1>0. config' = config
  BY ConfigKept
<1>1. ASSUME exec' = exec, \A t \in Chains : pc'[t] \in {"again", "login"} => pc'[t] = pc[t]
      PROVE  Credited'
  BY <1>0, <1>1 DEF Credited
<1>2. ASSUME NEW t \in Chains, Connect(t) \/ Chain(t) PROVE Credited'
  <2>0. t \in Threads /\ Of[t] \in Conns
    BY OfType DEF Threads
  <2>1. CASE RawInit(t)
    <3>1. exec' = exec /\ \E place \in {"again", "fail"} :
            To(t, place) /\ (place = "again" => config[Of[t]] = "complete")
      BY <2>1 DEF RawInit, executor
    <3> QED
      BY <1>0, <2>0, <3>1 DEF Credited, To, TypeOK, Threads
  <2>2. CASE RawAgain(t)
    <3>1. exec' = exec /\ To(t, "login") /\ config[Of[t]] = "complete"
      BY <2>2 DEF RawAgain, Credited, executor
    <3> QED
      BY <1>0, <2>0, <3>1 DEF Credited, To, TypeOK, Threads
  <2>3. CASE Fail(t)
    BY <1>1, <2>3 DEF Fail, Cancelled, executor, Threads
  <2>4. ASSUME exec' = exec, NEW place, place \notin {"again", "login"}, To(t, place)
        PROVE  Credited'
    BY <1>1, <2>0, <2>4 DEF To, TypeOK, Threads
  <2>5. CASE Refused(Of[t])
    BY <1>1, <2>5 DEF Refused
  <2>6. CASE RawLogin(t)
    <3>1. exec' = exec /\ \E place \in {"verify", "fail"} : To(t, place)
      BY <2>6 DEF RawLogin, executor
    <3> QED
      BY <2>4, <3>1
  <2>7. CASE RawFinish(t)
    <3>1. exec' = exec /\ \E place \in {"free", "fail"} : To(t, place)
      BY <2>7 DEF RawFinish, executor
    <3> QED
      BY <2>4, <3>1
  <2> QED
    BY <1>2, <2>1, <2>2, <2>3, <2>4, <2>5, <2>6, <2>7 DEF Connect, Chain, Spawn, RawVerify,
       Arm, Fire, Won, Submit, executor
<1>3. ASSUME NEW c \in Conns, Executor(c) PROVE Credited'
  <2>1. ASSUME NEW place, exec' = [exec EXCEPT ![c] = place],
               place = "login" => config[c] = "complete",
               \A t \in Chains : pc'[t] \in {"again", "login"} => pc'[t] = pc[t]
        PROVE  Credited'
    BY <1>0, <2>1 DEF Credited, TypeOK
  <2>2. ASSUME NEW ok \in BOOLEAN, Answer(c, ok) PROVE Credited'
    <3>1. \A t \in Chains : pc'[t] \in {"again", "login"} => pc'[t] = pc[t]
      BY <2>2 DEF Answer, TypeOK, Threads
    <3> QED
      BY <2>1, <2>2, <3>1 DEF Answer
  <2>3. ASSUME NEW place, Proceed(c, place), place = "login" => config[c] = "complete"
        PROVE  Credited'
    BY <2>1, <2>3 DEF Proceed
  <2>4. CASE Take(c)
    BY <2>1, <2>4 DEF Take
  <2>5. CASE ExecFinish(c)
    BY <2>2, <2>5 DEF ExecFinish, TypeOK
  <2> QED
    BY <1>3, <2>2, <2>3, <2>4, <2>5 DEF Executor, ExecInit, ExecLogin, ExecVerify
<1>4. ASSUME NEW t \in Threads, GiveUp(t) \/ (t \in Callers /\ (ConnectBlocking(t) \/ Answered(t)))
      PROVE  Credited'
  <2>1. exec' = exec
    BY <1>4 DEF GiveUp, ConnectBlocking, Answered, Refused, Submit, executor
  <2>2. pc' = pc \/ \E place \in {"lost", "wait", "free"} : To(t, place)
    BY <1>4 DEF GiveUp, ConnectBlocking, Answered, Refused
  <2> QED
    BY <1>1, <2>1, <2>2 DEF To, TypeOK, Threads
<1>5. CASE \/ Drop \/ Return \/ UNCHANGED vars
           \/ \E c \in Conns : Disconnect(c) \/ Validate(c) \/ OrderSend(c)
  BY <1>1, <1>5 DEF Drop, Return, vars, Disconnect, Validate, OrderSend, executor
<1> QED
  BY <1>2, <1>3, <1>4, <1>5 DEF Next, Threads

(* Steps that leave the flags of the orders alone. *)
LEMMA OrdersKept ==
  ASSUME OrdersSafe, Credited', config' = config, Settled => Settled', sent' = sent,
         \A c \in Conns : connected'[c] => connected[c] \/ Settled',
         \A c \in Conns : order'[c] = "send" => order[c] = "send" \/ connected[c]
  PROVE  OrdersSafe'
  BY DEF OrdersSafe, OnlyConfigured, Ours

LEMMA OrdersStep ==
  ASSUME TypeOK, OrdersSafe, [Next]_vars PROVE OrdersSafe'
<1>0. config' = config /\ Credited'
  BY ConfigKept, CreditedStep DEF OrdersSafe
<1>1. ASSUME terminal' = terminal, sent' = sent,
             \A c \in Conns : connected'[c] => connected[c] \/ terminal \in Demo,
             \A c \in Conns : order'[c] = "send" => order[c] = "send" \/ connected[c]
      PROVE  OrdersSafe'
  BY <1>0, <1>1, OrdersKept DEF Settled, Ours
<1>2. ASSUME NEW c \in Conns, config[c] = "complete", NEW ok \in BOOLEAN, Login(Account[c], ok),
             UNCHANGED <<connected, order, sent>>
      PROVE  OrdersSafe'
  BY <1>0, <1>2, LoginSettles, OrdersKept
<1>3. ASSUME NEW t \in Chains, Connect(t) \/ Chain(t) PROVE OrdersSafe'
  <2>0. Of[t] \in Conns
    BY OfType DEF Threads
  <2>1. CASE RawLogin(t)
    BY <1>2, <2>0, <2>1 DEF RawLogin, OrdersSafe, Credited, flags, world
  <2>2. CASE RawVerify(t)
    <3>1. terminal' = terminal /\ sent' = sent /\ order' = order
      BY <2>2 DEF RawVerify, Accept, Reject, library, world
    <3>2. \A c \in Conns : connected'[c] => connected[c] \/ terminal \in Demo
      BY <2>0, <2>2 DEF RawVerify, Accept, Reject, flags, TypeOK
    <3> QED
      BY <1>1, <3>1, <3>2
  <2> QED
    BY <1>1, <1>3, <2>1, <2>2 DEF Connect, Refused, Chain, Spawn, RawInit, RawAgain, RawFinish,
       Fail, Arm, Fire, Won, Initialize, flags, library, world
<1>4. ASSUME NEW c \in Conns, Executor(c) PROVE OrdersSafe'
  <2>1. CASE ExecLogin(c)
    <3>1. config[c] = "complete" /\ UNCHANGED <<connected, order, sent>>
      BY <2>1 DEF ExecLogin, OrdersSafe, Credited, flags, world
    <3>2. terminal' = terminal \/ \E ok \in BOOLEAN : Login(Account[c], ok)
      BY <2>1 DEF ExecLogin, library
    <3> QED
      BY <1>1, <1>2, <3>1, <3>2
  <2>2. CASE ExecVerify(c)
    <3>1. terminal' = terminal /\ sent' = sent /\ order' = order
      BY <2>2 DEF ExecVerify, Accept, Reject, library, world
    <3>2. \A d \in Conns : connected'[d] => connected[d] \/ terminal \in Demo
      BY <2>2 DEF ExecVerify, Accept, Reject, flags, TypeOK
    <3> QED
      BY <1>1, <3>1, <3>2
  <2> QED
    BY <1>1, <1>4, <2>1, <2>2 DEF Executor, Take, ExecInit, ExecFinish, Initialize, flags, library, world
<1>5. ASSUME NEW c \in Conns, OrderSend(c) PROVE OrdersSafe'
  <2>1. Settled /\ UNCHANGED <<terminal, connected>>
    BY <1>5 DEF OrderSend, OrdersSafe, flags, library
  <2>2. \A d \in Conns : order'[d] = "send" => order[d] = "send"
    BY <1>5 DEF OrderSend, TypeOK
  <2>3. \A o \in sent' : o[2] \in Demo \cup Ours
    BY <1>5, <2>1 DEF OrderSend, OrdersSafe, OnlyConfigured, Settled
  <2> QED
    BY <1>0, <2>1, <2>2, <2>3 DEF OrdersSafe, OnlyConfigured, Settled, Ours
<1>6. ASSUME NEW c \in Conns, Validate(c) \/ Disconnect(c) PROVE OrdersSafe'
  <2>1. terminal' = terminal /\ sent' = sent
    BY <1>6 DEF Validate, Disconnect, library, world
  <2>2. \A d \in Conns : /\ connected'[d] => connected[d]
                         /\ order'[d] = "send" => order[d] = "send" \/ connected[d]
    BY <1>6 DEF Validate, Disconnect, flags, world, TypeOK
  <2> QED
    BY <1>1, <2>1, <2>2
<1>7. CASE \/ Drop \/ Return \/ UNCHANGED vars
           \/ \E t \in Callers : ConnectBlocking(t) \/ Answered(t)
           \/ \E t \in Threads : GiveUp(t)
  BY <1>1, <1>7 DEF Drop, Return, vars, ConnectBlocking, Refused, Answered, GiveUp, flags, library, world
<1> QED
  BY <1>3, <1>4, <1>5, <1>6, <1>7 DEF Next

(* "Aethelgard will NOT execute on real accounts", as far as it is so: an   *)
(* order reaches no account but a demo one or one that an instance has      *)
(* complete credentials of, wherever the terminal was left, for any number  *)
(* of instances, demo and real, that log the one terminal in and out, and   *)
(* however their attempts, timers, disconnections and orders interleave     *)
(* (_verify_demo_account, _validate_execution_environment).                 *)
THEOREM OrdersOnlyConfigured == Spec => []OnlyConfigured
<1>1. OrdersSafe => OnlyConfigured
  BY DEF OrdersSafe
<1>2. TypeOK /\ OrdersSafe /\ [Next]_vars => OrdersSafe'
  BY OrdersStep
<1> QED
  BY <1>1, <1>2, InitOrders, TypeCorrect, PTL DEF Spec
=============================================================================
