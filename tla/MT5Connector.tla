---------------------------- MODULE MT5Connector ----------------------------
(* The connection life of connectors/mt5_connector.py: connect() with its   *)
(* raw thread and its retry timers, connect_blocking() through the DLL      *)
(* executor thread, disconnect(), and the environment check before an order.*)
(* Every instance of the process shares ONE MetaTrader library session: the *)
(* library is a module with global state.  MT5Connector.start() and         *)
(* attach_health_monitor() have no caller in src/ and are left out, and so  *)
(* is the reset of get_open_positions(): the terminal is never closed here. *)
EXTENDS Naturals, Sequences

CONSTANTS
    Conns,       \* MT5Connector instances of the process
    Account,     \* Account[c]: the account instance c was configured with
    Demo,        \* the demo accounts
    Before,      \* the account the terminal was left on before the program
    Chains,      \* threads born of connect(): the raw thread, then its timers
    Callers,     \* threads that call connect_blocking()
    Of,          \* Of[t]: the instance thread t works on
    Nobody,      \* a task whose submitter gave up waiting
    MaxTimeouts, \* bound: waits on the executor that reach their 60 seconds
    MaxDrops     \* bound: losses of the link to the broker

Accounts == {Account[c] : c \in Conns} \cup {Before} \cup Demo

ASSUME MT5Assumption ==
    /\ MaxTimeouts \in Nat /\ MaxDrops \in Nat
    /\ Chains \cap Callers = {} /\ Nobody \notin Chains \cup Callers
    /\ Of \in [Chains \cup Callers -> Conns]

VARIABLES
    config,     \* what _load_config_from_db found: no account or no password is
                \* "disabled", without login or server it is "incomplete"
    state,      \* connection_state of each instance
    connected,  \* is_connected
    demo,       \* is_demo
    retryTimer, \* retry_timer: the chain whose timer it names, or Nobody
    pc,         \* where each chain and caller is
    queue,      \* _dll_queue of each instance: the submitters of the tasks
    task,       \* the submitter of the task its executor runs
    exec,       \* where that task is
    order,      \* where execute_signal is
    sent,       \* history: <<instance, account>> of every order sent
    terminal,   \* the account the terminal is logged into
    attached,   \* mt5.initialize() succeeded and nobody called mt5.shutdown()
    up,         \* the broker can be reached
    timeouts, drops

library == <<terminal, attached>>
flags == <<state, connected, demo>>
executor == <<queue, task, exec>>
world == <<config, order, sent, up, drops>>
vars == <<flags, retryTimer, pc, executor, library, world, timeouts>>

Threads == Chains \cup Callers
\* Places of a chain at which its attempt or a later one is certain to run.
Working == {"init", "again", "login", "verify", "finish", "fail", "arm", "timer", "wait", "lost"}

Init ==
    /\ config \in [Conns -> {"complete", "incomplete", "disabled"}]
    /\ state = [c \in Conns |-> "DISCONNECTED"]
    /\ connected = [c \in Conns |-> FALSE]
    /\ demo = [c \in Conns |-> FALSE]
    /\ retryTimer = [c \in Conns |-> Nobody]
    /\ pc = [t \in Threads |-> "free"]
    /\ queue = [c \in Conns |-> <<>>]
    /\ task = [c \in Conns |-> Nobody]
    /\ exec = [c \in Conns |-> "idle"]
    /\ order = [c \in Conns |-> "idle"]
    /\ sent = {}
    /\ terminal = Before /\ attached = FALSE /\ up = TRUE
    /\ timeouts = 0 /\ drops = 0

To(t, place) == pc' = [pc EXCEPT ![t] = place]
Mark(c, s) == state' = [state EXCEPT ![c] = s]

-----------------------------------------------------------------------------
(* The library, as both paths call it                                       *)

\* mt5.initialize(): attaches to the terminal, on whatever account it is.
Initialize(ok) ==
    /\ ok = up
    /\ attached' = (attached \/ ok)
    /\ UNCHANGED terminal

\* mt5.login(): moves the terminal to the account, for every instance.
Login(account, ok) ==
    /\ ok = (attached /\ up)
    /\ terminal' = IF ok THEN account ELSE terminal
    /\ UNCHANGED attached

\* account_info() is read; a real account, or for connect() another account,
\* ends in mt5.shutdown(), a demo account sets the flags.
Accept(c, ok) ==
    /\ ok /\ attached /\ terminal \in Demo
    /\ demo' = [demo EXCEPT ![c] = TRUE]
    /\ connected' = [connected EXCEPT ![c] = TRUE]
    /\ Mark(c, "CONNECTED")
    /\ UNCHANGED library

Reject(c, matches) ==
    \/ /\ ~attached
       /\ UNCHANGED <<flags, library>>
    \/ /\ attached /\ ~matches
       /\ attached' = FALSE
       /\ UNCHANGED <<flags, terminal>>
    \/ /\ attached /\ matches /\ terminal \notin Demo
       /\ demo' = [demo EXCEPT ![c] = FALSE]
       /\ attached' = FALSE
       /\ UNCHANGED <<state, connected, terminal>>

-----------------------------------------------------------------------------
(* connect(): the state is read, then a raw thread is started that makes    *)
(* the library calls itself (_connect_sync)                                 *)

\* A disabled instance says FAILED, and nobody tries.
Refused(c) ==
    /\ config[c] = "disabled" /\ Mark(c, "FAILED")
    /\ UNCHANGED <<connected, demo, pc, queue, task, exec>>

Connect(t) ==
    /\ pc[t] = "free"
    /\ \/ Refused(Of[t])
       \/ /\ config[Of[t]] # "disabled" /\ state[Of[t]] \notin {"CONNECTED", "CONNECTING"}
          /\ To(t, "ask") /\ UNCHANGED <<flags, executor>>
    /\ UNCHANGED <<retryTimer, library, world, timeouts>>

Spawn(t) ==
    /\ pc[t] = "ask"
    /\ Mark(Of[t], "CONNECTING")
    /\ To(t, "init")
    /\ UNCHANGED <<connected, demo, retryTimer, executor, library, world, timeouts>>

\* The credentials are looked at once the terminal is attached.
RawInit(t) ==
    /\ pc[t] = "init"
    /\ \E ok \in BOOLEAN :
          /\ Initialize(ok)
          /\ To(t, IF ok /\ config[Of[t]] = "complete" THEN "again" ELSE "fail")
    /\ UNCHANGED <<flags, retryTimer, executor, world, timeouts>>

\* The message logged before the login calls mt5.initialize() once more.
RawAgain(t) ==
    /\ pc[t] = "again" /\ To(t, "login")
    /\ \E ok \in BOOLEAN : Initialize(ok)
    /\ UNCHANGED <<flags, retryTimer, executor, world, timeouts>>

RawLogin(t) ==
    /\ pc[t] = "login"
    /\ \E ok \in BOOLEAN :
          Login(Account[Of[t]], ok) /\ To(t, IF ok THEN "verify" ELSE "fail")
    /\ UNCHANGED <<flags, retryTimer, executor, world, timeouts>>

RawVerify(t) ==
    /\ pc[t] = "verify"
    /\ LET mine == terminal = Account[Of[t]] IN
       \/ Accept(Of[t], mine) /\ To(t, "finish")
       \/ Reject(Of[t], mine) /\ To(t, "fail")
    /\ UNCHANGED <<retryTimer, executor, world, timeouts>>

\* Symbols are loaded and the account is read again for the log: without a
\* session that raises and counts as a failed attempt.
RawFinish(t) ==
    /\ pc[t] = "finish"
    /\ To(t, IF attached THEN "free" ELSE "fail")
    /\ UNCHANGED <<flags, retryTimer, executor, library, world, timeouts>>

-----------------------------------------------------------------------------
(* _schedule_retry                                                          *)

\* FAILED is written and the timer retry_timer names is cancelled.
Cancelled(t) ==
    LET named == retryTimer[Of[t]] IN
    [u \in Threads |-> IF u = t THEN "arm"
                       ELSE IF u = named /\ pc[u] = "timer" THEN "free"
                       ELSE pc[u]]

\* Plausible slip: a failed retry only writes FAILED.
FailsOnce(t) ==
    /\ t \in Chains /\ pc[t] \in {"fail", "lost"}
    /\ Mark(Of[t], "FAILED")
    /\ pc' = IF pc[t] = "lost" THEN [pc EXCEPT ![t] = "free"] ELSE Cancelled(t)
    /\ UNCHANGED <<connected, demo, retryTimer, executor, library, world, timeouts>>

Fail(t) ==
    /\ t \in Chains /\ pc[t] \in {"fail", "lost"}
    /\ Mark(Of[t], "FAILED")
    /\ pc' = Cancelled(t)
    /\ UNCHANGED <<connected, demo, retryTimer, executor, library, world, timeouts>>

Arm(t) ==
    /\ pc[t] = "arm"
    /\ retryTimer' = [retryTimer EXCEPT ![Of[t]] = t]
    /\ To(t, "timer")
    /\ UNCHANGED <<flags, executor, library, world, timeouts>>

Submit(t) == queue' = [queue EXCEPT ![Of[t]] = Append(@, t)] /\ UNCHANGED <<task, exec>>

\* The timer fires: retry_via_executor writes CONNECTING whatever the state.
Fire(t) ==
    /\ pc[t] = "timer"
    /\ Mark(Of[t], "CONNECTING")
    /\ Submit(t)
    /\ To(t, "wait")
    /\ UNCHANGED <<connected, demo, retryTimer, library, world, timeouts>>

Won(t) ==
    /\ t \in Chains /\ pc[t] = "won"
    /\ To(t, "free")
    /\ UNCHANGED <<flags, retryTimer, executor, library, world, timeouts>>

-----------------------------------------------------------------------------
(* connect_blocking() and the wait of 60 seconds on the executor            *)

ConnectBlocking(t) ==
    /\ t \in Callers /\ pc[t] = "free"
    /\ \/ Refused(Of[t])
       \/ /\ config[Of[t]] # "disabled" /\ state[Of[t]] # "CONNECTED"
          /\ Submit(t) /\ To(t, "wait") /\ UNCHANGED flags
    /\ UNCHANGED <<retryTimer, library, world, timeouts>>

Answered(t) ==
    /\ t \in Callers /\ pc[t] \in {"won", "lost"}
    /\ To(t, "free")
    /\ UNCHANGED <<flags, retryTimer, executor, library, world, timeouts>>

\* The submitter gives up; its task stays in the queue and will still run.
GiveUp(t) ==
    /\ pc[t] = "wait" /\ timeouts < MaxTimeouts
    /\ timeouts' = timeouts + 1
    /\ To(t, "lost")
    /\ LET c == Of[t]
           Orphan(u) == IF u = t THEN Nobody ELSE u IN
       /\ queue' = [queue EXCEPT ![c] = [i \in DOMAIN @ |-> Orphan(@[i])]]
       /\ task' = [task EXCEPT ![c] = Orphan(@)]
    /\ UNCHANGED <<flags, retryTimer, exec, library, world>>

-----------------------------------------------------------------------------
(* The executor thread and its task, _connect_sync_once                     *)

Take(c) ==
    /\ exec[c] = "idle" /\ queue[c] # <<>>
    /\ task' = [task EXCEPT ![c] = Head(queue[c])]
    /\ queue' = [queue EXCEPT ![c] = Tail(@)]
    /\ exec' = [exec EXCEPT ![c] = "init"]
    /\ UNCHANGED <<flags, retryTimer, pc, library, world, timeouts>>

\* The task goes on, or ends and its answer reaches the waiting submitter.
Proceed(c, place) == exec' = [exec EXCEPT ![c] = place] /\ UNCHANGED <<pc, queue, task>>
Answer(c, ok) ==
    /\ exec' = [exec EXCEPT ![c] = "idle"]
    /\ task' = [task EXCEPT ![c] = Nobody]
    /\ pc' = IF task[c] = Nobody THEN pc
             ELSE [pc EXCEPT ![task[c]] = IF ok THEN "won" ELSE "lost"]
    /\ UNCHANGED queue

ExecInit(c) ==
    /\ exec[c] = "init"
    /\ \E ok \in BOOLEAN :
          /\ Initialize(ok)
          /\ IF ok /\ config[c] = "complete" THEN Proceed(c, "login") ELSE Answer(c, FALSE)
    /\ UNCHANGED <<flags, retryTimer, world, timeouts>>

\* A terminal already on the account is not logged in again.
ExecLogin(c) ==
    /\ exec[c] = "login"
    /\ IF attached /\ terminal = Account[c]
       THEN Proceed(c, "verify") /\ UNCHANGED library
       ELSE \E ok \in BOOLEAN :
               Login(Account[c], ok) /\ IF ok THEN Proceed(c, "verify") ELSE Answer(c, FALSE)
    /\ UNCHANGED <<flags, retryTimer, world, timeouts>>

ExecVerify(c) ==
    /\ exec[c] = "verify"
    /\ \/ Accept(c, TRUE) /\ Proceed(c, "finish")
       \/ Reject(c, TRUE) /\ Answer(c, FALSE)
    /\ UNCHANGED <<retryTimer, world, timeouts>>

ExecFinish(c) ==
    /\ exec[c] = "finish"
    /\ Answer(c, attached)
    /\ UNCHANGED <<flags, retryTimer, library, world, timeouts>>

-----------------------------------------------------------------------------
(* disconnect() and execute_signal(), on threads of their own               *)

\* connection_state is left as it is.
Disconnect(c) ==
    /\ connected[c]
    /\ attached' = FALSE
    /\ connected' = [connected EXCEPT ![c] = FALSE]
    /\ UNCHANGED <<state, demo, retryTimer, pc, executor, terminal, world, timeouts>>

\* _validate_execution_environment reads the flags of the instance ...
\* (Plausible slip: the connection is not looked at.)
ValidateFlag(c) ==
    /\ order[c] = "idle"
    /\ order' = [order EXCEPT ![c] = "send"]
    /\ UNCHANGED <<flags, retryTimer, pc, executor, library, config, sent, up, drops, timeouts>>

Validate(c) ==
    /\ order[c] = "idle" /\ connected[c] /\ demo[c]
    /\ order' = [order EXCEPT ![c] = "send"]
    /\ UNCHANGED <<flags, retryTimer, pc, executor, library, config, sent, up, drops, timeouts>>

\* ... and order_send goes to the account the terminal is on by then.
OrderSend(c) ==
    /\ order[c] = "send"
    /\ order' = [order EXCEPT ![c] = "idle"]
    /\ sent' = IF attached /\ up THEN sent \cup {<<c, terminal>>} ELSE sent
    /\ UNCHANGED <<flags, retryTimer, pc, executor, library, config, up, drops, timeouts>>

Drop ==
    /\ up /\ drops < MaxDrops
    /\ up' = FALSE /\ drops' = drops + 1
    /\ UNCHANGED <<flags, retryTimer, pc, executor, library, config, order, sent, timeouts>>

Return ==
    /\ ~up /\ up' = TRUE
    /\ UNCHANGED <<flags, retryTimer, pc, executor, library, config, order, sent, drops, timeouts>>

-----------------------------------------------------------------------------
Chain(t) == Spawn(t) \/ RawInit(t) \/ RawAgain(t) \/ RawLogin(t) \/ RawVerify(t) \/ RawFinish(t)
            \/ Fail(t) \/ Arm(t) \/ Fire(t) \/ Won(t)
Executor(c) == Take(c) \/ ExecInit(c) \/ ExecLogin(c) \/ ExecVerify(c) \/ ExecFinish(c)

Next ==
    \/ \E t \in Chains : Connect(t) \/ Chain(t)
    \/ \E t \in Callers : ConnectBlocking(t) \/ Answered(t)
    \/ \E t \in Threads : GiveUp(t)
    \/ \E c \in Conns : Executor(c) \/ Disconnect(c) \/ Validate(c) \/ OrderSend(c)
    \/ Drop \/ Return

Spec == Init /\ [][Next]_vars

\* Threads that were started are scheduled, timers fire, an order call goes
\* on, and the broker comes back.  Nobody has to call connect() or to wait
\* for too long.
FairSpec ==
    /\ Spec
    /\ \A t \in Chains : WF_vars(Chain(t))
    /\ \A t \in Callers : WF_vars(Answered(t))
    /\ \A c \in Conns : WF_vars(Executor(c)) /\ WF_vars(OrderSend(c))
    /\ WF_vars(Return)

-----------------------------------------------------------------------------
(* Properties                                                               *)

\* Every variable stays in its set.
TypeOK ==
    /\ config \in [Conns -> {"complete", "incomplete", "disabled"}]
    /\ state \in [Conns -> {"DISCONNECTED", "CONNECTING", "CONNECTED", "FAILED"}]
    /\ connected \in [Conns -> BOOLEAN] /\ demo \in [Conns -> BOOLEAN]
    /\ retryTimer \in [Conns -> Chains \cup {Nobody}]
    /\ pc \in [Threads -> Working \cup {"free", "ask", "won"}]
    /\ queue \in [Conns -> Seq(Threads \cup {Nobody})]
    /\ task \in [Conns -> Threads \cup {Nobody}]
    /\ exec \in [Conns -> {"idle", "init", "login", "verify", "finish"}]
    /\ order \in [Conns -> {"idle", "send"}]
    /\ sent \subseteq Conns \X Accounts
    /\ terminal \in Accounts /\ attached \in BOOLEAN /\ up \in BOOLEAN
    /\ timeouts \in 0..MaxTimeouts /\ drops \in 0..MaxDrops

\* An instance that is enabled and says CONNECTING or FAILED has a thread, a
\* timer or a submitted task that will try (again): threads that cancel each
\* other's timers, give up waiting or answer late never leave it with nobody,
\* which connect() would wait on for ever (connect 628-633, _schedule_retry).
SomeoneTries ==
    \A c \in Conns : config[c] # "disabled" /\ state[c] \in {"CONNECTING", "FAILED"} =>
        \E t \in Chains : Of[t] = c /\ pc[t] \in Working

\* "Aethelgard will NOT execute on real accounts": an order reaches one only
\* if it is the account of an instance with complete credentials, never the
\* one the terminal was left on, however attempts, timers, disconnections and
\* orders interleave.  It is no more: an instance of a real account moves the
\* terminal before it is rejected, and an order of another follows it there.
Ours == {Account[c] : c \in {d \in Conns : config[d] = "complete"}}
OnlyConfigured == \A o \in sent : o[2] \in Demo \cup Ours

\* An attempt that was begun with complete credentials ends in a connection
\* once the broker stays reachable, whoever gave up waiting for it (retry
\* every 30 seconds).
Connects ==
    \A c \in Conns :
        config[c] = "complete" /\ state[c] \in {"CONNECTING", "FAILED"} ~> state[c] = "CONNECTED"

=============================================================================
