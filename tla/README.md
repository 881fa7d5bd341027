# A TLA+ model of Aethelgard's trading core

Aethelgard is a Python trading system: one asyncio process scans markets, turns
signals into orders, follows the positions at the broker and adapts its own
limits, while several threads and the process of the API share its objects and its
database. This directory holds TLA+ modules of the parts whose correctness
depends on interleavings, failures and restarts, the TLC configurations that
check them on small instances, and TLAPS proofs of what holds for every instance.

`PROJECT.json` lists the components, the runs, the hazards at their lines, the
theorems and the findings, and maps every definition to the lines it stands for.

| To do this | run, in this directory |
|---|---|
| check a run, e.g. `risk_lockdown` | `tlc -config RiskManager.cfg MCRiskManager` |
| check the proofs of a component | `tlapm RiskManagerProofs.tla` |

## 1. Inventory

| Component | Source | State | Operations | Talks to | Correct when |
|---|---|---|---|---|---|
| Risk manager | `core_brain/risk_manager.py`, `health.py` | losing streak, lockdown flag, `sys_config.lockdown_mode` | record a result, lock, unlock, auto-correct, restore at start | closure listener (loop and EdgeMonitor thread), guards, storage | a streak at the limit locks; nothing but a win or a start lifts; the stored row agrees |
| Trade closure | `trade_closure_listener.py`, `orchestrators/_background_tasks.py`, `connectors/mt5_connector.py`, `monitor.py`, `edge_monitor.py` | broker history, cursor, `usr_trades`, `sys_trades`, signal status | poll, reconcile, save with retries, count, close signals | broker, storage, risk manager | every closing stored, each stored result counted at most once, never counted unstored |
| Resilience | `resilience_manager.py`, `resilience_autotune.py`, `close_only_guard.py`, `api/routers/resilience.py` | posture, mutes, quarantines, healing attempts, close-only guard, degraded modules, tuned thresholds | report, self-heal, correlate, escalate, revert, operator commands, tune | guards and monitors, API, executor | the posture reflects the evidence held, guard and modules agree, no early revert, thresholds stay ordered |
| Signal execution and review | `executor.py`, `services/execution_service.py`, `services/signal_review_manager.py`, `signal_expiration_manager.py`, `services/signal_lifecycle_manager.py`, `data_vault/signals_db.py` | signal status, review status, open positions, orders in flight | emit, filter, queue, answer, time out, execute, register, expire | risk manager, broker, trader (API process), storage | one fill per signal, one tracked position, a rejection holds, nothing stays pending |
| Main cycle | `main_orchestrator.py`, `orchestrators/*` | active signals, vetoes, counters, statistics, repair flags | pre-, scan, filter, execute and post phase, shutdown | all of the above | phases see the state of their own cycle; no lost update of shared rows |
| Configuration cache | `data_vault/system_db.py`, `data_vault/storage.py`, `orchestrators/_background_tasks.py`, `_lifecycle.py` | rows of `sys_config`, the copy of each store, its age; repair flags, session statistics | read, update, change in place, write back whole, write past the copy, invalidate, raise, repair | every component, several threads, the process of the API | no copy older than the time to live; a copy shows the table; a raised flag is served |
| Database manager | `data_vault/database_manager.py`, `drivers/sqlite_driver.py`, `db_policy_tuner.py`, `base_repo.py` | pool, transaction locks, nesting depth, degraded and read-only sets, what a connection has pending | block, driver write, legacy write, stale detection, recovery, close | every repository, several threads | a call is atomic; no lock and no transaction is left behind |
| Strategy life cycle | `backtest_orchestrator.py`, `shadow_manager.py`, `strategy_ranker.py`, `data_vault/schema_migrations.py`, `start.py` | mode, relaxed threshold, failures, pool of shadow instances, ranking row | batch, relax, promote, create, expire, record, evaluate, rank, quarantine, start | storage, cycle, closure | only a promoted strategy trades; no strategy is stuck; the pool is bounded |
| Position management | `position_manager.py`, `data_vault/execution_db.py` | the broker's position, its metadata row, synced orphans, failures of modification | sync, limit of loss, limit of age, breakeven, trailing stop, regime adjustment | broker, executor, storage | a position beyond a limit is closed |
| MT5 connection | `connectors/mt5_connector.py` | state and flags of the instance, retry timer, executor queue; the library's session | connect, retry, blocking connect, disconnect, check, send | broker terminal, executor thread, timers | somebody tries while the state says so; an order only on an account that was configured |
| Scanner | `scanner.py`, `orchestrators/_cycle_scan.py`, `_scan_methods.py` | schedule, regimes, breakers, results, classifiers, CPU throttle | guard, request, time out, fetch, classify, fail, publish | providers, main cycle | two scans do not mix; every pair gets results for ever |
| Cooldowns, deduplication windows | `cooldown_manager.py`, `dedup_learner.py` | retries and expiry per signal, learned windows | escalate, clear, learn | executor, factory | bounded escalation, bounded change of a window |
| Connection health | `connection_health_monitor.py` | failures, back-off, snapshot | heartbeat, reconnect, fallback | nothing in the program starts it | bounded attempts, callbacks in order |
| The rest | sensors, strategies, position sizes, learning, backtest simulation, other connectors, API, notifications, UI, scripts | | | | see section 8 |

What is hard here, and what a unit test hardly reaches:

- the event loop and several threads share objects that take no lock (risk
  manager, configuration cache, connection pool);
- coroutines read state, await the broker or the database, and use what they read;
- every write of the database may be refused, and most callers swallow that;
- the process may stop between two writes that belong together, and memory that
  was never stored (posture, cursor, streak) starts from its default;
- the broker names one trade in several ways, and its answer may be lost after
  the order was filled;
- timeouts race with the answers of a trader who sits in another process;
- a wait that ends by a timeout leaves the work it waited for running, in a thread
  that shares its objects with the next attempt;
- counts and limits set by one operation are read by others much later.

`PROJECT.json` lists forty such hazards at their lines. Thirty-seven are checked by
the properties below; the others carry the reason why they are not.

## 2. Modules

| Module | Models | State variables and the code's |
|---|---|---|
| `RiskManager` | the lockdown of one object under two threads | `losses` = `consecutive_losses`, `lockdown` = `lockdown_mode`, `stored` = the row of `sys_config`, `pc` = where a thread is in a method, `seen` = the row in a whole `sys_config` that a caller has read and will write back; `stale`, `overlap`, `undone` are history |
| `TradeJournal` | what the closure path promises: write once, report at most once and after the write, only a stop loses a report | `status` of each row |
| `TradeClosure` | poller, reconciliation, listener, `ClosingMonitor` | `closed` = broker history, `rows`, `monitorRows` = both tables, `counted` = calls of `record_trade_result`, `cursor` = `_last_checked_deal_ticket`, `task`, `monitor` = where each worker is, `signal` = `sys_signals.status` |
| `ResilienceAutoTune` | the thresholds and their adjustment, pure operators | `Harden`, `Soften`, `Clamped` over integers, as `math.ceil` and `math.floor` leave them |
| `Resilience` | the manager with its guard, tuner and operator commands | the attributes of the object one by one, named in the module; `overridden`, `cycles` are history |
| `SignalLife` | what the execution of signals promises: sent once at most, alone, never after a confirmed rejection; sent, then executed, then closed, or lost for good | `life` of each signal, `held` = open positions |
| `SignalExecution` | a signal from emission to its end | `row`, `review` = columns of `sys_signals`, `phase`, `todo`, `batch` = the cycle, `exec` = the executor's order, `fills`, `open` = the broker, `request` = an answer read and not yet written; `told`, `overrun` are history |
| `DatabaseManager` | the shared connection of one database | `pool`, `alive`, `inTx`, `queryOnly` = the connections, `txLock`, `owner` = transaction locks, `degraded`, `readOnly`, `depth`, `conn`, `mine` = of a thread; `saved`, `pending` = what SQLite holds; `mixed` is history |
| `PositionManager` | the turn of one position in the monitor | `meta` = its row, `synced` = `_synced_orphans`, `failing` = three `_modification_failures`, `snap`, `held` = what a monitor has read; `positionOpen`, `price`, `sl`, `age`, `marketRegime` = the broker; `crossed` is history |
| `StrategyLifecycle` | one strategy from backtest to quarantine, and the start of the program | `mode`, `relaxed`, `failures` = row of `sys_strategies`, `pool` = `sys_shadow_instances`, `ranking`, `strong`, `breached` = row of `sys_signal_ranking`, `pc` = the coroutine; `unreconciled` is history |
| `MT5Connector` | attempts, timers, executor and orders of the connector | `state`, `connected`, `demo`, `retryTimer`, `queue`, `task` = attributes of an instance, `config` = what its account and credentials allow, `terminal`, `attached` = the library's session; `sent` is history |
| `SysConfig` | the configuration table and its copies | `row` = the table, `copy`, `age` = `_sys_config_cache` and its time, `inner` = whether it shows values changed in place, `pc`, `got` = a thread in a call and what it has read, `sharing` = who holds the copy itself; `past`, `late`, `tainted`, `owed` are history |
| `Scanner` | scans, breakers, schedule and results | `at`, `found` = the threads of a scan, `order` = whose frame is not newer than whose, `loader` = the shared classifier, `scanRegime` = `last_regime`, `since`, `scanFailures` = `consecutive_failures`, `cooldown`; `abandoned`, `beside` are history |
| `MC…` | the instances for TLC | |
| `…Proofs` | the theorems; `MainCycleProofs` has those of `SignalExecution`, `Scanner` and `PositionManager` | |

`Scanner` and `PositionManager` prefix the usual names (`ScanInit`, `PositionSpec`),
so that one module can extend them together with `SignalExecution`.

### 2.1 RiskManager: what is one step

The object takes no lock and is called by two threads. The interpreter changes
threads at calls and at loop back-edges, so a step ends where a method calls
another Python function or writes to the database: `record_trade_result` up to
the call of `_activate_lockdown` or `_deactivate_lockdown`, the test of
`_activate_lockdown`, its assignment (after `datetime.now()`), and the write of
`sys_config`. `update_sys_config` catches every exception, so `Persist` may leave
the row as it was. `Restart` restores the stored flag or, by
`_should_reset_lockdown`, lifts it. `AutoCorrectLockdown` has the effect the code
has: with a lockdown in force it queries a table that was renamed and ends in its
`except`.

The row has other writers. `update_dynamic_params` and `update_risk_settings` read
the whole table, change one entry and write every row back, this one included. The
main loop does so in its scans, the tuners and the API now and then. Such a caller
is a `Writer`: `ReadState` keeps the row as it is, `WriteBack` puts it back,
whatever was saved since. What a store's cached copy adds to the age of that state
is covered, for `ReadState` and `WriteBack` may be arbitrarily far apart.

### 2.2 TradeClosure: four writers of one history

`Close(p)` is the broker; positions close in any order while tickets follow the
order of opening. The poller sees tickets above its cursor, on the event loop.
The edge thread takes every exit deal of the last 24 hours; `Recent` are the
positions whose opening deal is still in that window and `Linked` those whose
deals carry the signal's id in the form the connector looks for. (The connector
writes `AE_…` and looks for `Aethelgard_…`, so in production no position is
linked; the results hold for any `Linked`.) Both feed `TradeClosureListener`:
`AlreadyProcessed` or `Resolve`, then `SaveOk`, `SaveLocked` (a retry, the loop
free meanwhile) or `SaveFail`, then `Count`. The `ClosingMonitor` writes rows of
its own and then the status. `Restart` may come between any two steps; the cursor
starts at zero again. The module is composed with `TradeJournal` by a refinement
mapping: a row is `saved` when it is in `rows`, `counted` when its result was
recorded once, `lost` when a restart came between.

### 2.3 Resilience: one handler, one step

`process_report` runs to its end without an `await` in the loop that also serves
the operator's commands, so each handler is one action, and what it calls on the
way (correlation engine, root-cause diagnosis, healing playbook, arbitration,
close-only protocol) is part of it. `QuarantineShared` is the report that becomes
a report of its provider. `Heal` counts an attempt and, exhausted, sets STRESSED
before the escalation matrix is asked, as the code does. The list of strategies
per provider is a bag, as `list.append` and `list.remove` make it. The window of
mutes is the age of each scope's last mute in ticks.

### 2.4 SignalExecution: three processes of a signal

The cycle (`StartCycle` … `EndCycle`) follows `run_single_cycle`: mark the
timed-out reviews, execute them, expire, scan, filter, execute. The executor's
checks run without an `await`, so `Admit` is one step; sending is a thread, so
`Fill`, `Answered` and `AnswerLost` come later, and lockdown, closings and the
trader come in between. The trader's answer is a read (`TraderReads`) and an
unconditional write (`TraderWrites`) in the process of the API. A signal whose
row could not be saved goes on without one (`"unsaved"`). `Restart` stops the
process of the cycle anywhere; rows, broker and trader go on.

The module is composed with `SignalLife` by a refinement mapping, `LifeOf`. A signal
without a fill is `waiting`, or `refused` once the trader was told so in time. One
with a fill is `executed` or `closed` if its row says so, else `sent` while the
executor has it, else `lost`: its answer was lost, its row was never saved, or the
process stopped. `SignalLife` sends an order only with no other one out and no open
position known as executed. It has no step out of `lost`: the code never finds a
fill again that it took for rejected.

`Traced` are signals that carry the trace id of their cycle. In production all
do, and then `queue_for_review` updates no row (section 7). The run has
`Traced = {}`, the path for a signal without one, because only there does a
review ever become PENDING and the rest of the review machinery run.

### 2.5 DatabaseManager: three ways to write on one connection

All threads of a process share one SQLite connection per file. A `Repository`
thread runs a block of two statements in `driver.transaction()`, a `Writer` one
statement in `driver.execute()` with its retries and its recovery, and a `Legacy`
thread executes and calls `conn.commit()` on `_get_conn()` without any lock, as
`save_trade_result` and about forty functions do. A step is what lies between two
places where another thread can come in: taking a lock, testing whether the
connection is stale, `BEGIN`, a statement, `COMMIT` or `ROLLBACK`, each stage of
the recovery. SQLite is external: `COMMIT` and `ROLLBACK` act on everything the
connection has pending, whoever wrote it, and `BEGIN` may be refused because
another process holds the file. `mixed` remembers the calls whose transaction
another thread touched; `AllOrNothing` is about the others.

### 2.6 PositionManager: one turn of one position

Positions are handled one by one, so one ticket is enough. A second monitor may run
beside the first, which the phase gave up after its 60 seconds. A monitor takes
a snapshot (`Start`), then goes through the code's order: orphan sync, loss limit,
age limit, breakeven, trailing stop, regime adjustment. Each read, write or call
of the broker is a step that may fail, and the market moves in between. The
row and the set of synced tickets change in steps of their own: `SyncSave`, then
`CountSynced`; `Discard` of an unsound row, then `Forget`. The delete and the commit of
either may fail, and the other monitor and the executor come in between. The
executor's own save of the metadata (`ExecutorSaves`) may come before or after
the orphan sync. The code compares the type of a position with `'BUY'` and
`'SELL'` while the connectors deliver 0 and 1; the branches that this disables
are disabled in the model too. Likewise the cooldown and the daily limit of
modifications look at columns that nobody fills, so `_can_modify` allows all.

### 2.7 StrategyLifecycle: two records of one mode

`sys_strategies.mode` decides what is backtested, `sys_signal_ranking.execution_mode`
what is traded. Batches promote the first, the ranker and the coherence gate move
the second, and every start copies the first over the second. The module has the
steps of the start (`migrate`, `expire`, `populate`, `orphans`, `clean`), the batch
with its threshold read before and written after it, its cancellation, and the
life of shadow instances. An error of the copy at the start is logged and the start
goes on with two records that differ (`Migrate`, `unreconciled`). `relaxed` counts the
multiplications by 0.95 instead of storing a float. `Grade` is what the simulation
may answer.

### 2.8 MT5Connector: attempts that outlive their callers

`connect()` starts a raw thread that schedules a timer when it fails, which starts
another attempt: a *chain*. `connect_blocking()` puts a task into the executor's
queue and waits 60 seconds; the task runs on when the wait is over. All of them
write one `connection_state` and one `retry_timer`. The MetaTrader library is a
module with one session for the whole process, so `terminal` and `attached` belong
to no instance. `Before` is the account on which the terminal was left, in the run
a real one.

What the database holds for an instance is `config`. Without an account or a
password it is disabled: `connect()` and `connect_blocking()` say FAILED and nobody
tries (`Refused`). Without a login or a server it is incomplete: every attempt
attaches the terminal and then fails.

### 2.9 SysConfig: a cache without a lock

A read is the test of the copy, a `SELECT` and the fill; a write is a transaction
and the invalidation. Every one of these is a step, in threads of one store or of
several (the API has its own).

A read returns the dictionary that is the copy, and `sharing` are the threads that
hold it. Some callers change a value inside it before they write: the module switches,
the funnel snapshots, `dynamic_params`, `risk_settings` (`InPlace`). Then either the
one key is written (`ChangeKey`) or, by `update_dynamic_params` and
`update_risk_settings`, the whole dictionary with every row as it was read
(`ChangeWhole`). A failed write leaves the copy as it was changed; `inner` says so.
`update_user_config`, `append_to_system_ledger` and `save_resilience_params` write the
table and never invalidate (`"direct"`). On top run the main loop, which consumes
the repair flags (read, repair, clear) and rewrites `session_stats`, and the edge
monitor and the API, which raise flags.

Two rows are followed, a repair flag and a `setting`, which stands for any key that
is written with its caller's own value, the lockdown and the ledger among them. Of
the values that are changed in place it is followed whether a copy shows some that
are not saved, not what they are.

### 2.10 Scanner: a scan that was given up goes on

The cycle passes the guards and the CPU throttle, asks for the pairs due and waits
for `execute_scan()` on a thread of the default executor. `Timeout` ends the wait:
a request still queued is cancelled, a scan that has begun is abandoned and its
threads go on. They share the breaker, the classifier and the results with the
next scan. Prices are not modelled; a frame is known by its holder, and `order`
relates the holders of a pair's frames by age.

## 3. Runs

| Run | Configuration | Expect | States | What it shows |
|---|---|---|---|---|
| `risk_lockdown` | `RiskManager.cfg` | pass | 50 974 | two threads, a writer of whole states, failing writes, restarts: `StreakLocks`, `StoredAgrees`, `LiftedByWinOrRestart`, and the answer to a streak (`StreakAnswered`) |
| `closure` | `TradeClosure.cfg` | pass | 159 577 | poller, reconciliation and ClosingMonitor with locked saves, a restart, SHADOW trades: `RowsAccounted`, `ClosedHasRow`, `ImplementsJournal`, and that every recent closing gets its row (`Reconciled`) |
| `resilience` | `Resilience.cfg` | pass | 528 771 | mutes and their correlation, healing retries, quarantines of a shared provider, lockdown, tuning, operator commands: `EvidenceReflected`, `GuardMatchesModules`, `ThresholdsOrdered`, `PostureSticks`, `RevertWaits` |
| `resilience_lockdown` | `ResilienceLockdown.cfg` | violation | | finding 1, `LockdownClosesEntries` |
| `signal_cycle` | `SignalExecution.cfg` | pass | 166 596 | one signal that may be reviewed and a direct one, with fairness: `FilledOnce`, `ExecutedWasFilled`, `OneTracked`, `LockdownOverrun`, `OpenQuestion`, `RejectionHolds`, `ImplementsLife`, `PendingResolved`, `ReviewAnswered` |
| `storage` | `DatabaseManager.cfg` | pass | 480 560 | a block, a driver write and a legacy write on one connection, with stale detection, recovery, a close from outside: `LocksReleased`, `NoStrandedTransaction`, `AllOrNothing` |
| `storage_depth` | `DatabaseManagerDepth.cfg` | violation | | finding 2, `RollsBackOnError` |
| `positions` | `PositionManager.cfg` | pass | 359 508 | one position through the turns of two monitors, failing closes, writes and deletes, the executor's save: `SyncedHasRow`, `LossBounded`, `Expires` |
| `lifecycle` | `StrategyLifecycle.cfg` | pass | 816 376 | starts and their failing reconciliation, batches, pool, ranker, quarantine: `PoolBounded`, `TradedIsPromoted`, `Unblocked` |
| `mt5_connect` | `MT5Connector.cfg` | pass | 704 321 | two chains, a blocking caller, orders, a lost link, any configuration: `SomeoneTries`, `OnlyConfigured`, `Connects` |
| `config_cache` | `SysConfig.cfg` | pass | 780 272 | the main loop and a second thread on its store or another, values changed in place, writes of whole dictionaries and past the copy, failed writes, a restart: `BoundedStaleness`, `Coherent`, `FlagServed` |
| `scan` | `Scanner.cfg` | pass | 104 198 | scans given up and their successors, breaker, throttle: `NoMixing`, `Refreshed` |

Every property of a passing run has a mutant in `PROJECT.json`: a definition of
the model changed the way a plausible bug would, defined beside the original
(`Mutant:` comments), with which TLC finds the property violated. Each of the ten
component modules defines a type invariant. That of `Resilience`, which bounds the
tuned thresholds, is checked by its run; all ten are theorems.

Deadlock is checked except in three runs. In `storage` the calls are bounded, so
every thread may be done; in `positions` a closed position has no further turn; in
`mt5_connect` the connector stops for good after `disconnect()`, as in the code.

### The properties in words

- `StreakLocks`: a streak at the limit without a lockdown is seen only while a
  thread is on its way to set it. `StoredAgrees`: with no write pending, the
  row says what memory says, unless two changes overlapped, the write was swallowed
  or a whole-state write has put an older row over it.
- `RowsAccounted`: a row has its result counted once, about to be, or lost with a
  stopped process; no result is counted without its row. `ClosedHasRow`: a signal
  marked CLOSED has the row of its trade.
- `EvidenceReflected`: until the operator sets the posture it is at least what
  every record still held calls for, whichever handler made it. `RevertWaits`:
  the protocol is not lifted before `min_stability_cycles` attempts since
  STRESSED was entered. Operator overrides are excluded because the command sets
  the posture and resets nothing.
- `ImplementsLife`: whatever the cycle, the trader, expiry, errors and restarts do,
  no signal is sent twice or beside another, none after a confirmed rejection, and
  no status of a filled signal is taken back; a position is recorded as closed only
  after one has left the broker.
- `OneTracked`: of the positions open at the broker, at most one is known as
  executed for the slot. A fill whose answer was lost is open and unknown, as in
  the code; that is why the property speaks of known positions.
- `RejectionHolds`: a rejection confirmed to the trader before the cycle fetched
  the signal as timed out is final. One that overlaps the marks is not.
- `LockdownOverrun`: at most the one order in flight is filled after a lockdown
  began, because the thread does not read it again.
- `AllOrNothing` speaks of the calls that began their own transaction or are a
  single statement, and whose transaction no other thread used. At no moment does
  the file hold the half of such a call. When it is over it wrote all its statements
  if it returned, and none if it raised, through `driver.transaction()` and
  `driver.execute()`. Both limits are the code's: a legacy commit saves half of
  another thread's block, and a legacy write that raised may have written. Its
  statement is in the file before `conn.commit()` is called, and that raises when
  another thread has closed the connection in between, so the caller is told of a
  failure that was none.
  `NoStrandedTransaction` and `LocksReleased`: whatever recovery, close and errors
  do, no transaction and no lock stays with nobody to end it.
- `SyncedHasRow`: a ticket counted as synced has a row or is about to be forgotten,
  with one exception: a monitor has saved the row, another deletes it as unsound and
  forgets the ticket, and only then does the first count it. `LossBounded`,
  `Expires`: a position beyond its loss or age limit is closed or returns within
  the limit, except that the age limit is never reached for a row without a risk,
  nor by a position that lost its row in that crossing.
- `PoolBounded`: repeated starts leave the pool below twice its capacity.
  `TradedIsPromoted`: outside of the start the strategy that may trade is one that
  a backtest promoted, unless the start swallowed an error of the reconciliation.
  `Unblocked`: a strategy whose backtests reach the floor of the threshold leaves
  BACKTEST.
- `SomeoneTries`: an enabled instance in CONNECTING or FAILED has a thread or a timer
  that will try. `OnlyConfigured`: an order that reaches a real account reaches one
  of an instance with complete credentials, never the account the terminal was left
  on; with one instance on a demo account, as in the run, it reaches no real one.
  `Connects`: an attempt begun with complete credentials ends in a connection once
  the broker stays reachable.
- `BoundedStaleness`: a fresh copy holds a setting that the table held at most the
  time to live before, also when the copy is written back whole. It is no promise for
  the values changed in place, which are shown before, or without, their being saved.
  `Coherent`: a copy differs from the table only between a write and
  its invalidation, after a `SELECT` that a write overtook, after a write of
  another store or one past the copy; and it shows unsaved values only while their
  caller is on its way to save them, or after their write failed or did not follow.
  `FlagServed`: a raised flag is followed by a repair, but for one
  raised between the repair of another and the write that clears it, and one that a
  whole-state write of an older dictionary undid.
- `NoMixing`: unless a scan ran beside one that was given up, no frame is replaced
  by an older one, no regime comes from another scan's frame and no breaker opens
  on failures a success cancelled. `Refreshed`: every pair gets results for ever.

## 4. Bounds, and why they are enough

| Constant | Values | Reason |
|---|---|---|
| `MaxConsecutiveLosses`, `MaxResults`, `Writer` | 2, 6, 1 | two streaks, a win between them and results of both threads; one caller that reads at any time and writes back at any later one. The safety results are proved for every value |
| `Position` | 2 | closings out of the order of opening need two; a third adds no new order relative to the cursor |
| `MaxRetries` (closure), `MaxRounds` | 2, 1 | a retry that succeeds and one that gives up; a round of the ClosingMonitor that a failure or a stop may cut |
| `MaxRestarts` | 1 | every place where the process can stop; a second stop meets the same states but for the counter |
| `Scope`, `CorrelationThreshold`, `Provider` | 2, 2, 1 | the cascade needs distinct scopes up to its threshold, the shared quarantine two strategies of one provider |
| `MaxCount`, `Window`, `MaxHealRetries` | 2, 0, 2 | a healing retried and exhausted; the mutes of one moment; proved for any value |
| thresholds | small | they keep the order, both clamps and the one-unit rounding reachable; proved for any value |
| `Signal` | 2 | the properties compare two signals at most; proved for any set |
| threads of `DatabaseManager` | one of each kind | the kinds differ in what they lock; each pair of kinds meets |
| `Conn`, `Lock` | 4, 4 | more than the threads can hold at a time; a name is used again once forgotten |
| `MaxRetries` (storage), `MaxCalls`, `MaxCloses` | 1, 3, 1 | a retry and its exhaustion; each thread may call, or one thread three times, the depth surviving between calls |
| `Monitor`, `Price`, `Oldest`, `ComputedRisk` | 2, {1, 4}, 1, {1} | prices beyond the limit and beyond the profit, ages below and above the limit of either regime, for two monitors that may be anywhere in their turns; a computed risk, none at all (`NULL`), or the estimate of the orphan sync, zero once a stop is gone. `SyncedHasRow` is proved for any number of monitors, prices and ages |
| `Block`, `Floor`, `MaxFailures` | 2, 2, 3 | two relaxations reach the floor; failures before, at and after a relaxation |
| `Variations`, `MinTrades`, `MaxLosses`, `MaxTrades` | 2, 2, 1, 2 | a start on an empty, a half full and a full pool; instances judged, ready and quarantined |
| `MaxFaults` | 1 | a restart, a cancellation or a refused write at every place |
| `Chains`, `Callers`, `MaxTimeouts`, `MaxDrops` | 2, 1, 1, 1 | two chains that cancel each other's timers while a task is abandoned and the link is lost |
| `Store`, `Other`, `Setting`, `TTL`, `MaxStops` | 2, 1, 2, 1, 1 | the second thread on the store of the main loop or on another; inside and outside of the time to live; the copy, the table or both hold the newer value. The writes without a read are those of `Does`, past the copy and of a flag: the plain one of a setting differs from the latter in the row alone. Proved for any stores, threads and times, but for `FlagServed` |
| `Pair`, `Worker` | 1, 2 | one scan given up beside its successor; pairs share no state but the threads. Two pairs exceed 10 million states; `NoMixing` is proved for any number of pairs and threads |
| `Interval`, `MaxFailures` (scan), `Cooldown` | 1 and 2, 2, 1 | a pair due and one not; a breaker that opens, ends and opens again |

Counters without a bound in the code (results, attempts, rounds, restarts, calls)
are bounded in the guards by these constants; the proofs do not depend on their
values.

## 5. Fairness

- `RiskManager!FairSpec`: a thread inside a method is scheduled again. Nothing is
  assumed about results arriving.
- `TradeClosure!FairSpec`: the EdgeMonitor thread repeats a round every minute for
  ever (`edge_monitor.py`, `while self.running`), and a save is not refused on
  every attempt (strong fairness of `SaveOk`). Nothing is assumed of the poller,
  which the main cycle reaches only after a cycle with orders and without
  lockdown, so `Reconciled` rests on the reconciliation alone.
- `SignalExecution!FairSpec`: the main loop repeats and the broker's call returns
  (`CycleStep`), time passes (`TimeOut`, `Age`), and marking a review or expiring
  a signal does not fail in every cycle (strong fairness of `Mark` and `Expire`:
  guards and errors may end a cycle early). Nothing is assumed of the trader.
- `Resilience` has no liveness property: nothing in the code promises recovery.
- `DatabaseManager` has none either: threads wait for locks without a time limit
  and another process may hold the file for ever.
- `PositionManager!PositionFairSpec`: the cycle goes on starting monitors and a turn goes
  on; a close and a save tried in every turn succeed at some time (strong fairness
  of `CloseOk` and of a `SyncSave` that succeeds); the executor comes to its save.
  Modifications may fail for ever.
- `StrategyLifecycle!FairSpec`: the coroutine goes on and cooldowns end, which is the
  passing of time; a batch is not cancelled or skipped every time and a pair of the
  strategy is again and again in a regime that suits it (strong fairness of
  `StartBatch` and `TestPair(TRUE)`).
- `MT5Connector!FairSpec`: threads are scheduled, timers fire, an order call
  returns, the broker can be reached again. Nobody has to call `connect()`.
- `SysConfig!FairSpec`: the main loop goes on and time passes, calls that were begun
  end, and the database does not refuse every read of the loop (strong fairness of
  its `SELECT`). Nothing is assumed of the write that clears a flag.
- `Scanner!ScanFairSpec`: the loop and the threads go on and time passes; a market
  opens, a request is taken from the executor's queue before it times out, a
  provider answers and metrics are valid again and again (strong fairness). With a
  provider that hangs for ever the executor's threads would be used up (section 7).

## 6. Proofs

TLAPS checks 7 346 obligations in eight modules, from the named assumptions on the
constants (`…Assumption`), which TLC also evaluates on every run. All are of the
form `Init => Inv`, `Inv /\ [Next]_vars => Inv'`, `Inv => property`. Each of the
thirty invariants, action properties and refinements of the passing runs is stated
by a theorem; what is left to TLC alone is liveness, and of
`FlagServed` the safety half is proved too.

| Module | Theorems | Inductive invariant |
|---|---|---|
| `RiskManagerProofs` | `TypeCorrect`, `StreakAlwaysLocks`, `StoredAlwaysAgrees`, `LiftedOnlyByWinOrRestart` | `TypeOK`, `StreakLocks`, `StoredAgrees` with `undone` and `PendingWrite`: which value the one thread with an unsaved change will write. Without it the step `SaveLockdown` could store anything |
| `TradeClosureProofs` | `TypeCorrect`, `AlwaysAccounted`, `ClosedAlwaysHasRow`, `ClosureImplementsJournal` | `TypeOK`, whose `InBatch` keeps every worker's place inside the history it fetched, `RowsAccounted` and `ClosedHasRow`. The refinement proof shows that a save maps to `Write`, a count to `Report`, a restart to `Crash` and every other step to a stutter |
| `ResilienceProofs` | `Invariance`, `TypeCorrect`, `AlwaysReflected`, `GuardAgrees`, `NeverLowered`, `RevertsLate`, `ThresholdsStayOrdered` | `EvidenceReflected` with `ProtocolState`, which relates guard, modules, posture and the two counts of revert attempts; for the thresholds `OrderInv` on top, because adjusted values must be known in bounds first |
| `MainCycleProofs`, of `SignalExecution` | `Invariance`, `TypeCorrect`, `NeverFilledTwice`, `ExecutedMeansFilled`, `OnePosition`, `LockdownHolds`, `QuestionsStayOpen`, `RejectionIsFinal`, `SignalsLive` | `SignalInv` for each signal (what a signal in `todo`, in `batch`, at the executor, under review or told of can have behind it), `SlotInv` (while an order is in flight no other known position is open) and `LockInv` (no order overran the lockdown while one is still to go out) |
| `MainCycleProofs`, of `Scanner` | `ScannerTypeCorrect`, `NeverMixed` | `Serial`: the cycle waits for one scan at most and every other scan under way was given up; `Owned`: `order` relates only the cache and scans that hold a frame; `Mixing`: a pair that was not scanned beside an abandoned scan is in one scan only, whose frame is newer than that of the cache |
| `MainCycleProofs`, of `PositionManager` | `PositionTypeCorrect`, `SyncedAlwaysHasRow` | `SyncedHasRow` with `Writes`: what a monitor is about to write is a row, and `Marks`: one that is about to count the ticket has its row or is in `crossed` |
| `DatabaseManagerProofs` | `TypeCorrect`, `LocksAlwaysReleased`, `LocksExclude`, `TransactionsEnd`, `CallsAtomic` | `Typed`: types with `Placed`, what the place of a thread says of its locals, the nesting depth above all; `Held` and `Writing` for the locks; `NoStrandedTransaction`; `ClosedEmpty` and `Whole` for atomicity (below) |
| `StrategyLifecycleProofs` | `TypeCorrect`, `PoolAlwaysBounded`, `TradedAlwaysPromoted` | `Full` (a pool of instances under its bound) and `Agree`: past a migration that reconciled the rows every ranking beyond BACKTEST, QUARANTINE included, has its strategy in SHADOW, and only a LIVE row is being vetoed |
| `MT5ConnectorProofs` | `TypeCorrect`, `WaitersAreOwed`, `SomeoneAlwaysTries`, `OrdersOnlyConfigured` | `Owed`: a thread waits exactly while its task is queued or running, once; `Tried`: the timer an instance names is of a chain of its own (`NamedTimer`), and a chain of every enabled instance that says CONNECTING or FAILED is under way (`Striving`); `OrdersSafe`: once an instance says connected the terminal is on a demo account or on that of a complete configuration, and only those log in (`Credited`) |
| `SysConfigProofs` | `TypeCorrect`, `StalenessBounded`, `CopyCoherent`, `FlagStands` | `Aging`: the table held what a fresh copy shows within the ticks of its age, and what a thread is about to fill it with since it asked; `Current`: a thread that is about to fill it and that no write overtook has the row as it is, beside `Coherent` itself; for the flag `NotCleared`: none is owed that the main loop is about to clear |

What the arguments rest on. A review is fetched only while PENDING and a signal
under review has not been sent, so marking it can put it into a batch once in its
life; a lost mark is retried on a signal that is still untouched. For the
thresholds it is that `High.caution < High.degraded`, that scaling and rounding
are monotone, and that a revert after enough cycles never softens.

For the storage, `NoStrandedTransaction` is its own induction once the places are
known: a thread keeps what it owns until its own `COMMIT` or `ROLLBACK`, and a
close either spares a connection inside a transaction or ends the transaction with
it. Atomicity then asks what each unmixed call has pending and saved (`Kept`): its
statements are pending only on the connection of its own transaction and are all
of those it has executed, or the connection is gone. Where it stands then
tells what the file shows of it (`WholeShown`): nothing of a block
before its `COMMIT`. The interesting steps are
those of other threads. A `COMMIT` that saves statements of somebody else marks
him as mixed, and a statement on a connection in a transaction belongs to a
transaction somebody owns (hence the first invariant), so it is marked too.
`CallsAtomic` says nothing of a mixed call, nor of what a legacy write that raised
has left, as `AllOrNothing` does not.

`OrdersOnlyConfigured` assumes nothing of the accounts. `connectivity_orchestrator.py`
(lines 148 to 173) loads an instance for every enabled account of the platform, demo
and real alike, and a real one logs in before it is rejected. So no theorem says that
an order never reaches a real account: with two instances it is false, as section 7
reports, and the theorem says which accounts are in reach.

`StoredAlwaysAgrees`, `SyncedAlwaysHasRow`, `TradedAlwaysPromoted` and `CopyCoherent`
name exceptions, each a history variable that a single action sets (`overlap`, `stale`
and `undone`; `crossed`; `unreconciled`; `tainted` and `inner`): what they prove is that
the code has no further way to that state.

`FlagStands` is the half of `FlagServed` that is not liveness: until a repair follows,
an owed flag stands in the table, whatever stale copies are written back, unless that
write is the one that undoes it and the flag is owed no more.

The refinement of `SignalLife` maps `Fill` to `Send`, the two ends of a call to
`Settle`, a restart to the `Settle` of the one order that is out, a confirmed
rejection to `Refuse`, and both places that close rows to `Record`. It rests on
`SignalInv`, which says of an order at the broker that its row is not yet executed,
and on `SlotInv`; every other step leaves the life of all signals as it is. That
`Emit` closes rows on the way is a `Record` of all ghosts at once, or of none.

For `Scanner` everything hangs on who may run beside whom. A scan begins only when
no other is awaited, so any second one was given up (`Serial`), and a pair that one
is still in is marked `beside`. A pair without the mark is in one scan: the frame in
its classifier is that scan's own, the failures that open its breaker are too, and
nobody is left who could publish an older frame. `NoMixing` follows step by step:
whatever replaces a newer frame, takes another scan's regime or opens a breaker on
failures a success cancelled has a second scan.

Only model-checked: the liveness properties `StreakAnswered`, `Reconciled`,
`PendingResolved`, `ReviewAnswered`, `LossBounded`, `Expires`, `Unblocked`,
`Connects`, `FlagServed` and `Refreshed` (temporal reasoning with fairness and
ENABLED is outside the prover's reach). The longest run of losses (`Streak`)
is a recursive function: what it computes for every log would take an induction
over data, so the proofs about `StrategyLifecycle` hold for any value of it.

## 7. Findings

Two contradict a line of the repository; `PROJECT.json` quotes it.

1. `resilience_lockdown`. Exhausted healing and the correlation cascade set
   STRESSED without the close-only protocol; a LOCKDOWN after that is no
   escalation and activates nothing (`resilience_manager.py:233`).
2. `storage_depth`. `BEGIN IMMEDIATE` stands before the `try` whose `finally`
   restores the nesting depth. After one refused `BEGIN` the thread takes every later
   block for a nested one: it begins, commits and rolls back nothing
   (`database_manager.py:298`).

Observations made while modelling. The models follow the code in each of them.

Risk, closure and resilience:
- `_deactivate_lockdown` and `activate_lockdown` change the flag and then write
  `sys_config` without a lock; two threads can write in the opposite order
  (`risk_manager.py:249`).
- The lockdown in `sys_config` is overwritten with its old value by a caller of
  `update_dynamic_params` or `update_risk_settings` that read the table before it was
  saved (`system_db.py:733`, `:749`). The main loop is one in every scan with a valid
  ADX (`_scan_methods.py:92`). Memory keeps the lockdown; a start after that does not.
- Poller, reconciliation and ClosingMonitor identify a trade by the position, the
  exit deal and a fresh uuid, so none recognises another's row
  (`mt5_connector.py:1664`).
- The count of revert attempts is reset by one of three entrances into STRESSED
  (`resilience_manager.py:235`).
- The manager is built without guard and tuner (`main_orchestrator.py:229`) and the
  executor with a guard of its own (`executor.py:130`).

Signals and the main cycle:
- A signal is queued for review under the trace id of its cycle, which no row has:
  the update touches nothing and success is reported (`signal_review_manager.py:88`).
- The expiry and the executor read at most 100 rows, newest first
  (`signals_db.py:192`).
- The economic veto never applies: its keys are `SYMBOL|TF`, from which no currency
  is derived (`_cycle_exec.py:45`, `economic_integration.py:511`), and signals are
  compared by symbol.

Positions:
- A position opened with no initial risk raises in the drawdown check of every
  turn, so that the age limit after it is not reached (`position_manager.py:537`).
- A ticket may be counted as synced without a row: one monitor writes it, another,
  beside it after a timeout, deletes it as unsound and forgets the ticket
  (`position_manager.py:1238`, `:1247`), and then the first counts it (`:405`). Neither
  limit applies to that position until the program starts again.
- The connectors give the type of a position as a number, the checks compare it
  with `'BUY'` and `'SELL'`; cooldown and daily limit of modifications read columns
  nobody fills; the metadata row is read, merged and replaced by two writers.

Strategies:
- Every start copies `sys_strategies.mode` over the ranking row
  (`schema_migrations.py:494`), which lifts a QUARANTINE. An error of that copy is
  logged as a warning (`:517`), and a row in SHADOW over a strategy in BACKTEST, as
  earlier versions left them, then trades.
- A relaxed threshold is never restored; an error while promoting counts as a
  pass; a batch cancelled by its 300 seconds starts anew; the capacity is tested
  before all variations of a strategy are created; the evaluation of an instance
  overwrites the quarantine of the coherence check (`shadow_manager.py:597`).

MT5:
- `disconnect()` leaves the state CONNECTED, so `connect()` does nothing afterwards
  (`mt5_connector.py:845`). Of the lost sessions one alone resets it, a terminal that
  `get_open_positions` finds not initialized (`:1187`); a lost link or a terminal moved
  to another account does not.
- An instance with incomplete credentials tries every 30 seconds and cannot succeed
  (`mt5_connector.py:692`); a disabled one says FAILED like one that retries.
- The library's session belongs to the process, and every enabled account has an
  instance (`connectivity_orchestrator.py:148`). With two of them, one on a demo and
  one on a real account, TLC finds in fourteen steps an order of the demo instance on
  the real account: the other's attempt moves the terminal between the check and the
  order (`mt5_connector.py:1055`, `:1041`), and is rejected only afterwards.

Configuration:
- A `SELECT` that a write overtook refills the copy after the invalidation
  ("Invalidated immediately", `system_db.py:53`).
- `update_dynamic_params` and `update_risk_settings` change the cached dictionary and
  write all of it back (`system_db.py:733`, `:749`): rows written since it was read,
  repair flags, the lockdown, session statistics, are put back to what they were.
- Values changed inside the cached dictionary (`system_db.py:541`, `:553`, `:734`,
  `:750`, `_scan_methods.py:91`) are shown to every reader although their write failed.
- `update_user_config`, `append_to_system_ledger` and `save_resilience_params` write
  `sys_config` and never invalidate the copy (`storage.py:410`, `:446`, `:825`).
- The shutdown and a failed read write `session_stats` without the funnel keys that
  the docstring promises to keep (`_lifecycle.py:45`, `:62`, `:292`).
- A flag raised between a repair and the write that clears it is lost.

Storage:
- A close or a recovery forgets the lock with the connection: two threads then hold
  different locks on one file. A legacy commit ends the transaction of another
  thread. `query_only` reaches no connection that was dropped before.

Scanner:
- A scan that was given up may replace newer results by older ones, give another
  scan its regime, or open a breaker after a success; hung scans keep threads of
  the default executor.
- A pair whose scans fail keeps its last frame among the results, and cycles go on
  making signals from it; an invalid ADX neither counts as a failure nor resets
  the count; after a cooldown one failure opens the breaker again.

## 8. Not modelled, and why

The map covers about nine per cent of the lines of the implementation. Most of the
rest is no state machine: user interface, adapters to brokers and data feeds,
indicators and statistics in floating point, SQL schemas and seeds, one-statement
repository methods, notifications, scripts. A model of it would transcribe it
line by line or leave a choice of any value, which is what the models do with its
results.

- Regime computation, sensors, strategies, position sizes, slippage, learning and
  the simulation of backtests: functions of price series. Their results enter
  the models as choices (any signal may be emitted, refused or graded).
- The audit rows, narratives, notifications, UI and scripts: no state that another
  component reads.
- `ConnectionHealthMonitor`, `AdaptiveBacktestScheduler`, `MT5Connector.start()` and
  `CircuitBreaker.check_and_degrade`: nothing in the program calls them.
- The economic calendar: its veto changes nothing (section 7).
- In `TradeClosure`: partial closes, prices, feedback and tuning after the count.
- In `Resilience`: `IncidentLearningEngine` (never injected by the orchestrator),
  `is_healing` (true only inside a handler), durations in seconds.
- In `SignalExecution`: cooldown records, the SHADOW injection, and the manual
  execution of an approved signal, which reads an undefined name before an order
  is made. Signals share a symbol and a timeframe, the case in which they compete;
  the windows of deduplication and of expiration are both four candles, hence one
  set `aged`. The limit of 100 rows of the queries is above the instance.
- In `DatabaseManager`: nested `transaction()` blocks, the telemetry queue, metrics,
  backups, and the connection that `ShadowManager` keeps for itself.
- In `PositionManager`: size checks and notifications at the end of a turn.
- In `StrategyLifecycle`: the simulation, the scores of instances, drawdown figures
  (no code computes `max_drawdown` of an instance).
- In `MT5Connector`: market data and symbols, and a terminal that is closed by hand,
  with the reset of `get_open_positions` (`mt5_connector.py:1187`) that answers it.
  Closing and modifying positions are in `PositionManager`, the reconciliation in
  `TradeClosure`.
- In `SysConfig`: the counters of a session, the values changed in place, which funnel
  snapshots a rewrite drops, the typed getters, other tables.
- In `Scanner`: the averages of CPU and latency, notifications, reloading of
  timeframes.
- Each module takes the switch settings of its composition as constants (`Guarded`,
  `Tuner`); the start-up that fixes them is not a module.

## 9. Plan

Done: 1. `RiskManager`; 2. `TradeClosure` implementing `TradeJournal`;
3. `Resilience` with `ResilienceAutoTune`; 4. `SignalExecution`; each with its
run and its proofs. 5. `SysConfig`; 6. `DatabaseManager`; 7. `StrategyLifecycle`;
8. `PositionManager`; 9. `MT5Connector`; 10. `Scanner`; each with its run.
11. The proofs of `MT5Connector`, `SysConfig`, `DatabaseManager` and
`StrategyLifecycle`. 12. Those of `Scanner` and `PositionManager`, and the
refinement of `SignalLife`.

Next:

- Refinements of abstract specifications: a store of whole calls that the unmixed
  calls of `DatabaseManager` implement, a register of bounded age for `SysConfig`.
- `Orchestrator`: the composition of risk manager, resilience and execution as
  start-up builds it.
- `Cooldown` and the choice between competing signals, as small machines; the
  window adjustment of `dedup_learner.py` as a pure algorithm against a reference
  definition over bounded inputs.
