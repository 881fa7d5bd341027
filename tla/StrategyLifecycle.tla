--------------------------- MODULE StrategyLifecycle ---------------------------
(***************************************************************************)
(* The life of one strategy: batch backtests that promote it to SHADOW     *)
(* (core_brain/backtest_orchestrator.py), the pool of shadow instances     *)
(* that compete for it (core_brain/shadow_manager.py, data_vault/          *)
(* shadow_db.py), its row of sys_signal_ranking, which the ranker, the     *)
(* coherence gate and every start of the program move between SHADOW, LIVE *)
(* and QUARANTINE (core_brain/strategy_ranker.py, core_brain/orchestrators *)
(* /_guard_suite.py, data_vault/schema_migrations.py), and the restart     *)
(* that runs through the start-up steps of start.py and _lifecycle.py.     *)
(*                                                                         *)
(* sys_strategies.mode and sys_signal_ranking.execution_mode are two       *)
(* records of one thing; the orders are authorised by the second.          *)
(*                                                                         *)
(* The promotion threshold is the exponent of its 0.95: a run passes when  *)
(* the threshold has been relaxed at least `grade' times.  An instance of  *)
(* the pool is its status, whether it is older than the 48 hours an        *)
(* INCUBATING one may live, and its results, TRUE for a profit.            *)
(***************************************************************************)
EXTENDS Naturals, Sequences, FiniteSets

CONSTANTS Block,       \* failures that relax the threshold once: 3
          Floor,       \* relaxations after which the threshold is its floor
          Grade,       \* grades a backtest of the strategy may be given
          Pairs,       \* symbols a backtest of the strategy covers
          Variations,  \* instances the pool is started with: 2
          MinTrades,   \* results before an instance is judged: 5
          MaxLosses,   \* losses in a row an instance may have: 3
          MaxFailures, \* bound: failed backtests counted
          MaxTrades,   \* bound: results recorded for an instance
          MaxFaults    \* bound: restarts, timeouts and failed writes

ASSUME RunAssumption == /\ Block \in Nat \ {0} /\ Floor \in Nat /\ Pairs \in Nat \ {0}
                        /\ Grade \subseteq Nat /\ MaxFailures \in Nat
ASSUME PoolAssumption == /\ Variations \in Nat \ {0} /\ MinTrades \in Nat
                         /\ MaxLosses \in Nat /\ MaxTrades \in Nat /\ MaxFaults \in Nat

VARIABLES mode,     \* sys_strategies.mode
          relaxed,  \* promotion_threshold of execution_params, as an exponent
          failures, \* consecutive_failures of execution_params
          tested,   \* last_backtest_at is within the cooldown
          ran,      \* orch._last_backtest_run is within the cooldown
          snap,     \* the row of the strategy a running batch has loaded
          left,     \* pairs the running backtest has yet to look at
          scored,   \* a pair of it was not skipped
          grade,    \* the grade of the aggregate score
          pool,     \* instances not DEAD, the oldest first
          ranking,  \* execution_mode of sys_signal_ranking, "NONE" without a row
          strong,   \* the row's profit factor and win rate earn a promotion
          breached, \* its drawdown or losing streak is over the limit
          unreconciled, \* history: the last start did not reconcile the row
          pc,       \* where the main coroutine is
          faults
backtest == <<mode, relaxed, failures, tested, ran, snap, left, scored, grade>>
ranks == <<ranking, strong, breached, unreconciled>>
vars == <<backtest, pool, ranks, pc, faults>>

Boot == {"migrate", "expire", "populate", "orphans", "clean"}
Running == {"testing", "scored", "judged"}
Params == [relaxed: 0 .. Floor, failures: 0 .. MaxFailures]
Status == {"INCUBATING", "SHADOW_READY", "QUARANTINED"}
Born == [status |-> "INCUBATING", old |-> FALSE, log |-> <<>>]

\* A first start, or the start of a version over the database of an earlier one, whose
\* ranking row was copied once and whose instances may be orphans.
Init ==
    /\ mode \in {"BACKTEST", "SHADOW"}
    /\ relaxed = 0 /\ failures = 0
    /\ tested = FALSE /\ ran = FALSE
    /\ snap = [relaxed |-> 0, failures |-> 0]
    /\ left = 0 /\ scored = FALSE /\ grade = 0
    /\ pool \in {<<>>, <<Born>>}
    /\ ranking \in {"NONE", "BACKTEST", "SHADOW"}
    /\ strong \in BOOLEAN /\ breached \in BOOLEAN /\ unreconciled = FALSE
    /\ pc = "migrate" /\ faults = 0

Loop == pc = "loop"
Fault == faults < MaxFaults /\ faults' = faults + 1
To(place) == pc' = place

----------------------------------------------------------------------------
(* The start: the migrations of StorageManager, start.py's cleanup and     *)
(* pool, and the two cleanups of run_main_loop.                            *)

\* run_migrations ends by copying sys_strategies.mode over a row that differs from it; an
\* error is logged and the start goes on.
KeepsRow == ranking
Reconciled == IF ranking = "NONE" THEN "NONE" ELSE mode
Migrate ==
    /\ pc = "migrate" /\ To("expire")
    /\ \/ ranking' = Reconciled /\ unreconciled' = FALSE /\ UNCHANGED faults
       \/ UNCHANGED ranking /\ unreconciled' = TRUE /\ Fault
    /\ UNCHANGED <<backtest, pool, strong, breached>>

\* The instances at the places of `dead' leave the pool, the others keep their order.
Drop(dead) ==
    LET alive == DOMAIN pool \ dead
    IN \E at \in [1 .. Cardinality(alive) -> alive] :
          /\ \A m, n \in DOMAIN at : m < n => at[m] < at[n]
          /\ pool' = [n \in DOMAIN at |-> pool[at[n]]]

Expired(i) == i.status = "INCUBATING" /\ i.old

\* expire_stale_shadow_instances, before the pool is filled and again when the loop starts;
\* an error is logged and the start goes on.
Expire ==
    /\ \/ pc = "expire" /\ To("populate")
       \/ pc = "clean" /\ To("loop")
    /\ \/ Drop({n \in DOMAIN pool : Expired(pool[n])}) /\ UNCHANGED faults
       \/ UNCHANGED pool /\ Fault
    /\ UNCHANGED <<backtest, ranks>>

OverCapacity == Len(pool) > Variations
AtCapacity == Len(pool) >= Variations

\* initialize_shadow_pool_impl creates every variation for a strategy that is below its
\* capacity; each creation may fail on its own, and so may the load of the strategy.
Populate ==
    /\ pc = "populate" /\ To("orphans")
    /\ IF mode = "SHADOW" /\ ~AtCapacity
       THEN \/ /\ pool' = pool \o [n \in 1 .. Variations |-> Born]
               /\ UNCHANGED faults
            \/ \E k \in 0 .. Variations - 1 :
                  pool' = pool \o [n \in 1 .. k |-> Born] /\ Fault
       ELSE UNCHANGED <<pool, faults>>
    /\ UNCHANGED <<backtest, ranks>>

Incubating(i) == i.status = "INCUBATING"

\* mark_orphan_shadow_instances_dead.
Orphans ==
    /\ pc = "orphans" /\ To("clean")
    /\ \/ /\ Drop({n \in DOMAIN pool : mode = "BACKTEST" /\ Incubating(pool[n])})
          /\ UNCHANGED faults
       \/ UNCHANGED pool /\ Fault
    /\ UNCHANGED <<backtest, ranks>>

\* The program stops at any point and is started again; the cooldown of the loop and the
\* rows a batch had loaded were in memory.
Restart ==
    /\ Fault /\ To("migrate")
    /\ ran' = FALSE /\ left' = 0 /\ scored' = FALSE /\ grade' = 0
    /\ snap' = [relaxed |-> 0, failures |-> 0]
    /\ UNCHANGED <<mode, relaxed, failures, tested, pool, ranks>>

----------------------------------------------------------------------------
(* Backtests.                                                              *)

Load == [relaxed |-> relaxed, failures |-> failures]
\* check_and_run_daily_backtest past its cooldown loads the strategies in BACKTEST; one that
\* is on its own cooldown is skipped and the batch ends.
StartBatch ==
    /\ Loop /\ ~ran
    /\ IF mode = "BACKTEST" /\ ~tested
       THEN /\ snap' = Load
            /\ left' = Pairs /\ scored' = FALSE /\ To("testing") /\ UNCHANGED ran
       ELSE ran' = TRUE /\ UNCHANGED <<snap, left, scored, pc>>
    /\ UNCHANGED <<mode, relaxed, failures, tested, grade, pool, ranks, faults>>

Idle == snap' = [relaxed |-> 0, failures |-> 0] /\ left' = 0 /\ scored' = FALSE /\ grade' = 0
EndBatch == To("loop") /\ ran' = TRUE /\ Idle

\* One symbol of _execute_backtest: skipped when its regime does not suit the strategy,
\* scored and committed otherwise.
TestPair(compatible) ==
    /\ pc = "testing" /\ left > 0
    /\ left' = left - 1 /\ scored' = (scored \/ compatible)
    /\ UNCHANGED <<mode, relaxed, failures, tested, ran, snap, grade, pool, ranks, pc, faults>>

\* No pair was scored: neither the score nor last_backtest_at is written.
AllSkipped ==
    /\ pc = "testing" /\ left = 0 /\ ~scored /\ EndBatch
    /\ UNCHANGED <<mode, relaxed, failures, tested, pool, ranks, faults>>

\* A backtest that raises is counted as failed by the batch and leaves no trace.
Raises ==
    /\ pc = "testing" /\ Fault /\ EndBatch
    /\ UNCHANGED <<mode, relaxed, failures, tested, pool, ranks>>

\* The phase is cancelled after 300 seconds at one of its awaits: the batch is not marked as
\* run, so the next cycle starts another.
Timeout ==
    /\ pc = "testing" /\ Fault /\ To("loop") /\ Idle
    /\ UNCHANGED <<mode, relaxed, failures, tested, ran, pool, ranks>>

\* _update_strategy_scores, whose own error is logged.
Score(g) ==
    /\ pc = "testing" /\ left = 0 /\ scored /\ To("scored")
    /\ grade' = g
    /\ \/ tested' = TRUE /\ UNCHANGED faults
       \/ UNCHANGED tested /\ Fault
    /\ UNCHANGED <<mode, relaxed, failures, ran, snap, left, scored, pool, ranks>>

Lower(a, b) == IF a < b THEN a ELSE b
\* The threshold of this run: the one the last run used, relaxed again by the failures.
Effective == Lower(snap.relaxed + snap.failures \div Block, Floor)
Passes == grade <= Effective

\* _promote_to_shadow; its error is logged and the run counts as passed all the same.
Judge ==
    /\ pc = "scored" /\ To("judged")
    /\ IF Passes
       THEN \/ mode' = "SHADOW" /\ UNCHANGED faults
            \/ UNCHANGED mode /\ Fault
       ELSE UNCHANGED <<mode, faults>>
    /\ UNCHANGED <<relaxed, failures, tested, ran, snap, left, scored, grade, pool, ranks>>

CountsOnce == IF Passes THEN 0 ELSE 1
Counted == IF Passes THEN 0 ELSE Lower(snap.failures + 1, MaxFailures)

\* update_strategy_execution_params writes the loaded row back with this run's threshold.
Persist ==
    /\ pc = "judged" /\ EndBatch
    /\ \/ relaxed' = Effective /\ failures' = Counted /\ UNCHANGED faults
       \/ UNCHANGED <<relaxed, failures>> /\ Fault
    /\ UNCHANGED <<mode, tested, pool, ranks>>

\* Time passes: a cooldown ends.
BatchRests ==
    /\ ran /\ ran' = FALSE
    /\ UNCHANGED <<mode, relaxed, failures, tested, snap, left, scored, grade, pool, ranks, pc, faults>>
StrategyRests ==
    /\ tested /\ tested' = FALSE
    /\ UNCHANGED <<mode, relaxed, failures, ran, snap, left, scored, grade, pool, ranks, pc, faults>>

\* consume_oem_repair_flags: oem_repair_force_backtest ends both.
ForceBacktest ==
    /\ Loop /\ ran' = FALSE
    /\ tested' = IF mode = "BACKTEST" THEN FALSE ELSE tested
    /\ UNCHANGED <<mode, relaxed, failures, snap, left, scored, grade, pool, ranks, pc, faults>>

----------------------------------------------------------------------------
(* The pool.                                                               *)

OutOfLoop == UNCHANGED <<backtest, ranks, pc, faults>>

\* Two days have passed since the instance was created.
Age(n) ==
    /\ ~pool[n].old /\ pool' = [pool EXCEPT ![n].old = TRUE]
    /\ OutOfLoop

Recorded(n, won) ==
    /\ Len(pool[n].log) < MaxTrades
    /\ pool' = [pool EXCEPT ![n].log = Append(@, won)]

\* simulate_and_record: a signal of a strategy that is SHADOW, or has no row, is given a
\* result at once, for the first instance the query finds.
Simulate(won) ==
    /\ Loop /\ pool # <<>> /\ ranking \in {"NONE", "SHADOW"}
    /\ Recorded(1, won) /\ OutOfLoop

\* _resolve_shadow_context gives a closed trade to the newest instance when the strategy is
\* SHADOW, and also when it is LIVE or has no row and the pool is not empty.
CloseTrade(won) ==
    /\ pc \notin Boot /\ pool # <<>> /\ ranking \in {"NONE", "SHADOW", "LIVE"}
    /\ Recorded(Len(pool), won) /\ OutOfLoop

Won(log) == {n \in DOMAIN log : log[n]}
\* The longest run of losses, as calculate_instance_metrics_from_sys_trades counts it.
Streak(log) ==
    LET worst[n \in 0 .. Len(log)] ==
            IF n = 0 THEN [now |-> 0, max |-> 0]
            ELSE LET now == IF log[n] THEN 0 ELSE worst[n - 1].now + 1
                 IN [now |-> now, max |-> IF now > worst[n - 1].max THEN now ELSE worst[n - 1].max]
    IN worst[Len(log)].max

\* The three pillars: the first needs profits and depends on amounts and on the regime when
\* there are losses too, the third on the spread of the equity curve; the drawdown of the
\* second is never computed.
Pillar1(log) == IF Won(log) = {} THEN {FALSE}
                ELSE IF Won(log) = DOMAIN log THEN {TRUE} ELSE BOOLEAN
Pillar2(log) == Streak(log) <= MaxLosses
Pillar3(log) == IF Len(log) < MinTrades THEN {FALSE}
                ELSE IF Len(log) < 2 THEN {TRUE} ELSE BOOLEAN

Health(p1, p2, p3, log) ==
    IF ~p1 /\ Len(log) >= MinTrades THEN "DEAD"
    ELSE IF ~p2 THEN "QUARANTINED"
    ELSE IF ~p3 THEN "INCUBATING" ELSE "SHADOW_READY"

\* evaluate_all_instances, one instance of its list: the status it writes does not depend on
\* the one it read, so a quarantine lasts until the next hour.
Evaluate(n) ==
    /\ Loop
    /\ \E p1 \in Pillar1(pool[n].log), p3 \in Pillar3(pool[n].log) :
          LET health == Health(p1, Pillar2(pool[n].log), p3, pool[n].log)
          IN IF health = "DEAD" THEN Drop({n})
             ELSE pool' = [pool EXCEPT ![n].status = health]
    /\ OutOfLoop

----------------------------------------------------------------------------
(* The ranking.                                                            *)

\* run_coherence_gate vetoes a LIVE strategy: write_coherence_veto quarantines its instances,
\* then its row; either write may fail alone.
Veto ==
    /\ Loop /\ ranking = "LIVE" /\ To("vetoed")
    /\ \/ pool' = [n \in DOMAIN pool |-> [pool[n] EXCEPT !.status = "QUARANTINED"]] /\ UNCHANGED faults
       \/ UNCHANGED pool /\ Fault
    /\ UNCHANGED <<backtest, ranks>>
VetoRow ==
    /\ pc = "vetoed" /\ To("loop")
    /\ \/ ranking' = (IF ranking = "NONE" THEN "NONE" ELSE "QUARANTINE") /\ UNCHANGED faults
       \/ UNCHANGED ranking /\ Fault
    /\ UNCHANGED <<backtest, pool, strong, breached, unreconciled>>

Ranked(from, to) ==
    /\ Loop /\ ranking = from /\ ranking' = to
    /\ UNCHANGED <<backtest, pool, strong, breached, unreconciled, pc, faults>>

\* evaluate_and_rank, on rows of at least MIN_TRADES_FOR_PROMOTION trades.
Promote == strong /\ Ranked("SHADOW", "LIVE")
Rehabilitate == breached /\ Ranked("LIVE", "SHADOW")
Recover == ~breached /\ Ranked("QUARANTINE", "SHADOW")

\* The metrics of the row change; nothing in the program writes them.
Measure ==
    /\ ranking # "NONE" /\ strong' \in BOOLEAN /\ breached' \in BOOLEAN
    /\ UNCHANGED <<backtest, pool, ranking, unreconciled, pc, faults>>

----------------------------------------------------------------------------
Start == Migrate \/ Expire \/ Populate \/ Orphans
Batch == \/ StartBatch \/ AllSkipped \/ Judge \/ Persist
         \/ \E c \in BOOLEAN : TestPair(c)
         \/ \E g \in Grade : Score(g)
Pool == \/ \E n \in DOMAIN pool : Age(n) \/ Evaluate(n)
        \/ \E won \in BOOLEAN : Simulate(won) \/ CloseTrade(won)
Row == Veto \/ VetoRow \/ Promote \/ Rehabilitate \/ Recover \/ Measure

Next == \/ Start \/ Batch \/ Raises \/ Timeout \/ Restart
        \/ BatchRests \/ StrategyRests \/ ForceBacktest \/ Pool \/ Row

Spec == Init /\ [][Next]_vars

\* The coroutine goes on, cooldowns end, and a pair of the strategy is again and again in a
\* regime that suits it.
Fairness ==
    /\ WF_vars(Start) /\ WF_vars(Batch) /\ WF_vars(VetoRow)
    /\ SF_vars(StartBatch) /\ SF_vars(TestPair(TRUE))
    /\ WF_vars(BatchRests) /\ WF_vars(StrategyRests)
FairSpec == Spec /\ Fairness

----------------------------------------------------------------------------
(* Properties.                                                             *)

Results == {log \in Seq(BOOLEAN) : Len(log) <= MaxTrades}

\* Every column has a value of its type.
TypeOK ==
    /\ mode \in {"BACKTEST", "SHADOW"}
    /\ relaxed \in 0 .. Floor /\ failures \in 0 .. MaxFailures
    /\ tested \in BOOLEAN /\ ran \in BOOLEAN /\ scored \in BOOLEAN
    /\ snap \in Params /\ left \in 0 .. Pairs /\ grade \in Nat
    /\ pool \in Seq([status: Status, old: BOOLEAN, log: Results])
    /\ ranking \in {"NONE", "BACKTEST", "SHADOW", "LIVE", "QUARANTINE"}
    /\ strong \in BOOLEAN /\ breached \in BOOLEAN /\ unreconciled \in BOOLEAN
    /\ pc \in Boot \cup Running \cup {"loop", "vetoed"}
    /\ faults \in 0 .. MaxFaults

\* Starts that fill the pool again and again leave it below twice its capacity, whatever
\* cleanups failed and however many instances are too good to expire.
PoolBounded == Len(pool) < 2 * Variations

\* Outside of the start, orders are authorised only for a strategy that a backtest has
\* promoted: the two records of its mode agree at least on that, whatever the ranker, the
\* veto and their failing writes do.  One exception: the error of the reconciliation at the
\* start was swallowed, and a row of another mode, left by an earlier version, is in force.
TradedIsPromoted ==
    ~unreconciled /\ pc \notin Boot /\ ranking \in {"SHADOW", "LIVE"} => mode = "SHADOW"

\* A strategy whose backtests never do worse than the floor of the threshold leaves
\* BACKTEST, whatever was cancelled, failed to be written or forgotten by a restart on the
\* way: the relaxation unblocks it ("EDGE: unblock stuck strategies").
Unblocked == mode = "BACKTEST" ~> mode = "SHADOW"
=============================================================================
