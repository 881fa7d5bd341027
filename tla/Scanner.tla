------------------------------ MODULE Scanner ------------------------------
(* The scan of the main cycle: the guards before it, the schedule by        *)
(* regime, execute_scan() on a thread of the event loop's default executor, *)
(* one _scan_one() thread for each pair due, the breaker of a pair, and the *)
(* cache the cycle's signals are made from.  asyncio.wait_for() gives up a  *)
(* scan but cannot stop its threads: they go on beside the next scan.       *)
(* core_brain/scanner.py, orchestrators/_cycle_scan.py, _scan_methods.py.   *)
EXTENDS Naturals

CONSTANTS
    Pair,        \* symbol and timeframe
    Worker,      \* threads of the default executor
    NoWorker,    \* the scan waits in the executor's queue
    Cache,       \* last_results, as a holder of frames
    Interval,    \* Interval[r]: ticks between scans of a pair in regime r
    First,       \* the regime of a pair never scanned
    MaxFailures, \* failures in a row that open the breaker
    Cooldown     \* ticks the breaker stays open

Regime == DOMAIN Interval
Longest == CHOOSE i \in {Interval[r] : r \in Regime} : \A r \in Regime : Interval[r] <= i

ASSUME ScannerAssumption ==
    /\ Interval \in [Regime -> Nat] /\ First \in Regime
    /\ \E r \in Regime : \A q \in Regime : Interval[q] <= Interval[r]
    /\ MaxFailures \in Nat \ {0} /\ Cooldown \in Nat
    /\ NoWorker \notin Worker /\ Cache \notin Worker

VARIABLES
    scanPhase,    \* where the cycle is
    odd,          \* _cpu_throttle_skip_counter is odd
    awaited,      \* the worker whose scan the cycle waits for
    queued,       \* pairs of a scan submitted and not started
    abandoned,    \* history: workers whose scan was given up
    at,           \* at[w][k]: where the thread of pair k in the scan of w is
    found,        \* found[w][k]: the regime that thread has classified
    order,        \* order[k]: <<a, b>> when a and b hold frames of k and that of a
                  \* is not the newer one
    loader,       \* loader[k]: whose frame is in the classifier of k
    scanFailures, \* consecutive_failures
    cooldown,     \* circuit_breaker_cooldowns: ticks left
    scanRegime,   \* last_regime
    since,        \* ticks since last_scan_time
    beside        \* history: the last scans of k ran beside an abandoned one

cycle == <<scanPhase, odd, awaited, queued, abandoned>>
breaker == <<scanFailures, cooldown>>
schedule == <<scanRegime, since>>
scan == <<at, found, order, loader>>
scanVars == <<cycle, breaker, schedule, scan, beside>>

InScan(w, k) == at[w][k] # "off"
Busy(w) == \E k \in Pair : InScan(w, k)

ScanInit ==
    /\ scanPhase = "idle" /\ odd = FALSE
    /\ awaited = NoWorker /\ queued = {} /\ abandoned = {}
    /\ at = [w \in Worker |-> [k \in Pair |-> "off"]]
    /\ found = [w \in Worker |-> [k \in Pair |-> First]]
    /\ order = [k \in Pair |-> {}]
    /\ loader = [k \in Pair |-> NoWorker]
    /\ scanFailures = [k \in Pair |-> 0]
    /\ cooldown = [k \in Pair |-> 0]
    /\ scanRegime = [k \in Pair |-> First]
    /\ since = [k \in Pair |-> Longest]
    /\ beside = [k \in Pair |-> FALSE]

-----------------------------------------------------------------------------
(* The cycle, on the event loop                                             *)

\* A cycle that a guard ends without a trace (scanner switched off, posture
\* DEGRADED or STRESSED, CPU over its veto) is no step: phase stays "idle".

\* Mutant: every cycle is skipped once the counter is above zero.
AlwaysSkips ==
    /\ scanPhase = "idle"
    /\ odd' = ~odd
    /\ UNCHANGED <<scanPhase, awaited, queued, abandoned, breaker, schedule, scan, beside>>

\* CPU over its throttle: one cycle of two is skipped.
Throttled ==
    /\ scanPhase = "idle"
    /\ odd' = ~odd
    /\ scanPhase' = IF odd' THEN "idle" ELSE "market"
    /\ UNCHANGED <<awaited, queued, abandoned, breaker, schedule, scan, beside>>

Unthrottled ==
    /\ scanPhase = "idle"
    /\ odd' = FALSE
    /\ scanPhase' = "market"
    /\ UNCHANGED <<awaited, queued, abandoned, breaker, schedule, scan, beside>>

\* The last guard, _is_market_closed().
Open ==
    /\ scanPhase = "market"
    /\ scanPhase' = "scan"
    /\ UNCHANGED <<odd, awaited, queued, abandoned, breaker, schedule, scan, beside>>

Closed ==
    /\ scanPhase = "market"
    /\ scanPhase' = "idle"
    /\ UNCHANGED <<odd, awaited, queued, abandoned, breaker, schedule, scan, beside>>

Due == {k \in Pair : since[k] >= Interval[scanRegime[k]]}

\* Nothing is due, or the database is slow: the cycle goes on with the cache.
Cached ==
    /\ scanPhase = "scan"
    /\ scanPhase' = "idle"
    /\ UNCHANGED <<odd, awaited, queued, abandoned, breaker, schedule, scan, beside>>

\* asyncio.to_thread(execute_scan, Due), awaited with a timeout.
Request ==
    /\ scanPhase = "scan" /\ Due # {}
    /\ scanPhase' = "await"
    /\ queued' = Due
    /\ UNCHANGED <<odd, awaited, abandoned, breaker, schedule, scan, beside>>

\* Mutant: the request given up is not cancelled.
RequestStays ==
    /\ scanPhase = "await"
    /\ scanPhase' = "idle"
    /\ abandoned' = abandoned \cup ({awaited} \ {NoWorker})
    /\ awaited' = NoWorker
    /\ UNCHANGED <<odd, queued, breaker, schedule, scan, beside>>

\* The cancelled request leaves the executor's queue if it was still there;
\* a scan that has begun goes on and its answer goes nowhere.
Timeout ==
    /\ scanPhase = "await"
    /\ scanPhase' = "idle"
    /\ queued' = {}
    /\ abandoned' = abandoned \cup ({awaited} \ {NoWorker})
    /\ awaited' = NoWorker
    /\ UNCHANGED <<odd, breaker, schedule, scan, beside>>

-----------------------------------------------------------------------------
(* execute_scan() and its _scan_one() threads                               *)

Go(w, k, place) == at' = [at EXCEPT ![w][k] = place]

Begin(w) ==
    /\ queued # {} /\ ~Busy(w)
    /\ at' = [at EXCEPT ![w] = [k \in Pair |-> IF k \in queued THEN "begin" ELSE "off"]]
    /\ awaited' = w
    /\ beside' = [k \in Pair |-> IF k \in queued
                                 THEN \E v \in abandoned : InScan(v, k)
                                 ELSE beside[k]]
    /\ queued' = {}
    /\ UNCHANGED <<scanPhase, odd, abandoned, breaker, schedule, found, order, loader>>

\* A pair whose breaker is open is not asked for.
Enter(w, k) ==
    /\ at[w][k] = "begin"
    /\ Go(w, k, IF cooldown[k] > 0 THEN "none" ELSE "fetch")
    /\ UNCHANGED <<cycle, breaker, schedule, found, order, loader, beside>>

Holders(s) == {pair[1] : pair \in s}
Newest(w, s) == s \cup {<<a, w>> : a \in Holders(s) \cup {w}}
Without(a, s) == {pair \in s : pair[1] # a /\ pair[2] # a}

\* The provider answers with a frame, newer than every frame fetched before.
Fetch(w, k) ==
    /\ at[w][k] = "fetch"
    /\ Go(w, k, "load")
    /\ order' = [order EXCEPT ![k] = Newest(w, @)]
    /\ UNCHANGED <<cycle, breaker, schedule, found, loader, beside>>

Load(w, k) ==
    /\ at[w][k] = "load"
    /\ Go(w, k, "classify")
    /\ loader' = [loader EXCEPT ![k] = w]
    /\ UNCHANGED <<cycle, breaker, schedule, found, order, beside>>

\* classify() and get_metrics() read the frame the classifier holds.
Classify(w, k, r) ==
    /\ at[w][k] = "classify"
    /\ Go(w, k, "ready")
    /\ found' = [found EXCEPT ![w][k] = r]
    /\ scanFailures' = [scanFailures EXCEPT ![k] = 0]
    /\ cooldown' = [cooldown EXCEPT ![k] = 0]
    /\ UNCHANGED <<cycle, schedule, order, loader, beside>>

\* An ADX that is no number or zero: no result, and no failure either.
Invalid(w, k) ==
    /\ at[w][k] = "classify"
    /\ Go(w, k, "none")
    /\ order' = [order EXCEPT ![k] = Without(w, @)]
    /\ UNCHANGED <<cycle, breaker, schedule, found, loader, beside>>

\* No data or an exception: _handle_scan_failure counts, writes its event, and
\* opens the breaker by the number it has counted.
Fail(w, k) ==
    /\ at[w][k] \in {"fetch", "classify"}
    /\ LET n == scanFailures[k] + 1 IN
       /\ scanFailures' = [scanFailures EXCEPT ![k] = IF n > MaxFailures THEN MaxFailures ELSE n]
       /\ Go(w, k, IF n >= MaxFailures THEN "trip" ELSE "none")
    /\ order' = [order EXCEPT ![k] = Without(w, @)]
    /\ UNCHANGED <<cycle, cooldown, schedule, found, loader, beside>>

Trip(w, k) ==
    /\ at[w][k] = "trip"
    /\ Go(w, k, "none")
    /\ cooldown' = [cooldown EXCEPT ![k] = Cooldown]
    /\ UNCHANGED <<cycle, scanFailures, schedule, found, order, loader, beside>>

\* _process_scan_result, as the futures complete: the schedule sees it at once.
Process(w, k) ==
    /\ at[w][k] = "ready"
    /\ Go(w, k, "done")
    /\ scanRegime' = [scanRegime EXCEPT ![k] = found[w][k]]
    /\ since' = [since EXCEPT ![k] = 0]
    /\ UNCHANGED <<cycle, breaker, found, order, loader, beside>>

\* The frame of w takes the cache's place.
Replaced(w, s) ==
    LET as(a) == IF a = w THEN Cache ELSE a
    IN {<<as(pair[1]), as(pair[2])>> : pair \in Without(Cache, s)}

\* last_results.update(results), when the last pair of the scan has ended; a
\* cycle that still waits goes on with the results.
Publish(w) ==
    /\ Busy(w) /\ \A k \in Pair : at[w][k] \in {"off", "none", "done"}
    /\ order' = [k \in Pair |-> IF at[w][k] = "done" THEN Replaced(w, order[k]) ELSE order[k]]
    /\ at' = [at EXCEPT ![w] = [k \in Pair |-> "off"]]
    /\ abandoned' = abandoned \ {w}
    /\ IF awaited = w
       THEN awaited' = NoWorker /\ scanPhase' = "idle"
       ELSE UNCHANGED <<awaited, scanPhase>>
    /\ UNCHANGED <<odd, queued, breaker, schedule, found, loader, beside>>

-----------------------------------------------------------------------------
Least(n, m) == IF n < m THEN n ELSE m

Tick ==
    /\ since' = [k \in Pair |-> Least(since[k] + 1, Longest)]
    /\ cooldown' = [k \in Pair |-> IF cooldown[k] = 0 THEN 0 ELSE cooldown[k] - 1]
    /\ UNCHANGED <<cycle, scanFailures, scanRegime, scan, beside>>

Thread(w, k) ==
    \/ Enter(w, k)
    \/ Fetch(w, k)
    \/ Load(w, k)
    \/ \E r \in Regime : Classify(w, k, r)
    \/ Invalid(w, k)
    \/ Fail(w, k)
    \/ Trip(w, k)
    \/ Process(w, k)

ScanNext ==
    \/ Throttled \/ Unthrottled \/ Open \/ Closed
    \/ Cached \/ Request \/ Timeout
    \/ \E w \in Worker : Begin(w) \/ Publish(w)
    \/ \E w \in Worker, k \in Pair : Thread(w, k)
    \/ Tick

ScanSpec == ScanInit /\ [][ScanNext]_scanVars

\* The main loop and the threads go on, a request does not time out for ever
\* before a thread takes it, and time passes; no veto, closed market, pressure
\* on the database or refusal of a provider lasts for ever.
ScanFairSpec ==
    /\ ScanSpec /\ WF_scanVars(Tick)
    /\ WF_scanVars(Throttled \/ Unthrottled)
    /\ WF_scanVars(Open \/ Closed) /\ SF_scanVars(Open)
    /\ WF_scanVars(Cached \/ Request) /\ SF_scanVars(Request)
    /\ SF_scanVars(\E w \in Worker : Begin(w)) /\ \A w \in Worker : WF_scanVars(Publish(w))
    /\ \A w \in Worker, k \in Pair : WF_scanVars(Thread(w, k))
    /\ \A k \in Pair : SF_scanVars(\E w \in Worker : Fetch(w, k))
    /\ \A k \in Pair : SF_scanVars(\E w \in Worker, r \in Regime : Classify(w, k, r))

-----------------------------------------------------------------------------
(* Properties                                                               *)

\* The variables have their types (see VARIABLES).
ScanTypeOK ==
    /\ scanPhase \in {"idle", "market", "scan", "await"} /\ odd \in BOOLEAN
    /\ awaited \in Worker \cup {NoWorker} /\ queued \subseteq Pair
    /\ abandoned \subseteq Worker
    /\ at \in [Worker -> [Pair -> {"off", "begin", "fetch", "load", "classify",
                                   "trip", "ready", "none", "done"}]]
    /\ found \in [Worker -> [Pair -> Regime]]
    /\ order \in [Pair -> SUBSET ((Worker \cup {Cache}) \X (Worker \cup {Cache}))]
    /\ loader \in [Pair -> Worker \cup {NoWorker}]
    /\ scanFailures \in [Pair -> 0..MaxFailures] /\ cooldown \in [Pair -> 0..Cooldown]
    /\ scanRegime \in [Pair -> Regime] /\ since \in [Pair -> 0..Longest]
    /\ beside \in [Pair -> BOOLEAN]

Publishes(w, k) == at[w][k] = "done" /\ at'[w][k] = "off"
Regresses(k) == \E w \in Worker : Publishes(w, k) /\ <<w, Cache>> \in order[k]
Borrows(k) == \E w \in Worker : /\ at[w][k] = "classify" /\ at'[w][k] = "ready"
                                 /\ loader[k] # w
Unearned(k) == cooldown'[k] > cooldown[k] /\ scanFailures[k] < MaxFailures

\* The await keeps the scans of a pair apart: unless one ran beside a scan the
\* cycle had given up, no frame in the cache is replaced by an older one, no
\* regime comes from another scan's frame, and no breaker opens on failures a
\* success has since cancelled (execute_scan, _scan_one, _handle_scan_failure).
NoMixing == [][\A k \in Pair : Regresses(k) \/ Borrows(k) \/ Unearned(k) => beside[k]]_scanVars

\* Every pair gets new results for ever: no timeout, open breaker, throttled
\* CPU or scan given up takes it off the schedule (should_scan_now, run_pre_phase).
Refreshed == \A k \in Pair : []<><<\E w \in Worker : Publishes(w, k)>>_scanVars

=============================================================================
