--------------------------- MODULE PositionManager ---------------------------
(***************************************************************************)
(* core_brain/position_manager.py: what the monitor does with one open     *)
(* position of the broker.  Positions are handled one by one and an error  *)
(* ends the turn of one only, so a single ticket is modelled.              *)
(*                                                                         *)
(* monitor_usr_positions runs in a thread that the cycle abandons after    *)
(* 60 s (_cycle_scan.py), so several may be under way, each with its own   *)
(* snapshot of the position.  The metadata row is written by them and by   *)
(* the executor after the order is filled (signal_lifecycle_manager.py).   *)
(*                                                                         *)
(* A price is a small number, a risk a distance of prices.  The connectors *)
(* give the type of a position as 0 or 1, so the conditions that compare   *)
(* it with 'BUY' and 'SELL' never apply.  The time of the last change and  *)
(* the number of changes are kept inside the data column, where            *)
(* _can_modify does not look: it allows every change.                      *)
(* Left out: the target, volume and swap, the history of events, and the   *)
(* two checks at the end of a turn, which only notify.                     *)
(***************************************************************************)
EXTENDS Integers

CONSTANTS
  Monitor,        \* monitoring threads
  MarketRegime,   \* market regimes
  SignalRegime,   \* those that the metadata of its signal may name
  Side,           \* +1 BUY, -1 SELL
  FreezeLevel,    \* the symbol has a trade_stops_level
  Price,          \* prices that the market quotes
  Entry,          \* entry price
  Cost,           \* commission, swap and spread
  ComputedRisk,   \* what the calculation of its risk may give
  InitialStop,    \* distance from Entry of the stop of the order, 0: no stop
  Multiplier,     \* max_drawdown_multiplier
  MaxAge,         \* stale_thresholds_hours, by regime
  TrailDistance,  \* ATR times multiplier, by regime; no regime: not enabled
  StopDistance,   \* regime_adjustments, of the regimes that have one
  MinProfit,      \* distance the price must have gone for a trailing stop
  BreakevenOn,    \* breakeven is enabled
  Oldest          \* bound: the highest age counted

Abs(x) == IF x < 0 THEN -x ELSE x
NoRisk == -1
NoMeta == [risk |-> NoRisk, entered |-> "", sound |-> FALSE, row |-> FALSE]

ASSUME PriceAssumption ==
  /\ Price \subseteq Nat \ {0} /\ Price # {} /\ Multiplier \in Nat \ {0}
  /\ Entry \in Nat /\ Cost \in Nat /\ InitialStop \in 0..Entry
ASSUME ConfigAssumption ==
  /\ ComputedRisk \subseteq Nat
  /\ SignalRegime \subseteq MarketRegime
  /\ MinProfit \in Nat /\ Oldest \in Nat /\ Side \in {1, -1}
  /\ FreezeLevel \in BOOLEAN /\ BreakevenOn \in BOOLEAN
  /\ MaxAge \in [MarketRegime -> Nat]
  /\ TrailDistance \in [DOMAIN TrailDistance -> Nat]
  /\ StopDistance \in [DOMAIN StopDistance -> Nat]

VARIABLES
  positionOpen, \* the broker has the position
  price, sl, age, marketRegime, \* of the market; sl = 0: no stop
  meta,         \* row of sys_position_metadata
  filled,       \* the executor has still to save its metadata
  synced,       \* the ticket is in _synced_orphans
  failing,      \* _modification_failures has come to three
  pc,           \* where a monitor is in the turn of the position
  snap,         \* its snapshot: price and stop
  held,         \* the metadata it has read, or is about to write
  crossed       \* history: monitors whose new row was deleted before they
                \* counted the ticket as synced

market == <<positionOpen, price, sl, age, marketRegime>>
stored == <<meta, filled>>
memory == <<synced, failing>>
positionVars ==
  <<positionOpen, price, sl, age, marketRegime, meta, filled, synced, failing, pc, snap, held,
    crossed>>

PositionInit ==
  /\ positionOpen = TRUE /\ price \in Price /\ age = 0 /\ marketRegime \in MarketRegime
  /\ sl = IF InitialStop = 0 THEN 0 ELSE Entry - Side * InitialStop
  /\ meta = NoMeta /\ filled \in BOOLEAN
  /\ synced = FALSE /\ failing = FALSE
  /\ pc = [m \in Monitor |-> "idle"]
  /\ snap = [m \in Monitor |-> [price |-> 0, sl |-> 0]]
  /\ held = [m \in Monitor |-> NoMeta]
  /\ crossed = {}

(* The price, the regime and the age of the position move, and the broker  *)
(* closes a position: at its stop or target, or for its owner.  A closed   *)
(* position has no stop and no age.                                        *)
Quote ==
  /\ positionOpen /\ price' \in Price \ {price}
  /\ UNCHANGED <<sl, age, marketRegime, positionOpen>>
Shift ==
  /\ positionOpen /\ marketRegime' \in MarketRegime \ {marketRegime}
  /\ UNCHANGED <<price, sl, age, positionOpen>>
Hour ==
  /\ positionOpen /\ age < Oldest /\ age' = age + 1
  /\ UNCHANGED <<price, sl, marketRegime, positionOpen>>
Gone == positionOpen' = FALSE /\ sl' = 0 /\ age' = 0 /\ UNCHANGED <<price, marketRegime>>
Leave == positionOpen /\ Gone
World ==
  /\ Quote \/ Shift \/ Hour \/ Leave
  /\ UNCHANGED <<stored, memory, pc, snap, held, crossed>>

(* save_position_metadata of the executor: there is no risk when its       *)
(* calculation raises.  What it has wins over a row that is there.  The    *)
(* write may fail.                                                         *)
ExecutorSaves ==
  /\ filled /\ filled' = FALSE
  /\ \/ UNCHANGED meta
     \/ \E risk \in ComputedRisk \cup {NoRisk}, r \in SignalRegime, sound \in BOOLEAN :
          meta' = [risk |-> risk, entered |-> r, sound |-> sound, row |-> TRUE]
  /\ UNCHANGED <<market, memory, pc, snap, held, crossed>>

To(m, label) == pc' = [pc EXCEPT ![m] = label]

(* The turn is over, normally or by an error: the locals are gone. *)
Done(m) ==
  /\ To(m, "idle")
  /\ snap' = [snap EXCEPT ![m] = [price |-> 0, sl |-> 0]]
  /\ held' = [held EXCEPT ![m] = NoMeta]

(* get_open_positions *)
Start(m) ==
  /\ pc[m] = "idle" /\ positionOpen
  /\ snap' = [snap EXCEPT ![m] = [price |-> price, sl |-> sl]]
  /\ To(m, "sync")
  /\ UNCHANGED <<market, stored, memory, held, crossed>>

(* _sync_orphan_position: a position without metadata gets a row made of   *)
(* what the broker knows, its risk taken from the present stop.            *)
Estimate(m) == IF snap[m].sl = 0 THEN 0 ELSE Abs(Entry - snap[m].sl)

Sync(m) ==
  /\ pc[m] = "sync"
  /\ snap' = [snap EXCEPT ![m].sl = 0]
  /\ IF meta.row \/ synced
     THEN To(m, "drawdown") /\ UNCHANGED held
     ELSE /\ held' = [held EXCEPT ![m] =
               [risk |-> Estimate(m), entered |-> marketRegime, sound |-> TRUE, row |-> TRUE]]
          /\ To(m, "save")
  /\ UNCHANGED <<market, stored, memory, crossed>>

(* Mutant: counted as synced even when the write failed. *)
MarkedAnyway(m) ==
  /\ pc[m] = "save"
  /\ meta' \in {meta, held[m]} /\ To(m, "mark")
  /\ held' = [held EXCEPT ![m] = NoMeta]
  /\ UNCHANGED <<market, filled, memory, snap, crossed>>

(* The row is in the table before the commit, which may fail after it. *)
SyncSave(m) ==
  /\ pc[m] = "save"
  /\ \/ meta' = held[m] /\ To(m, "mark")
     \/ meta' \in {meta, held[m]} /\ To(m, "drawdown")
  /\ held' = [held EXCEPT ![m] = NoMeta]
  /\ UNCHANGED <<market, filled, memory, snap, crossed>>

CountSynced(m) ==
  /\ pc[m] = "mark" /\ synced' = TRUE /\ To(m, "drawdown")
  /\ UNCHANGED <<market, stored, failing, snap, held, crossed>>

(* _exceeds_max_drawdown of a profit: no row or no risk, no limit.   *)
Exceeds(row, profit) == row.row /\ row.risk > 0 /\ profit <= -(row.risk * Multiplier)
Profit(p) == Side * (p - Entry)

(* A position beyond a limit is closed, whatever its price is by then. *)
Limited(m, beyond, label) ==
  /\ To(m, IF beyond THEN "close" ELSE label)
  /\ snap' = IF beyond THEN [snap EXCEPT ![m].price = 0] ELSE snap
  /\ UNCHANGED held

(* Mutant: a position left to manual intervention is skipped. *)
SkipsFailing(m) ==
  /\ pc[m] = "drawdown"
  /\ IF failing \/ (meta.row /\ meta.risk = NoRisk) THEN Done(m)
     ELSE Limited(m, Exceeds(meta, Profit(snap[m].price)), "stale")
  /\ UNCHANGED <<market, stored, memory, crossed>>

(* A risk of NULL cannot be compared and ends the turn. *)
Drawdown(m) ==
  /\ pc[m] = "drawdown"
  /\ IF meta.row /\ meta.risk = NoRisk THEN Done(m)
     ELSE Limited(m, Exceeds(meta, Profit(snap[m].price)), "stale")
  /\ UNCHANGED <<market, stored, memory, crossed>>

(* _is_stale_position *)
TooOld == age > MaxAge[marketRegime]
Stale(m) ==
  /\ pc[m] = "stale"
  /\ Limited(m, meta.row /\ TooOld, "breakeven")
  /\ UNCHANGED <<market, stored, memory, crossed>>

(* _emergency_close and _close_stale_position *)
CloseOk(m) ==
  /\ pc[m] = "close" /\ positionOpen
  /\ Gone /\ Done(m)
  /\ UNCHANGED <<stored, memory, crossed>>

CloseFails(m) ==
  /\ pc[m] = "close" /\ Done(m)
  /\ UNCHANGED <<market, stored, memory, crossed>>

(* modify_position: the broker takes a stop only on the far side of the    *)
(* price, and may refuse any.                                              *)
Modified(stop) ==
  /\ positionOpen /\ Side * (price - stop) > 0
  /\ sl' = (IF stop > 0 THEN stop ELSE 0) /\ failing' = FALSE

(* _handle_modification_failure: from the third in a row on, a failure     *)
(* creates a task where no loop runs, and that error ends the turn.        *)
Missed(m, label) ==
  /\ \/ failing' = TRUE /\ Done(m)
     \/ ~failing /\ UNCHANGED <<failing, snap, held>> /\ To(m, label)
  /\ UNCHANGED sl

(* A symbol with a freeze level needs get_current_price, which no          *)
(* connector has.                                                          *)
MovesToBreakeven(m) == BreakevenOn /\ ~FreezeLevel /\ age > 0 /\ Profit(snap[m].price) > 0

(* Step 3; without a row steps 3 and 4 are left out.  A row that is not    *)
(* sound is deleted, whatever it is by then.                               *)
Corrupted == BreakevenOn /\ age > 0 /\ ~meta.sound

Breakeven(m) ==
  /\ pc[m] = "breakeven"
  /\ To(m, IF ~meta.row THEN "regime" ELSE IF Corrupted THEN "discard"
           ELSE IF MovesToBreakeven(m) THEN "move" ELSE "trail")
  /\ UNCHANGED <<market, stored, memory, snap, held, crossed>>

(* A failing delete is logged, and the ticket is forgotten all the same.   *)
Discard(m) ==
  /\ pc[m] = "discard" /\ To(m, "forget")
  /\ \/ meta' = NoMeta /\ crossed' = crossed \cup {u \in Monitor : pc[u] = "mark"}
     \/ UNCHANGED <<meta, crossed>>
  /\ UNCHANGED <<market, filled, memory, snap, held>>

(* Mutant: the ticket stays among the synced. *)
Remembered(m) ==
  /\ pc[m] = "forget" /\ To(m, "trail")
  /\ UNCHANGED <<market, stored, memory, snap, held, crossed>>

Forget(m) ==
  /\ pc[m] = "forget" /\ To(m, "trail")
  /\ synced' = FALSE /\ crossed' = {u \in crossed : pc[u] = "mark"}
  /\ UNCHANGED <<market, stored, failing, snap, held>>

(* entry + cost, for both sides *)
Move(m) ==
  /\ pc[m] = "move"
  /\ \/ Modified(Entry + Cost) /\ To(m, "trail") /\ UNCHANGED <<snap, held>>
     \/ Missed(m, "trail")
  /\ UNCHANGED <<positionOpen, price, age, marketRegime, stored, synced, crossed>>

(* Step 4, from the price of the snapshot: it is not compared with the     *)
(* stop that is there.                                                     *)
Trails(m) ==
  ~FreezeLevel /\ marketRegime \in DOMAIN TrailDistance /\ Profit(snap[m].price) >= MinProfit
TrailingStop(m) == snap[m].price - Side * TrailDistance[marketRegime]

Trail(m) ==
  /\ pc[m] = "trail"
  /\ \/ Trails(m) /\ Modified(TrailingStop(m)) /\ To(m, "regime") /\ UNCHANGED <<snap, held>>
     \/ Trails(m) /\ Missed(m, "regime")
     \/ ~Trails(m) /\ To(m, "regime") /\ UNCHANGED <<sl, failing, snap, held>>
  /\ UNCHANGED <<positionOpen, price, age, marketRegime, stored, synced, crossed>>

(* Step 5: another regime than at entry, with an adjustment of its own.    *)
(* With a freeze level the validation raises.                              *)
Adjusts == meta.row /\ meta.entered # marketRegime /\ marketRegime \in DOMAIN StopDistance

RegimeCheck(m) ==
  /\ pc[m] = "regime"
  /\ IF Adjusts /\ ~FreezeLevel
     THEN /\ held' = [held EXCEPT ![m] = meta] /\ To(m, "persist")
          /\ snap' = [snap EXCEPT ![m].price = 0]
     ELSE Done(m)
  /\ UNCHANGED <<market, stored, memory, crossed>>

(* _modify_with_validation replaces the row by the one it read before the  *)
(* change is tried, and does not restore it.                               *)
Persist(m) ==
  /\ pc[m] = "persist"
  /\ \/ meta' = held[m] /\ held' = [held EXCEPT ![m] = NoMeta] /\ To(m, "adjust") /\ UNCHANGED snap
     \/ Done(m) /\ UNCHANGED meta
  /\ UNCHANGED <<market, filled, memory, crossed>>

Adjust(m) ==
  /\ pc[m] = "adjust" /\ Done(m)
  /\ \/ marketRegime \in DOMAIN StopDistance /\ Modified(Entry - Side * StopDistance[marketRegime])
     \/ UNCHANGED <<sl, failing>>
  /\ UNCHANGED <<positionOpen, price, age, marketRegime, stored, synced, crossed>>

Turn(m) ==
  \/ Sync(m) \/ SyncSave(m) \/ CountSynced(m) \/ Drawdown(m) \/ Stale(m) \/ CloseOk(m) \/ CloseFails(m)
  \/ Breakeven(m) \/ Discard(m) \/ Forget(m) \/ Move(m) \/ Trail(m)
  \/ RegimeCheck(m) \/ Persist(m) \/ Adjust(m)

PositionNext == World \/ ExecutorSaves \/ \E m \in Monitor : Start(m) \/ Turn(m)

PositionSpec == PositionInit /\ [][PositionNext]_positionVars

-----------------------------------------------------------------------------

(* The cycle goes on starting monitors, a turn goes on, the executor comes *)
(* to its save, and a close or a write that is tried again and again works *)
(* at last.                                                                *)
Fairness ==
  /\ \A m \in Monitor :
       /\ WF_positionVars(Start(m) \/ Turn(m)) /\ SF_positionVars(CloseOk(m))
       /\ SF_positionVars(SyncSave(m) /\ pc'[m] = "mark")
  /\ WF_positionVars(ExecutorSaves)

PositionFairSpec == PositionSpec /\ Fairness

Label == {"idle", "sync", "save", "mark", "drawdown", "stale", "close", "breakeven",
          "discard", "forget", "move", "trail", "regime", "persist", "adjust"}
Row == [risk : Nat \cup {NoRisk}, entered : MarketRegime \cup {""}, sound : BOOLEAN, row : BOOLEAN]

(* The variables have their types. *)
PositionTypeOK ==
  /\ positionOpen \in BOOLEAN /\ price \in Price
  /\ sl \in Nat /\ age \in 0..Oldest /\ marketRegime \in MarketRegime
  /\ meta \in Row /\ filled \in BOOLEAN /\ synced \in BOOLEAN /\ failing \in BOOLEAN
  /\ pc \in [Monitor -> Label] /\ held \in [Monitor -> Row]
  /\ snap \in [Monitor -> [price : Price \cup {0}, sl : Nat]]
  /\ crossed \subseteq Monitor

(* A ticket counted as synced has a row, or is about to be forgotten:      *)
(* otherwise no turn would ever write one, and neither limit would apply   *)
(* to the position again.  What several monitors, the executor and failing *)
(* writes do to the row and the set leaves one exception: a monitor has    *)
(* written the row, another deletes that row as unsound and forgets the    *)
(* ticket, and only then does the first count it as synced.                *)
SyncedHasRow ==
  synced /\ ~meta.row /\ crossed = {} => \E m \in Monitor : pc[m] = "forget"

(* A position whose risk is known and whose loss stays beyond the limit is *)
(* closed, whatever modifications fail and whoever else writes the row.    *)
LossBounded ==
  positionOpen /\ Exceeds(meta, Profit(price)) ~> ~positionOpen \/ ~Exceeds(meta, Profit(price))

(* A position that stays too old is closed, even one that no one has saved *)
(* metadata for; not one whose row has no risk, which the drawdown check   *)
(* before it never gets past, nor one that lost its row as SyncedHasRow    *)
(* says (position_manager.py:36 makes no exception).                       *)
Expires ==
  positionOpen /\ TooOld ~>
    ~positionOpen \/ ~TooOld \/ (meta.row /\ meta.risk = NoRisk) \/ crossed # {}
=============================================================================
