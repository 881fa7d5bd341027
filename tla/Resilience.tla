------------------------------ MODULE Resilience ------------------------------
(***************************************************************************)
(* The ResilienceManager (core_brain/resilience_manager.py), the           *)
(* CloseOnlyGuard and AutoTuner injected in it and the operator commands   *)
(* of core_brain/api/routers/resilience.py.                                *)
(*                                                                         *)
(* process_report runs to its end without an await, in the event loop that *)
(* also runs the commands: every handler is one step.  A report is what    *)
(* the handler looks at: action, scope, data provider and issue type.      *)
(* The list of strategies quarantined for a provider is a bag, the window  *)
(* of mutes is the age of the last mute of every scope, counted in ticks.  *)
(*                                                                         *)
(* Left out: the audit rows, the narrative, the IncidentLearningEngine     *)
(* (the orchestrator injects none) and is_healing, which is true only      *)
(* inside a handler.  No scope is a substring of another.                  *)
(***************************************************************************)
EXTENDS ResilienceAutoTune, FiniteSets

CONSTANTS
  Scope,                \* assets, strategies and services that reports name
  Provider,             \* data providers
  NoProvider,           \* metadata without data_provider
  Report,               \* reports that may arrive
  LockdownModules,      \* _LOCKDOWN_DEGRADED_MODULES
  Guarded,              \* a CloseOnlyGuard was injected
  Tuner,                \* a ResilienceAutoTuner was injected
  CorrelationThreshold, \* distinct scopes muted inside the window
  Window,               \* correlation_window_seconds, in ticks
  MaxHealRetries,       \* max_heal_retries
  SaveOutcome,          \* outcomes of save_resilience_params
  Operator,             \* TRUE: operator commands arrive
  MaxCount              \* bound of every counter

HealKind == {"Check_Data_Coherence", "Check_Database"}
Issue    == HealKind \cup {"Spread_Anomaly", "none"}
Action   == {"MUTE", "QUARANTINE", "SELF_HEAL", "LOCKDOWN"}

Normal   == 0
Caution  == 1
Degraded == 2
Stressed == 3
Posture  == Normal..Stressed

ASSUME ReportAssumption ==
  Report \subseteq [action : Action, scope : Scope, provider : Provider \cup {NoProvider}, issue : Issue]
ASSUME ProviderAssumption == NoProvider \notin Provider
ASSUME ModulesAssumption == LockdownModules # {}
ASSUME SwitchAssumption == Guarded \in BOOLEAN /\ Tuner \in BOOLEAN /\ Operator \in BOOLEAN
ASSUME SizeAssumption ==
  /\ Window \in Nat /\ CorrelationThreshold \in Nat
  /\ MaxHealRetries \in Nat \ {0} /\ MaxCount \in Nat
ASSUME SaveAssumption == SaveOutcome \subseteq BOOLEAN

VARIABLES
  posture,     \* _current_posture
  last,        \* the action of _last_report
  muted,       \* _l0_failure_counts
  age,         \* _l0_mute_window: ticks since the last mute of a scope
  quarantined, \* _l1_provider_map
  attempts,    \* _healing_attempts
  cooling,     \* scopes in _cooldowns
  closeOnly,   \* CloseOnlyGuard._active
  degraded,    \* _degraded_modules
  reverts,     \* _revert_attempt_count
  params,      \* ResilienceAutoTuner._params
  saved,       \* sys_config["resilience:params"]
  overridden,  \* history: the operator has set the posture
  cycles       \* history: try_auto_revert calls since STRESSED was entered

evidence == <<muted, age, quarantined, attempts, cooling>>
tuning   == <<params, saved>>
vars == <<posture, last, muted, age, quarantined, attempts, cooling, closeOnly, degraded,
          reverts, params, saved, overridden, cycles>>

Outside == Window + 1
HealKey == HealKind \X Scope

Init ==
  /\ posture = Normal /\ last = "none"
  /\ muted = [s \in Scope |-> 0] /\ age = [s \in Scope |-> Outside]
  /\ quarantined = [p \in Provider |-> [s \in Scope |-> 0]]
  /\ attempts = [k \in HealKey |-> 0] /\ cooling = {}
  /\ closeOnly = FALSE /\ degraded = {} /\ reverts = 0
  /\ params = DefaultParams /\ saved = DefaultParams
  /\ overridden = FALSE /\ cycles = 0

Worst(p, q) == IF p > q THEN p ELSE q

(* Mutant: an exhausted healing leaves the posture alone. *)
HealForgets(r, p, healed) ==
  LET k == <<r.issue, r.scope>> IN
  /\ r.issue \in HealKind /\ attempts[k] < MaxCount
  /\ UNCHANGED cooling
  /\ \/ attempts' = [attempts EXCEPT ![k] = 0] /\ healed = p
     \/ /\ attempts' = [attempts EXCEPT ![k] = @ + 1]
        /\ healed = p

(* _heal_data_coherence and _heal_database: one more attempt, whose        *)
(* outcome the injected callback decides.  Exhaustion sets STRESSED here,  *)
(* before the escalation matrix, and calls no protocol.                    *)
Heal(r, p, healed) ==
  LET k == <<r.issue, r.scope>> IN
  /\ r.issue \in HealKind /\ attempts[k] < MaxCount
  /\ UNCHANGED cooling
  /\ \/ attempts' = [attempts EXCEPT ![k] = 0] /\ healed = p
     \/ /\ attempts' = [attempts EXCEPT ![k] = @ + 1]
        /\ healed = IF attempts[k] + 1 >= MaxHealRetries THEN Stressed ELSE p

(* _run_healing_playbook, from posture p to posture healed. *)
Playbook(r, p, healed) ==
  \/ Heal(r, p, healed)
  \/ /\ r.issue = "Spread_Anomaly"
     /\ cooling' = cooling \cup {r.scope} /\ healed = p /\ UNCHANGED attempts
  \/ r.issue = "none" /\ healed = p /\ UNCHANGED <<attempts, cooling>>

(* activate_close_only_protocol *)
ActivateCloseOnly ==
  /\ closeOnly' = (Guarded \/ closeOnly)
  /\ degraded' = LockdownModules

(* Mutant: the posture takes the target whatever it was. *)
TakesTarget(p, target) ==
  /\ posture' = target
  /\ cycles' = IF posture # Stressed /\ posture' = Stressed THEN 0 ELSE cycles
  /\ IF p # Stressed /\ target = Stressed
       THEN reverts' = 0 /\ ActivateCloseOnly
       ELSE UNCHANGED <<reverts, closeOnly, degraded>>

(* Mutant: the count of revert attempts survives a lockdown. *)
KeepsReverts(p, target) ==
  /\ posture' = Worst(p, target)
  /\ cycles' = IF posture # Stressed /\ posture' = Stressed THEN 0 ELSE cycles
  /\ UNCHANGED reverts
  /\ IF p # Stressed /\ target = Stressed
       THEN ActivateCloseOnly
       ELSE UNCHANGED <<closeOnly, degraded>>

(* The end of process_report: an escalation from p to the target. *)
Escalate(p, target) ==
  /\ posture' = Worst(p, target)
  /\ cycles' = IF posture # Stressed /\ posture' = Stressed THEN 0 ELSE cycles
  /\ IF p # Stressed /\ target = Stressed
       THEN reverts' = 0 /\ ActivateCloseOnly
       ELSE UNCHANGED <<reverts, closeOnly, degraded>>

(* process_report on from the playbook, with the posture p it finds. *)
Arbitrate(r, p, target) ==
  /\ last' = r.action
  /\ \E healed \in Posture : Playbook(r, p, healed) /\ Escalate(healed, target)
  /\ UNCHANGED <<tuning, overridden>>

Threshold(n) == IF Tuner THEN params[n] ELSE DefaultParams[n]

(* _evaluate_mute_escalation: no target of its own below the thresholds. *)
MuteTarget(count) ==
  IF count >= Threshold("degraded") THEN Degraded
  ELSE IF count >= Threshold("caution") THEN Caution
  ELSE Normal

-----------------------------------------------------------------------------
(* A MUTE: the correlation engine first.  A cascade sets STRESSED itself,  *)
(* without the protocol, and empties the window.                           *)
Mute(r) ==
  LET heard   == [age EXCEPT ![r.scope] = 0]
      cascade == Cardinality({s \in Scope : heard[s] <= Window}) >= CorrelationThreshold
  IN
  /\ r.action = "MUTE" /\ muted[r.scope] < MaxCount
  /\ age' = IF cascade THEN [s \in Scope |-> Outside] ELSE heard
  /\ muted' = [muted EXCEPT ![r.scope] = @ + 1]
  /\ Arbitrate(r, IF cascade THEN Stressed ELSE posture, MuteTarget(muted[r.scope] + 1))
  /\ UNCHANGED quarantined

(* _run_root_cause_diagnosis: two entries for one provider. *)
SharedCause(bag) ==
  \E s \in Scope : \/ bag[s] >= 2
                   \/ bag[s] >= 1 /\ \E t \in Scope \ {s} : bag[t] >= 1

(* A QUARANTINE without a provider, or the first one of its provider. *)
QuarantineOne(r) ==
  /\ r.action = "QUARANTINE"
  /\ IF r.provider = NoProvider
       THEN UNCHANGED quarantined
       ELSE /\ quarantined' = [quarantined EXCEPT ![r.provider][r.scope] = @ + 1]
            /\ quarantined[r.provider][r.scope] < MaxCount
            /\ ~SharedCause(quarantined'[r.provider])
  /\ Arbitrate(r, posture, Caution)
  /\ UNCHANGED <<muted, age>>

(* A QUARANTINE that becomes an L2 report of its provider.  The new report *)
(* carries no issue type, so nothing is healed.                            *)
QuarantineShared(r) ==
  /\ r.action = "QUARANTINE" /\ r.provider # NoProvider
  /\ quarantined[r.provider][r.scope] < MaxCount
  /\ quarantined' = [quarantined EXCEPT ![r.provider][r.scope] = @ + 1]
  /\ SharedCause(quarantined'[r.provider])
  /\ Arbitrate([r EXCEPT !.action = "SELF_HEAL", !.issue = "none"], posture, Degraded)
  /\ UNCHANGED <<muted, age>>

SelfHeal(r) ==
  /\ r.action = "SELF_HEAL"
  /\ Arbitrate(r, posture, Degraded)
  /\ UNCHANGED <<muted, age, quarantined>>

Lockdown(r) ==
  /\ r.action = "LOCKDOWN"
  /\ Arbitrate(r, posture, Stressed)
  /\ UNCHANGED <<muted, age, quarantined>>

ProcessReport(r) ==
  Mute(r) \/ QuarantineOne(r) \/ QuarantineShared(r) \/ SelfHeal(r) \/ Lockdown(r)

(* process_connection_health_event of a connector that is DISCONNECTED;    *)
(* in every other status it changes nothing.                               *)
ConnectorReport(s, reconnects) ==
  [action |-> IF reconnects > 0 THEN "LOCKDOWN" ELSE "SELF_HEAL",
   scope |-> s, provider |-> NoProvider, issue |-> "none"]
ConnectorDown(s, reconnects) == ProcessReport(ConnectorReport(s, reconnects))

-----------------------------------------------------------------------------
MinCycles == IF Tuner THEN params.stability ELSE 0

(* try_auto_revert that does not lift the protocol: too early, inactive,   *)
(* or the callback says no (or raises).                                    *)
RevertBlocked ==
  /\ Guarded /\ reverts < MaxCount /\ cycles < MaxCount
  /\ reverts' = reverts + 1 /\ cycles' = cycles + 1
  /\ UNCHANGED <<posture, last, evidence, closeOnly, degraded, tuning, overridden>>

(* Mutant: the modules stay degraded. *)
RevertForgetsModules(eroded) ==
  /\ Guarded /\ reverts < MaxCount /\ cycles < MaxCount
  /\ reverts' = reverts + 1 /\ cycles' = cycles + 1
  /\ reverts' >= MinCycles /\ closeOnly
  /\ closeOnly' = FALSE /\ UNCHANGED degraded
  /\ params' = IF Tuner THEN Recovered(params, reverts', eroded) ELSE params
  /\ \E ok \in SaveOutcome : saved' = IF ok /\ params' # params THEN params' ELSE saved
  /\ UNCHANGED <<posture, last, evidence, overridden>>

(* try_auto_revert that lifts it; the posture stays where it is. *)
Revert(eroded) ==
  /\ Guarded /\ reverts < MaxCount /\ cycles < MaxCount
  /\ reverts' = reverts + 1 /\ cycles' = cycles + 1
  /\ reverts' >= MinCycles /\ closeOnly
  /\ closeOnly' = FALSE /\ degraded' = {}
  /\ params' = IF Tuner THEN Recovered(params, reverts', eroded) ELSE params
  /\ \E ok \in SaveOutcome : saved' = IF ok /\ params' # params THEN params' ELSE saved
  /\ UNCHANGED <<posture, last, evidence, overridden>>

(* Time passes: ages grow up to the edge of the window. *)
Tick ==
  /\ \E s \in Scope : age[s] < Outside
  /\ age' = [s \in Scope |-> IF age[s] < Outside THEN age[s] + 1 ELSE age[s]]
  /\ UNCHANGED <<posture, last, muted, quarantined, attempts, cooling, closeOnly, degraded,
                 reverts, tuning, overridden, cycles>>

(* A cooldown ends. *)
CooldownEnds ==
  /\ \E s \in cooling : cooling' = cooling \ {s}
  /\ UNCHANGED <<posture, last, muted, age, quarantined, attempts, closeOnly, degraded,
                 reverts, tuning, overridden, cycles>>

-----------------------------------------------------------------------------
(* POST /command RETRY_HEALING *)
RetryHealing ==
  /\ Operator
  /\ attempts' = [k \in HealKey |-> 0]
  /\ UNCHANGED <<posture, last, muted, age, quarantined, cooling, closeOnly, degraded,
                 reverts, tuning, overridden, cycles>>

(* POST /command OVERRIDE_POSTURE: the posture and nothing else. *)
OverridePosture(p) ==
  /\ Operator
  /\ posture' = p /\ overridden' = TRUE
  /\ cycles' = IF posture # Stressed /\ p = Stressed THEN 0 ELSE cycles
  /\ UNCHANGED <<last, evidence, closeOnly, degraded, reverts, tuning>>

(* POST /command RELEASE_SCOPE: list.remove takes one entry per provider. *)
ReleaseScope(s) ==
  /\ Operator
  /\ muted' = [muted EXCEPT ![s] = 0] /\ age' = [age EXCEPT ![s] = Outside]
  /\ cooling' = cooling \ {s}
  /\ quarantined' = [p \in Provider |->
       [quarantined[p] EXCEPT ![s] = IF @ > 0 THEN @ - 1 ELSE @]]
  /\ attempts' = [k \in HealKey |-> IF k[2] = s THEN 0 ELSE attempts[k]]
  /\ UNCHANGED <<posture, last, closeOnly, degraded, reverts, tuning, overridden, cycles>>

(* A new process: only the tuned parameters were stored. *)
Restart ==
  /\ posture' = Normal /\ last' = "none"
  /\ muted' = [s \in Scope |-> 0] /\ age' = [s \in Scope |-> Outside]
  /\ quarantined' = [p \in Provider |-> [s \in Scope |-> 0]]
  /\ attempts' = [k \in HealKey |-> 0] /\ cooling' = {}
  /\ closeOnly' = FALSE /\ degraded' = {} /\ reverts' = 0
  /\ params' = saved /\ UNCHANGED saved
  /\ overridden' = FALSE /\ cycles' = 0

Next ==
  \/ \E r \in Report : ProcessReport(r)
  \/ \E s \in Scope, reconnects \in {0, 1} : ConnectorDown(s, reconnects)
  \/ RevertBlocked
  \/ \E eroded \in BOOLEAN : Revert(eroded)
  \/ Tick \/ CooldownEnds
  \/ RetryHealing
  \/ \E p \in Posture : OverridePosture(p)
  \/ \E s \in Scope : ReleaseScope(s)
  \/ Restart

Spec == Init /\ [][Next]_vars

-----------------------------------------------------------------------------
(* Every variable has its type; the parameters stay inside their bounds. *)
TypeOK ==
  /\ posture \in Posture /\ last \in Action \cup {"none"}
  /\ muted \in [Scope -> Nat] /\ age \in [Scope -> 0..Outside]
  /\ quarantined \in [Provider -> [Scope -> Nat]]
  /\ attempts \in [HealKey -> Nat] /\ cooling \subseteq Scope
  /\ closeOnly \in BOOLEAN /\ degraded \subseteq LockdownModules
  /\ reverts \in Nat /\ cycles \in Nat /\ overridden \in BOOLEAN
  /\ params \in Params /\ saved \in Params
  /\ \A n \in Tunable : params[n] \in Low[n]..High[n] /\ saved[n] \in Low[n]..High[n]

(* Until the operator sets the posture it is at least as severe as the     *)
(* last report and every record still held call for: exhausted retries,    *)
(* counted mutes, quarantines, whichever handler recorded them and in      *)
(* whatever order, and however the thresholds were tuned meanwhile.        *)
EvidenceReflected == ~overridden =>
  /\ last = "LOCKDOWN" => posture = Stressed
  /\ last = "SELF_HEAL" => posture >= Degraded
  /\ (\E k \in HealKey : attempts[k] >= MaxHealRetries) => posture = Stressed
  /\ \A s \in Scope : posture >= MuteTarget(muted[s])
  /\ \A p \in Provider :
       /\ SharedCause(quarantined[p]) => posture >= Degraded
       /\ (\E s \in Scope : quarantined[p][s] > 0) => posture >= Caution

(* The guard and the registry of degraded modules never disagree: entries  *)
(* are blocked exactly while the non-critical modules are degraded, and    *)
(* only in a STRESSED system or one whose posture the operator has set.    *)
GuardMatchesModules == Guarded =>
  /\ closeOnly <=> degraded = LockdownModules
  /\ degraded \in {{}, LockdownModules}
  /\ closeOnly => posture = Stressed \/ overridden

(* However often the parameters were hardened, an asset passes CAUTION     *)
(* before DEGRADED.                                                        *)
ThresholdsOrdered == params.caution < params.degraded /\ saved.caution < saved.degraded

(* Only the operator and a new process lower the posture. *)
PostureSticks == [][posture' < posture => Restart \/ \E p \in Posture : OverridePosture(p)]_vars

(* The protocol is not lifted before min_stability_cycles attempts since   *)
(* the system became STRESSED, as long as the operator leaves the posture  *)
(* alone.                                                                  *)
RevertWaits ==
  [][\A eroded \in BOOLEAN : Revert(eroded) /\ ~overridden => cycles' >= MinCycles]_vars

-----------------------------------------------------------------------------
(* What the source says and the code does not do. *)

(* activate_close_only_protocol is "called automatically when a LOCKDOWN   *)
(* event is processed".                                                    *)
LockdownClosesEntries == [][last # "LOCKDOWN" /\ last' = "LOCKDOWN" => closeOnly']_vars
=============================================================================
