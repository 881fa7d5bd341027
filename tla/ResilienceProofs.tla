--------------------------- MODULE ResilienceProofs ---------------------------
(* Theorems about Resilience for every set of scopes, providers and        *)
(* reports, every threshold and every bound.                               *)
EXTENDS Resilience, TLAPS

(* Once inactive the guard has no modules to restore, once active it was   *)
(* injected and STRESSED was entered together with it.                     *)
ProtocolState ==
  /\ closeOnly => Guarded
  /\ degraded \in {{}, LockdownModules}
  /\ Guarded => (closeOnly <=> degraded = LockdownModules)
  /\ closeOnly => posture = Stressed \/ overridden
  /\ closeOnly /\ ~overridden => cycles = reverts

IInv == TypeOK /\ EvidenceReflected /\ ProtocolState

(* A new report is one of the declared kind. *)
Wellformed == [action : Action, scope : Scope, provider : Provider \cup {NoProvider}, issue : Issue]

-----------------------------------------------------------------------------
(* Hardening only raises a parameter, and never over its bound. *)
LEMMA HardenRaises ==
  ASSUME NEW p \in Params, \A n \in Tunable : p[n] \in Low[n]..High[n]
  PROVE  /\ Harden(p) \in Params
         /\ \A n \in Tunable : Harden(p)[n] \in p[n]..High[n]
<1>1. ASSUME NEW n \in Tunable
      PROVE  Clamped(n, (23 * p[n] + 19) \div 20) \in p[n]..High[n]
  <2>1. /\ p[n] \in Nat /\ Low[n] \in Nat /\ High[n] \in Nat
        /\ Low[n] <= p[n] /\ p[n] <= High[n]
    BY <1>1, ParamsAssumption DEF Params
  <2>2. (23 * p[n] + 19) \div 20 \in Nat /\ (23 * p[n] + 19) \div 20 >= p[n]
    BY <2>1
  <2> QED
    BY <2>1, <2>2 DEF Clamped
<1>2. \A n \in Tunable : Harden(p)[n] \in p[n]..High[n]
  BY <1>1 DEF Harden
<1>3. \A n \in Tunable : p[n] \in Nat /\ High[n] \in Nat
  BY ParamsAssumption DEF Params
<1>4. \A n \in Tunable : Harden(p)[n] \in Nat
  BY <1>2, <1>3
<1> QED
  BY <1>2, <1>4 DEF Harden, Params

(* A recovery after enough cycles never softens. *)
LEMMA RecoveryRaises ==
  ASSUME NEW p \in Params, \A n \in Tunable : p[n] \in Low[n]..High[n],
         NEW c \in Nat, c >= p.stability, NEW eroded \in BOOLEAN
  PROVE  /\ Recovered(p, c, eroded) \in Params
         /\ \A n \in Tunable : Recovered(p, c, eroded)[n] \in p[n]..High[n]
<1>1. \A n \in Tunable : p[n] \in Nat /\ p[n] <= High[n] /\ High[n] \in Nat
  BY ParamsAssumption DEF Params
<1>2. p.stability = p["stability"] /\ "stability" \in Tunable
  BY DEF Tunable
<1>3. ~(c < p.stability)
  BY <1>1, <1>2
<1>4. \A n \in Tunable : p[n] \in p[n]..High[n]
  BY <1>1
<1> QED
  BY <1>3, <1>4, HardenRaises DEF Recovered

(* What a mute calls for falls when the thresholds rise. *)
LEMMA MuteTargetType ==
  ASSUME TypeOK, NEW n \in Nat
  PROVE  MuteTarget(n) \in Normal..Degraded
BY DEF MuteTarget, Normal, Caution, Degraded

-----------------------------------------------------------------------------
(* The end of process_report: the posture is at least p and the target,    *)
(* the retries it counted are reflected, the protocol goes with it.        *)
LEMMA ArbitrateStep ==
  ASSUME IInv, NEW r \in Wellformed, NEW p \in Posture, p >= posture,
         NEW target \in Posture, Arbitrate(r, p, target),
         p # posture => p = Stressed
  PROVE  /\ posture' \in Posture /\ posture' >= p /\ posture' >= target
         /\ last' = r.action /\ last' \in Action
         /\ attempts' \in [HealKey -> Nat] /\ cooling' \subseteq Scope
         /\ closeOnly' \in BOOLEAN /\ degraded' \subseteq LockdownModules
         /\ reverts' \in Nat /\ cycles' \in Nat
         /\ UNCHANGED <<params, saved, overridden>>
         /\ ~overridden => ((\E k \in HealKey : attempts'[k] >= MaxHealRetries) => posture' = Stressed)
         /\ ProtocolState'
<1> USE DEF Normal, Caution, Degraded, Stressed, Posture
<1>1. PICK healed \in Posture : Playbook(r, p, healed) /\ Escalate(healed, target)
  BY DEF Arbitrate
<1>2. /\ healed >= p
      /\ attempts' \in [HealKey -> Nat] /\ cooling' \subseteq Scope
      /\ \A k \in HealKey : attempts'[k] >= MaxHealRetries =>
           healed = Stressed \/ attempts[k] >= MaxHealRetries
  <2>0. attempts \in [HealKey -> Nat] /\ cooling \subseteq Scope /\ MaxHealRetries \in Nat \ {0}
    BY SizeAssumption DEF IInv, TypeOK
  <2>1. CASE Heal(r, p, healed)
    <3> DEFINE k0 == <<r.issue, r.scope>>
    <3>1. k0 \in HealKey /\ attempts[k0] \in Nat
      BY <2>0, <2>1 DEF Heal, HealKey, Wellformed
    <3>2. CASE attempts' = [attempts EXCEPT ![k0] = 0] /\ healed = p
      BY <2>0, <2>1, <3>1, <3>2 DEF Heal
    <3>3. CASE /\ attempts' = [attempts EXCEPT ![k0] = @ + 1]
               /\ healed = IF attempts[k0] + 1 >= MaxHealRetries THEN Stressed ELSE p
      BY <2>0, <2>1, <3>1, <3>3 DEF Heal
    <3> QED
      BY <2>1, <3>2, <3>3 DEF Heal
  <2>2. CASE r.issue = "Spread_Anomaly" /\ cooling' = cooling \cup {r.scope} /\ healed = p /\ UNCHANGED attempts
    BY <2>0, <2>2 DEF Wellformed
  <2>3. CASE r.issue = "none" /\ healed = p /\ UNCHANGED <<attempts, cooling>>
    BY <2>0, <2>3
  <2> QED
    BY <1>1, <2>1, <2>2, <2>3 DEF Playbook
<1>3. posture' = Worst(healed, target) /\ posture' \in Posture /\ posture' >= healed /\ posture' >= target
  BY <1>1 DEF Escalate, Worst
<1>4. last' = r.action /\ last' \in Action /\ UNCHANGED <<params, saved, overridden>>
  BY DEF Arbitrate, tuning, Wellformed
<1>5. posture' >= p /\ posture \in Posture /\ posture' >= posture
  BY <1>2, <1>3 DEF IInv, TypeOK
<1>6. ~overridden => ((\E k \in HealKey : attempts'[k] >= MaxHealRetries) => posture' = Stressed)
  <2>1. SUFFICES ASSUME ~overridden, NEW k \in HealKey, attempts'[k] >= MaxHealRetries
                 PROVE  posture' = Stressed
    OBVIOUS
  <2>2. CASE healed = Stressed
    BY <1>3, <2>2
  <2>3. CASE attempts[k] >= MaxHealRetries
    BY <1>3, <1>5, <2>1, <2>3 DEF IInv, EvidenceReflected
  <2> QED
    BY <1>1, <1>2, <2>1, <2>2, <2>3
<1>7. cycles' = (IF posture # Stressed /\ posture' = Stressed THEN 0 ELSE cycles) /\ cycles' \in Nat
  BY <1>1 DEF Escalate, IInv, TypeOK
<1>8. closeOnly \in BOOLEAN /\ degraded \subseteq LockdownModules /\ reverts \in Nat /\ cycles \in Nat
  BY DEF IInv, TypeOK
<1>9. /\ closeOnly' \in BOOLEAN /\ degraded' \subseteq LockdownModules /\ reverts' \in Nat
      /\ ProtocolState'
  <2>1. CASE healed # Stressed /\ target = Stressed
    <3>1. reverts' = 0 /\ closeOnly' = (Guarded \/ closeOnly) /\ degraded' = LockdownModules
      BY <1>1, <2>1 DEF Escalate, ActivateCloseOnly
    <3>2. posture # Stressed /\ posture' = Stressed
      BY <1>2, <1>3, <1>5, <2>1
    <3>3. cycles' = 0
      BY <1>7, <3>2
    <3>4. closeOnly' <=> Guarded
      BY <3>1 DEF IInv, ProtocolState
    <3>5. closeOnly' \in BOOLEAN
      BY <1>8, <3>1, SwitchAssumption
    <3> QED
      BY <1>8, <3>1, <3>2, <3>3, <3>4, <3>5 DEF ProtocolState
  <2>2. CASE ~(healed # Stressed /\ target = Stressed)
    <3>1. UNCHANGED <<reverts, closeOnly, degraded>>
      BY <1>1, <2>2 DEF Escalate
    <3>4. posture = Stressed => posture' = Stressed
      BY <1>3, <1>5
    <3>2. closeOnly => posture' = Stressed \/ overridden
      <4>1. closeOnly => posture = Stressed \/ overridden
        BY ZenonT(20) DEF IInv, ProtocolState
      <4> QED
        BY <4>1, <3>4
    <3>3. closeOnly /\ ~overridden => posture = Stressed /\ cycles' = cycles
      BY <1>7 DEF IInv, ProtocolState
    <3> QED
      BY <1>4, <1>8, <3>1, <3>2, <3>3 DEF IInv, ProtocolState
  <2> QED
    BY <2>1, <2>2
<1> QED
  BY <1>2, <1>3, <1>4, <1>5, <1>6, <1>7, <1>9
-----------------------------------------------------------------------------
(* The start, and a new process. *)
Fresh ==
  /\ posture = Normal /\ last = "none"
  /\ muted = [s \in Scope |-> 0] /\ age = [s \in Scope |-> Outside]
  /\ quarantined = [p \in Provider |-> [s \in Scope |-> 0]]
  /\ attempts = [k \in HealKey |-> 0] /\ cooling = {}
  /\ closeOnly = FALSE /\ degraded = {} /\ reverts = 0
  /\ overridden = FALSE /\ cycles = 0
  /\ params \in Params /\ saved \in Params
  /\ \A n \in Tunable : params[n] \in Low[n]..High[n] /\ saved[n] \in Low[n]..High[n]

LEMMA FreshState == Fresh => IInv
<1> SUFFICES ASSUME Fresh PROVE IInv
  OBVIOUS
<1> USE DEF Fresh
<1>1. TypeOK
  <2>1. closeOnly \in BOOLEAN /\ overridden \in BOOLEAN
    BY Zenon
  <2>2. posture \in Posture /\ last \in Action \cup {"none"} /\ reverts \in Nat /\ cycles \in Nat
    BY DEF Posture, Normal, Stressed
  <2>3. /\ muted \in [Scope -> Nat] /\ age \in [Scope -> 0..Outside]
        /\ quarantined \in [Provider -> [Scope -> Nat]] /\ attempts \in [HealKey -> Nat]
    BY SizeAssumption DEF Outside
  <2> QED
    BY <2>1, <2>2, <2>3 DEF TypeOK
<1>2. EvidenceReflected
  <2>1. \A k \in HealKey : ~(attempts[k] >= MaxHealRetries)
    BY SizeAssumption
  <2>2. \A s \in Scope : MuteTarget(muted[s]) = Normal
    <3>1. \A n \in Tunable : params[n] >= 1 /\ DefaultParams[n] >= 1 /\ params[n] \in Nat /\ DefaultParams[n] \in Nat
      BY ParamsAssumption DEF Params
    <3>2. Threshold("caution") \in Nat /\ Threshold("caution") >= 1
          /\ Threshold("degraded") \in Nat /\ Threshold("degraded") >= 1
      BY <3>1, SwitchAssumption DEF Threshold, Tunable
    <3>3. ~(0 >= Threshold("degraded")) /\ ~(0 >= Threshold("caution"))
      BY <3>2
    <3> QED
      BY <3>3 DEF MuteTarget
  <2>3. \A p \in Provider : ~SharedCause(quarantined[p]) /\ ~(\E s \in Scope : quarantined[p][s] > 0)
    <3>1. \A p \in Provider : \A s \in Scope : quarantined[p][s] = 0
      OBVIOUS
    <3> QED
      BY <3>1 DEF SharedCause
  <2> QED
    BY <2>1, <2>2, <2>3 DEF EvidenceReflected, Normal
<1>3. ProtocolState
  BY ModulesAssumption DEF ProtocolState
<1> QED
  BY <1>1, <1>2, <1>3 DEF IInv
-----------------------------------------------------------------------------
(* The postures a report may call for. *)
LEMMA PostureValues ==
  /\ Normal \in Posture /\ Caution \in Posture /\ Degraded \in Posture /\ Stressed \in Posture
  /\ \A n \in Nat : MuteTarget(n) \in Posture
BY DEF MuteTarget, Posture, Normal, Caution, Degraded, Stressed

(* A handled report preserves the invariant, given what its own records    *)
(* call for.                                                               *)
LEMMA HandledReport ==
  ASSUME IInv, NEW r \in Wellformed, NEW p \in Posture, p >= posture,
         NEW target \in Posture, Arbitrate(r, p, target),
         p # posture => p = Stressed,
         muted' \in [Scope -> Nat], age' \in [Scope -> 0..Outside],
         quarantined' \in [Provider -> [Scope -> Nat]],
         r.action = "LOCKDOWN" => target = Stressed,
         r.action = "SELF_HEAL" => target >= Degraded,
         \A s \in Scope : muted'[s] = muted[s] \/ target = MuteTarget(muted'[s]),
         \A q \in Provider : quarantined'[q] = quarantined[q] \/ target >= Caution,
         \A q \in Provider : quarantined'[q] = quarantined[q] \/ target >= Degraded
                             \/ ~SharedCause(quarantined'[q])
  PROVE  IInv' /\ posture' >= posture
<1> USE DEF Normal, Caution, Degraded, Stressed, Posture
<1>1. /\ posture' \in Posture /\ posture' >= p /\ posture' >= target
      /\ last' = r.action /\ last' \in Action
      /\ attempts' \in [HealKey -> Nat] /\ cooling' \subseteq Scope
      /\ closeOnly' \in BOOLEAN /\ degraded' \subseteq LockdownModules
      /\ reverts' \in Nat /\ cycles' \in Nat
      /\ UNCHANGED <<params, saved, overridden>>
      /\ ~overridden => ((\E k \in HealKey : attempts'[k] >= MaxHealRetries) => posture' = Stressed)
      /\ ProtocolState'
  BY ArbitrateStep
<1>2. posture \in Posture /\ posture' >= posture
  BY <1>1 DEF IInv, TypeOK
<1>3. TypeOK'
  <2>1. overridden' \in BOOLEAN /\ params' \in Params /\ saved' \in Params
        /\ \A n \in Tunable : params'[n] \in Low[n]..High[n] /\ saved'[n] \in Low[n]..High[n]
    BY <1>1 DEF IInv, TypeOK
  <2> QED
    BY <1>1, <2>1 DEF TypeOK
<1>4. ASSUME ~overridden, NEW s \in Scope PROVE posture' >= MuteTarget(muted'[s])
  <2>1. posture >= MuteTarget(muted[s]) /\ muted[s] \in Nat
    BY <1>4 DEF IInv, EvidenceReflected, TypeOK
  <2>2. MuteTarget(muted[s]) \in Posture
    BY <2>1, PostureValues
  <2>3. CASE muted'[s] = muted[s]
    BY <1>1, <1>2, <2>1, <2>2, <2>3
  <2>4. CASE target = MuteTarget(muted'[s])
    BY <1>1, <2>4
  <2> QED
    BY <2>3, <2>4
<1>5. ASSUME ~overridden', NEW q \in Provider
      PROVE  /\ SharedCause(quarantined'[q]) => posture' >= Degraded
             /\ (\E s \in Scope : quarantined'[q][s] > 0) => posture' >= Caution
  <2>1. /\ SharedCause(quarantined[q]) => posture >= Degraded
        /\ (\E s \in Scope : quarantined[q][s] > 0) => posture >= Caution
    BY <1>1, <1>5 DEF IInv, EvidenceReflected
  <2>2. CASE quarantined'[q] = quarantined[q]
    <3>1. SharedCause(quarantined'[q]) <=> SharedCause(quarantined[q])
      BY <2>2 DEF SharedCause
    <3> QED
      BY <1>1, <1>2, <2>1, <2>2, <3>1
  <2>3. CASE target >= Degraded
    BY <1>1, <2>3
  <2>4. CASE target >= Caution /\ ~SharedCause(quarantined'[q])
    BY <1>1, <2>4
  <2> QED
    BY <2>2, <2>3, <2>4
<1>6. EvidenceReflected'
  <2>1. SUFFICES ASSUME ~overridden'
                 PROVE  /\ last' = "LOCKDOWN" => posture' = Stressed
                        /\ last' = "SELF_HEAL" => posture' >= Degraded
                        /\ (\E k \in HealKey : attempts'[k] >= MaxHealRetries) => posture' = Stressed
                        /\ \A s \in Scope : posture' >= MuteTarget(muted[s])'
                        /\ \A q \in Provider :
                             /\ SharedCause(quarantined'[q]) => posture' >= Degraded
                             /\ (\E s \in Scope : quarantined'[q][s] > 0) => posture' >= Caution
    BY DEF EvidenceReflected, SharedCause
  <2>2. ~overridden
    BY <1>1, <2>1
  <2>3. \A s \in Scope : MuteTarget(muted[s])' = MuteTarget(muted'[s])
    BY <1>1 DEF MuteTarget, Threshold
  <2>4. \A s \in Scope : posture' >= MuteTarget(muted[s])'
    BY <1>4, <2>2, <2>3
  <2> QED
    BY <1>1, <1>5, <2>1, <2>2, <2>4
<1> QED
  BY <1>1, <1>2, <1>3, <1>6 DEF IInv
-----------------------------------------------------------------------------
(* process_report, one lemma for each kind of report. *)
LEMMA MuteStep ==
  ASSUME IInv, NEW r \in Wellformed, Mute(r)
  PROVE  IInv' /\ posture' >= posture
<1> DEFINE heard == [age EXCEPT ![r.scope] = 0]
           cascade == Cardinality({s \in Scope : heard[s] <= Window}) >= CorrelationThreshold
           p == IF cascade THEN Stressed ELSE posture
           target == MuteTarget(muted[r.scope] + 1)
<1>1. /\ r.action = "MUTE"
      /\ age' = IF cascade THEN [s \in Scope |-> Outside] ELSE heard
      /\ muted' = [muted EXCEPT ![r.scope] = @ + 1]
      /\ Arbitrate(r, p, target)
      /\ quarantined' = quarantined
  BY DEF Mute
<1>2. /\ posture \in Posture /\ muted \in [Scope -> Nat] /\ age \in [Scope -> 0..Outside]
      /\ quarantined \in [Provider -> [Scope -> Nat]] /\ r.scope \in Scope
  BY DEF IInv, TypeOK, Wellformed
<1>3. p \in Posture /\ p >= posture /\ (p # posture => p = Stressed)
  BY <1>2 DEF Posture, Normal, Stressed
<1>4. target \in Posture
  BY <1>2, PostureValues
<1>5. muted' \in [Scope -> Nat] /\ age' \in [Scope -> 0..Outside] /\ quarantined' \in [Provider -> [Scope -> Nat]]
  <2>1. heard \in [Scope -> 0..Outside]
    BY <1>2, SizeAssumption DEF Outside
  <2>2. [s \in Scope |-> Outside] \in [Scope -> 0..Outside]
    BY SizeAssumption DEF Outside
  <2> HIDE DEF heard, cascade
  <2>3. age' \in [Scope -> 0..Outside]
    BY <1>1, <2>1, <2>2
  <2> QED
    BY <1>1, <1>2, <2>3
<1>6. \A s \in Scope : muted'[s] = muted[s] \/ target = MuteTarget(muted'[s])
  BY <1>1, <1>2
<1> HIDE DEF p, target
<1> QED
  BY <1>1, <1>3, <1>4, <1>5, <1>6, HandledReport

LEMMA QuarantineStep ==
  ASSUME IInv, NEW r \in Wellformed, QuarantineOne(r) \/ QuarantineShared(r)
  PROVE  IInv' /\ posture' >= posture
<1>1. /\ posture \in Posture /\ muted \in [Scope -> Nat] /\ age \in [Scope -> 0..Outside]
      /\ quarantined \in [Provider -> [Scope -> Nat]] /\ r.scope \in Scope
      /\ r.provider \in Provider \cup {NoProvider}
  BY DEF IInv, TypeOK, Wellformed
<1>2. r.action = "QUARANTINE" /\ UNCHANGED <<muted, age>>
  BY DEF QuarantineOne, QuarantineShared
<1>3. posture >= posture
  BY <1>1 DEF Posture, Normal, Stressed
<1>4. Caution >= Caution /\ Degraded >= Degraded /\ Degraded >= Caution
  BY DEF Caution, Degraded
<1>5. ASSUME r.provider \in Provider,
             quarantined' = [quarantined EXCEPT ![r.provider][r.scope] = @ + 1]
      PROVE  quarantined' \in [Provider -> [Scope -> Nat]]
  BY <1>1, <1>5
<1>6. CASE QuarantineOne(r) /\ r.provider = NoProvider
  <2>1. UNCHANGED quarantined /\ Arbitrate(r, posture, Caution)
    BY <1>6 DEF QuarantineOne
  <2> QED
    BY <1>1, <1>2, <1>3, <2>1, HandledReport, PostureValues
<1>7. CASE QuarantineOne(r) /\ r.provider # NoProvider
  <2>1. /\ quarantined' = [quarantined EXCEPT ![r.provider][r.scope] = @ + 1]
        /\ ~SharedCause(quarantined'[r.provider]) /\ Arbitrate(r, posture, Caution)
    BY <1>7 DEF QuarantineOne
  <2>2. quarantined' \in [Provider -> [Scope -> Nat]]
    BY <1>1, <1>5, <1>7, <2>1
  <2>3. \A q \in Provider : quarantined'[q] = quarantined[q] \/ q = r.provider
    BY <1>1, <2>1
  <2>4. \A q \in Provider : quarantined'[q] = quarantined[q] \/ ~SharedCause(quarantined'[q])
    BY <2>1, <2>3
  <2> QED
    BY <1>1, <1>2, <1>3, <1>4, <2>1, <2>2, <2>4, HandledReport, PostureValues
<1>8. CASE QuarantineShared(r)
  <2> DEFINE u == [r EXCEPT !.action = "SELF_HEAL", !.issue = "none"]
  <2>1. /\ quarantined' = [quarantined EXCEPT ![r.provider][r.scope] = @ + 1]
        /\ r.provider # NoProvider /\ Arbitrate(u, posture, Degraded)
    BY <1>8 DEF QuarantineShared
  <2>2. quarantined' \in [Provider -> [Scope -> Nat]]
    BY <1>1, <1>5, <2>1
  <2>3. u \in Wellformed /\ u.action = "SELF_HEAL"
    BY DEF Wellformed, Action, Issue
  <2> HIDE DEF u
  <2> QED
    BY <1>1, <1>2, <1>3, <1>4, <2>1, <2>2, <2>3, HandledReport, PostureValues
<1> QED
  BY <1>6, <1>7, <1>8

LEMMA ServiceStep ==
  ASSUME IInv, NEW r \in Wellformed, SelfHeal(r) \/ Lockdown(r)
  PROVE  IInv' /\ posture' >= posture
<1>1. /\ posture \in Posture /\ muted \in [Scope -> Nat] /\ age \in [Scope -> 0..Outside]
      /\ quarantined \in [Provider -> [Scope -> Nat]]
  BY DEF IInv, TypeOK
<1>2. posture >= posture /\ Degraded >= Degraded
  BY <1>1 DEF Posture, Normal, Stressed, Degraded
<1>3. UNCHANGED <<muted, age, quarantined>>
  BY DEF SelfHeal, Lockdown
<1>4. CASE SelfHeal(r)
  BY <1>1, <1>2, <1>3, <1>4, HandledReport, PostureValues DEF SelfHeal
<1>5. CASE Lockdown(r)
  BY <1>1, <1>2, <1>3, <1>5, HandledReport, PostureValues DEF Lockdown
<1> QED
  BY <1>4, <1>5

LEMMA ReportStep ==
  ASSUME IInv, NEW r \in Wellformed, ProcessReport(r)
  PROVE  IInv' /\ posture' >= posture
BY MuteStep, QuarantineStep, ServiceStep DEF ProcessReport
-----------------------------------------------------------------------------
(* The other handlers.  Each leaves the posture, or is the operator's. *)
LEMMA RevertBlockedStep ==
  ASSUME IInv, RevertBlocked
  PROVE  IInv'
<1>1. /\ UNCHANGED <<posture, last, muted, age, quarantined, attempts, cooling, closeOnly,
                      degraded, params, saved, overridden>>
      /\ reverts' = reverts + 1 /\ cycles' = cycles + 1
  BY DEF RevertBlocked, evidence, tuning
<1>2. reverts' \in Nat /\ cycles' \in Nat /\ (cycles = reverts => cycles' = reverts')
  BY <1>1 DEF IInv, TypeOK
<1>3. TypeOK'
  BY <1>1, <1>2 DEF IInv, TypeOK
<1>4. EvidenceReflected'
  BY <1>1 DEF IInv, EvidenceReflected, MuteTarget, Threshold, SharedCause
<1>5. ProtocolState'
  BY <1>1, <1>2 DEF IInv, ProtocolState
<1> QED
  BY <1>3, <1>4, <1>5 DEF IInv

LEMMA RevertStep ==
  ASSUME IInv, NEW eroded \in BOOLEAN, Revert(eroded)
  PROVE  IInv' /\ (~overridden => cycles' >= MinCycles)
<1>1. /\ UNCHANGED <<posture, last, muted, age, quarantined, attempts, cooling, overridden>>
      /\ reverts' = reverts + 1 /\ cycles' = cycles + 1
      /\ reverts' >= MinCycles /\ closeOnly
      /\ closeOnly' = FALSE /\ degraded' = {}
      /\ params' = IF Tuner THEN Recovered(params, reverts', eroded) ELSE params
      /\ \E ok \in SaveOutcome : saved' = IF ok /\ params' # params THEN params' ELSE saved
  BY DEF Revert, evidence
<1>2. /\ reverts \in Nat /\ cycles \in Nat /\ reverts' \in Nat /\ cycles' \in Nat
      /\ params \in Params /\ saved \in Params
      /\ \A n \in Tunable : params[n] \in Low[n]..High[n] /\ saved[n] \in Low[n]..High[n]
  BY <1>1 DEF IInv, TypeOK
<1>3. \A n \in Tunable : params[n] \in Nat /\ Low[n] \in Nat /\ High[n] \in Nat
  BY <1>2, ParamsAssumption DEF Params
<1>4. params' \in Params /\ \A n \in Tunable : params'[n] \in params[n]..High[n]
  <2>1. CASE Tuner
    <3>1. reverts' >= params.stability
      BY <1>1, <2>1 DEF MinCycles
    <3>2. params' = Recovered(params, reverts', eroded)
      BY <1>1, <2>1
    <3> QED
      BY <1>2, <3>1, <3>2, RecoveryRaises
  <2>2. CASE ~Tuner
    BY <1>1, <1>2, <1>3, <2>2
  <2> QED
    BY <2>1, <2>2
<1>5. \A n \in Tunable : params'[n] \in Low[n]..High[n]
  BY <1>2, <1>3, <1>4
<1>6. saved' \in Params /\ \A n \in Tunable : saved'[n] \in Low[n]..High[n]
  BY <1>1, <1>2, <1>4, <1>5
<1>7. TypeOK'
  <2>1. closeOnly' \in BOOLEAN /\ overridden' \in BOOLEAN
    BY <1>1, Zenon DEF IInv, TypeOK
  <2>2. degraded' \subseteq LockdownModules
    BY <1>1
  <2> QED
    BY <1>1, <1>2, <1>4, <1>5, <1>6, <2>1, <2>2 DEF IInv, TypeOK
<1>8. \A n \in Nat : MuteTarget(n)' <= MuteTarget(n)
  <2>0. \A n \in Tunable : params'[n] \in Nat /\ params'[n] >= params[n]
    BY <1>3, <1>4
  <2>1. \A n \in Tunable : Threshold(n)' >= Threshold(n) /\ Threshold(n) \in Nat /\ Threshold(n)' \in Nat
    <3>1. \A n \in Tunable : DefaultParams[n] \in Nat
      BY ParamsAssumption DEF Params
    <3> QED
      BY <1>3, <2>0, <3>1 DEF Threshold
  <2>2. "caution" \in Tunable /\ "degraded" \in Tunable
    BY DEF Tunable
  <2> DEFINE c == Threshold("caution")  d == Threshold("degraded")
             c2 == Threshold("caution")'  d2 == Threshold("degraded")'
  <2>3. c \in Nat /\ d \in Nat /\ c2 \in Nat /\ d2 \in Nat /\ c <= c2 /\ d <= d2
    BY <2>1, <2>2
  <2>4. \A n \in Nat : MuteTarget(n) = IF n >= d THEN Degraded ELSE IF n >= c THEN Caution ELSE Normal
    BY DEF MuteTarget
  <2>5. \A n \in Nat : MuteTarget(n)' = IF n >= d2 THEN Degraded ELSE IF n >= c2 THEN Caution ELSE Normal
    BY DEF MuteTarget
  <2> HIDE DEF c, d, c2, d2
  <2> QED
    BY <2>3, <2>4, <2>5 DEF Normal, Caution, Degraded
<1>9. EvidenceReflected'
  <2>1. SUFFICES ASSUME ~overridden' PROVE \A s \in Scope : posture' >= MuteTarget(muted[s])'
    BY <1>1 DEF IInv, EvidenceReflected, SharedCause
  <2>2. SUFFICES ASSUME NEW s \in Scope PROVE posture >= MuteTarget(muted[s])'
    BY <1>1
  <2>3. muted[s] \in Nat /\ muted'[s] = muted[s] /\ posture >= MuteTarget(muted[s]) /\ posture \in Posture
    BY <1>1, <2>1 DEF IInv, EvidenceReflected, TypeOK
  <2>4. \A n \in Nat : n = muted'[s] => MuteTarget(n)' = MuteTarget(muted[s])'
    BY DEF MuteTarget
  <2>5. MuteTarget(muted[s])' <= MuteTarget(muted[s])
    BY <1>8, <2>3, <2>4
  <2>6. MuteTarget(muted[s])' \in Posture /\ MuteTarget(muted[s]) \in Posture
    BY <2>3, PostureValues DEF MuteTarget, Posture, Normal, Caution, Degraded, Stressed
  <2> QED
    BY <2>3, <2>5, <2>6 DEF Posture, Normal, Stressed
<1>10. ProtocolState'
  BY <1>1, ModulesAssumption DEF ProtocolState
<1>11. ~overridden => cycles' >= MinCycles
  <2>1. ~overridden => cycles = reverts
    BY <1>1, Zenon DEF IInv, ProtocolState
  <2> QED
    BY <1>1, <1>2, <2>1
<1> QED
  BY <1>7, <1>9, <1>10, <1>11 DEF IInv
(* Time and the ends of cooldowns: nothing the invariant looks at. *)
LEMMA TimeStep ==
  ASSUME IInv, Tick \/ CooldownEnds
  PROVE  IInv' /\ posture' = posture
<1>1. /\ UNCHANGED <<posture, last, muted, quarantined, attempts, closeOnly, degraded, reverts,
                      params, saved, overridden, cycles>>
  BY DEF Tick, CooldownEnds, tuning
<1>2. age' \in [Scope -> 0..Outside] /\ cooling' \subseteq Scope
  <2>1. age \in [Scope -> 0..Outside] /\ cooling \subseteq Scope
    BY DEF IInv, TypeOK
  <2>2. CASE Tick
    <3>1. \A s \in Scope : (IF age[s] < Outside THEN age[s] + 1 ELSE age[s]) \in 0..Outside
      BY <2>1, SizeAssumption DEF Outside
    <3> QED
      BY <2>1, <2>2, <3>1 DEF Tick
  <2>3. CASE CooldownEnds
    BY <2>1, <2>3 DEF CooldownEnds
  <2> QED
    BY <2>2, <2>3
<1>3. TypeOK'
  BY <1>1, <1>2 DEF IInv, TypeOK
<1>4. EvidenceReflected'
  BY <1>1 DEF IInv, EvidenceReflected, MuteTarget, Threshold, SharedCause
<1>5. ProtocolState'
  BY <1>1 DEF IInv, ProtocolState
<1> QED
  BY <1>1, <1>3, <1>4, <1>5 DEF IInv

(* The operator takes records away: what is left calls for no more. *)
LEMMA ReleaseStep ==
  ASSUME IInv, RetryHealing \/ \E s \in Scope : ReleaseScope(s)
  PROVE  IInv' /\ posture' = posture
<1>1. /\ UNCHANGED <<posture, last, closeOnly, degraded, reverts, params, saved, overridden, cycles>>
  BY DEF RetryHealing, ReleaseScope, tuning
<1>2. /\ muted \in [Scope -> Nat] /\ age \in [Scope -> 0..Outside] /\ cooling \subseteq Scope
      /\ quarantined \in [Provider -> [Scope -> Nat]] /\ attempts \in [HealKey -> Nat]
  BY DEF IInv, TypeOK
<1>3. /\ attempts' \in [HealKey -> Nat] /\ cooling' \subseteq Scope
      /\ muted' \in [Scope -> Nat] /\ age' \in [Scope -> 0..Outside]
      /\ quarantined' \in [Provider -> [Scope -> Nat]]
      /\ \A k \in HealKey : attempts'[k] = 0 \/ attempts'[k] = attempts[k]
      /\ \A s \in Scope : muted'[s] = 0 \/ muted'[s] = muted[s]
      /\ \A p \in Provider : \A s \in Scope : quarantined'[p][s] <= quarantined[p][s]
  <2>1. CASE RetryHealing
    BY <1>2, <2>1 DEF RetryHealing
  <2>2. ASSUME NEW s \in Scope, ReleaseScope(s)
        PROVE  /\ attempts' \in [HealKey -> Nat] /\ cooling' \subseteq Scope
               /\ muted' \in [Scope -> Nat] /\ age' \in [Scope -> 0..Outside]
               /\ quarantined' \in [Provider -> [Scope -> Nat]]
               /\ \A k \in HealKey : attempts'[k] = 0 \/ attempts'[k] = attempts[k]
               /\ \A t \in Scope : muted'[t] = 0 \/ muted'[t] = muted[t]
               /\ \A p \in Provider : \A t \in Scope : quarantined'[p][t] <= quarantined[p][t]
    <3>1. attempts' \in [HealKey -> Nat] /\ \A k \in HealKey : attempts'[k] = 0 \/ attempts'[k] = attempts[k]
      BY <1>2, <2>2 DEF ReleaseScope
    <3>2. /\ muted' \in [Scope -> Nat] /\ \A t \in Scope : muted'[t] = 0 \/ muted'[t] = muted[t]
          /\ age' \in [Scope -> 0..Outside] /\ cooling' \subseteq Scope
      BY <1>2, <2>2, SizeAssumption DEF ReleaseScope, Outside
    <3>3. ASSUME NEW p \in Provider
          PROVE  quarantined'[p] \in [Scope -> Nat] /\ \A t \in Scope : quarantined'[p][t] <= quarantined[p][t]
      BY <1>2, <2>2 DEF ReleaseScope
    <3>4. quarantined' = [p \in Provider |-> quarantined'[p]]
      BY <2>2 DEF ReleaseScope
    <3> QED
      BY <3>1, <3>2, <3>3, <3>4
  <2> QED
    BY <2>1, <2>2
<1>4. TypeOK'
  BY <1>1, <1>3 DEF IInv, TypeOK
<1>5. EvidenceReflected'
  <2>1. SUFFICES ASSUME ~overridden PROVE
          /\ (\E k \in HealKey : attempts'[k] >= MaxHealRetries) => posture = Stressed
          /\ \A s \in Scope : posture >= MuteTarget(muted[s])'
          /\ \A p \in Provider :
               /\ SharedCause(quarantined'[p]) => posture >= Degraded
               /\ (\E s \in Scope : quarantined'[p][s] > 0) => posture >= Caution
    BY <1>1 DEF IInv, EvidenceReflected, SharedCause
  <2>2. (\E k \in HealKey : attempts'[k] >= MaxHealRetries) => posture = Stressed
    BY <1>3, <2>1, SizeAssumption DEF IInv, EvidenceReflected
  <2>3. ASSUME NEW s \in Scope PROVE posture >= MuteTarget(muted[s])'
    <3>1. MuteTarget(muted[s])' = MuteTarget(muted'[s])
      BY <1>1 DEF MuteTarget, Threshold
    <3>2. CASE muted'[s] = muted[s]
      BY <2>1, <3>1, <3>2 DEF IInv, EvidenceReflected
    <3>3. CASE muted'[s] = 0
      <4>1. \A n \in Tunable : params[n] >= 1 /\ DefaultParams[n] >= 1 /\ params[n] \in Nat /\ DefaultParams[n] \in Nat
        BY ParamsAssumption DEF Params, IInv, TypeOK
      <4>2. ~(0 >= Threshold("degraded")) /\ ~(0 >= Threshold("caution"))
        BY <4>1, SwitchAssumption DEF Threshold, Tunable
      <4>3. MuteTarget(muted'[s]) = Normal
        BY <3>3, <4>2 DEF MuteTarget
      <4> QED
        BY <3>1, <4>3 DEF IInv, TypeOK, Posture, Normal, Stressed
    <3> QED
      BY <1>3, <3>2, <3>3
  <2>4. ASSUME NEW p \in Provider
        PROVE  /\ SharedCause(quarantined'[p]) => posture >= Degraded
               /\ (\E s \in Scope : quarantined'[p][s] > 0) => posture >= Caution
    <3>1. \A s \in Scope : /\ quarantined'[p][s] \in Nat /\ quarantined[p][s] \in Nat
                             /\ quarantined'[p][s] <= quarantined[p][s]
      BY <1>2, <1>3
    <3>2. SharedCause(quarantined'[p]) => SharedCause(quarantined[p])
      BY <3>1 DEF SharedCause
    <3>3. (\E s \in Scope : quarantined'[p][s] > 0) => \E s \in Scope : quarantined[p][s] > 0
      BY <3>1
    <3> QED
      BY <2>1, <3>2, <3>3 DEF IInv, EvidenceReflected
  <2> QED
    BY <2>2, <2>3, <2>4
<1>6. ProtocolState'
  BY <1>1 DEF IInv, ProtocolState
<1> QED
  BY <1>1, <1>4, <1>5, <1>6 DEF IInv

LEMMA OverrideStep ==
  ASSUME IInv, NEW p \in Posture, OverridePosture(p)
  PROVE  IInv'
<1>1. /\ UNCHANGED <<last, muted, age, quarantined, attempts, cooling, closeOnly, degraded, reverts, params, saved>>
      /\ posture' = p /\ overridden' = TRUE
      /\ cycles' = IF posture # Stressed /\ p = Stressed THEN 0 ELSE cycles
  BY DEF OverridePosture, evidence, tuning
<1>2. overridden' \in BOOLEAN /\ cycles' \in Nat
  <2>1. overridden' \in BOOLEAN
    BY <1>1
  <2>2. cycles' \in Nat
    BY <1>1 DEF IInv, TypeOK
  <2> QED
    BY <2>1, <2>2
<1>3. TypeOK'
  BY <1>1, <1>2 DEF IInv, TypeOK
<1>4. EvidenceReflected' /\ ProtocolState'
  BY <1>1 DEF IInv, EvidenceReflected, ProtocolState
<1> QED
  BY <1>3, <1>4 DEF IInv

LEMMA RestartStep ==
  ASSUME IInv, Restart
  PROVE  IInv'
<1>1. /\ params' \in Params /\ saved' \in Params
      /\ \A n \in Tunable : params'[n] \in Low[n]..High[n] /\ saved'[n] \in Low[n]..High[n]
  BY DEF IInv, TypeOK, Restart
<1>2. Fresh'
  BY <1>1 DEF Fresh, Restart
<1> QED
  BY <1>2, FreshState, PTL
-----------------------------------------------------------------------------
LEMMA ParamsStart == Init => Fresh
<1> SUFFICES ASSUME Init PROVE Fresh
  OBVIOUS
<1>1. \A n \in Tunable : DefaultParams[n] \in Low[n]..High[n]
  BY ParamsAssumption DEF Params
<1> QED
  BY <1>1, ParamsAssumption DEF Init, Fresh

LEMMA ConnectorReportType ==
  ASSUME NEW s \in Scope, NEW n \in {0, 1}
  PROVE  ConnectorReport(s, n) \in Wellformed
BY DEF ConnectorReport, Wellformed, Action, Issue

LEMMA ReportsWellformed == Report \subseteq Wellformed
BY ReportAssumption DEF Wellformed

LEMMA StepPreserves ==
  ASSUME IInv, [Next]_vars
  PROVE  IInv'
<1>1. ASSUME NEW r \in Report, ProcessReport(r) PROVE IInv'
  BY <1>1, ReportStep, ReportsWellformed
<1>2. ASSUME NEW s \in Scope, NEW n \in {0, 1}, ConnectorDown(s, n) PROVE IInv'
  BY <1>2, ReportStep, ConnectorReportType DEF ConnectorDown
<1>3. CASE RevertBlocked
  BY <1>3, RevertBlockedStep
<1>4. ASSUME NEW eroded \in BOOLEAN, Revert(eroded) PROVE IInv'
  BY <1>4, RevertStep
<1>5. CASE Tick \/ CooldownEnds
  BY <1>5, TimeStep
<1>6. CASE RetryHealing \/ \E s \in Scope : ReleaseScope(s)
  BY <1>6, ReleaseStep
<1>7. ASSUME NEW p \in Posture, OverridePosture(p) PROVE IInv'
  BY <1>7, OverrideStep
<1>8. CASE Restart
  BY <1>8, RestartStep
<1>9. CASE UNCHANGED vars
  <2>1. UNCHANGED <<posture, last, muted, age, quarantined, attempts, cooling, closeOnly, degraded,
                    reverts, params, saved, overridden, cycles>>
    BY <1>9 DEF vars
  <2> QED
    BY <2>1 DEF IInv, TypeOK, EvidenceReflected, ProtocolState, MuteTarget, Threshold, SharedCause
<1> QED
  BY <1>1, <1>2, <1>3, <1>4, <1>5, <1>6, <1>7, <1>8, <1>9 DEF Next

THEOREM Invariance == Spec => []IInv
<1>1. Init => IInv
  BY ParamsStart, FreshState
<1>2. IInv /\ [Next]_vars => IInv'
  BY StepPreserves
<1> QED
  BY <1>1, <1>2, PTL DEF Spec

(* Type correctness of the manager, its guard and its tuner. *)
THEOREM TypeCorrect == Spec => []TypeOK
<1>1. IInv => TypeOK
  BY DEF IInv
<1> QED
  BY <1>1, Invariance, PTL

(* No handler, in any order, leaves the posture below what the records     *)
(* call for.                                                               *)
THEOREM AlwaysReflected == Spec => []EvidenceReflected
<1>1. IInv => EvidenceReflected
  BY DEF IInv
<1> QED
  BY <1>1, Invariance, PTL

(* Guard and registry agree, and entries are blocked only in STRESSED. *)
THEOREM GuardAgrees == Spec => []GuardMatchesModules
<1>1. IInv => GuardMatchesModules
  BY DEF IInv, GuardMatchesModules, ProtocolState
<1> QED
  BY <1>1, Invariance, PTL

(* Escalation is one-directional. *)
THEOREM NeverLowered == Spec => PostureSticks
<1>1. IInv /\ [Next]_vars =>
        [posture' < posture => Restart \/ \E p \in Posture : OverridePosture(p)]_vars
  <2> SUFFICES ASSUME IInv, [Next]_vars, posture' < posture,
                      ~Restart, ~\E p \in Posture : OverridePosture(p)
               PROVE  FALSE
    OBVIOUS
  <2>1. posture \in Posture
    BY DEF IInv, TypeOK
  <2>2. posture' # posture
    BY <2>1 DEF Posture, Normal, Stressed
  <2>3. posture \in Int
    BY <2>1 DEF Posture, Normal, Stressed
  <2>4. ASSUME posture' >= posture, IInv' PROVE FALSE
    BY <2>1, <2>4 DEF IInv, TypeOK, Posture, Normal, Stressed
  <2>5. ASSUME NEW r \in Report, ProcessReport(r) PROVE FALSE
    BY <2>4, <2>5, ReportStep, ReportsWellformed
  <2>6. ASSUME NEW s \in Scope, NEW n \in {0, 1}, ConnectorDown(s, n) PROVE FALSE
    BY <2>4, <2>6, ReportStep, ConnectorReportType DEF ConnectorDown
  <2>7. CASE RevertBlocked
    BY <2>2, <2>7 DEF RevertBlocked
  <2>8. ASSUME NEW eroded \in BOOLEAN, Revert(eroded) PROVE FALSE
    BY <2>2, <2>8 DEF Revert
  <2>9. CASE Tick \/ CooldownEnds \/ RetryHealing \/ \E s \in Scope : ReleaseScope(s)
    BY <2>2, <2>9 DEF Tick, CooldownEnds, RetryHealing, ReleaseScope
  <2>10. CASE UNCHANGED vars
    BY <2>2, <2>10 DEF vars
  <2> QED
    BY <2>5, <2>6, <2>7, <2>8, <2>9, <2>10 DEF Next
<1> QED
  BY <1>1, Invariance, PTL DEF Spec, PostureSticks

(* The protocol stays min_stability_cycles attempts, unless the operator   *)
(* has set the posture.                                                    *)
THEOREM RevertsLate == Spec => RevertWaits
<1>1. IInv /\ [Next]_vars =>
        [\A eroded \in BOOLEAN : Revert(eroded) /\ ~overridden => cycles' >= MinCycles]_vars
  BY RevertStep
<1> QED
  BY <1>1, Invariance, PTL DEF Spec, RevertWaits

-----------------------------------------------------------------------------
(* The defaults and the bounds are ordered; hardening keeps the order.     *)
Ordered(p) == p.caution < p.degraded

LEMMA HardenKeepsOrder ==
  ASSUME NEW p \in Params, \A n \in Tunable : p[n] \in Low[n]..High[n],
         Ordered(p), Ordered(High)
  PROVE  Ordered(Harden(p))
<1>1. "caution" \in Tunable /\ "degraded" \in Tunable
  BY DEF Tunable
<1> DEFINE c == p["caution"]  d == p["degraded"]  hc == High["caution"]  hd == High["degraded"]
           lc == Low["caution"]  ld == Low["degraded"]
<1>2. /\ c \in Nat /\ d \in Nat /\ hc \in Nat /\ hd \in Nat /\ lc \in Nat /\ ld \in Nat
      /\ lc <= c /\ ld <= d /\ c <= hc /\ d <= hd
  BY <1>1, ParamsAssumption DEF Params
<1>3. c < d /\ hc < hd
  BY <1>1 DEF Ordered, Params
<1>4. Harden(p)["caution"] = Clamped("caution", (23 * c + 19) \div 20)
      /\ Harden(p)["degraded"] = Clamped("degraded", (23 * d + 19) \div 20)
  BY <1>1 DEF Harden
<1>5. (23 * c + 19) \div 20 < (23 * d + 19) \div 20
      /\ (23 * c + 19) \div 20 \in Nat /\ (23 * d + 19) \div 20 \in Nat
      /\ (23 * c + 19) \div 20 >= c /\ (23 * d + 19) \div 20 >= d
  BY <1>2, <1>3
<1>6. Clamped("caution", (23 * c + 19) \div 20) < Clamped("degraded", (23 * d + 19) \div 20)
  BY <1>2, <1>3, <1>5 DEF Clamped
<1>7. Harden(p).caution = Harden(p)["caution"] /\ Harden(p).degraded = Harden(p)["degraded"]
  OBVIOUS
<1> QED
  BY <1>4, <1>6, <1>7 DEF Ordered

OrderInv == IInv /\ Ordered(params) /\ Ordered(saved)

LEMMA OrderStep ==
  ASSUME OrderInv, [Next]_vars
  PROVE  OrderInv'
<1>1. IInv'
  BY StepPreserves DEF OrderInv
<1>2. ASSUME NEW eroded \in BOOLEAN, Revert(eroded) PROVE Ordered(params') /\ Ordered(saved')
  <2>1. /\ reverts' = reverts + 1 /\ reverts' >= MinCycles
        /\ params' = IF Tuner THEN Recovered(params, reverts', eroded) ELSE params
        /\ \E ok \in SaveOutcome : saved' = IF ok /\ params' # params THEN params' ELSE saved
    BY <1>2 DEF Revert
  <2>2. params \in Params /\ (\A n \in Tunable : params[n] \in Low[n]..High[n]) /\ reverts \in Nat
    BY DEF OrderInv, IInv, TypeOK
  <2>3. Ordered(Harden(params))
    BY <2>2, HardenKeepsOrder, OrderAssumption DEF OrderInv, Ordered
  <2>4. params.stability \in Nat
    BY <2>2 DEF Params, Tunable
  <2>5. Tuner => ~(reverts' < params.stability)
    BY <2>1, <2>2, <2>4 DEF MinCycles
  <2>6. params' = params \/ params' = Harden(params)
    BY <2>1, <2>5 DEF Recovered
  <2>7. Ordered(params')
    BY <2>3, <2>6 DEF OrderInv
  <2> QED
    BY <2>1, <2>7 DEF OrderInv
<1>3. CASE UNCHANGED <<params, saved>>
  BY <1>1, <1>3 DEF OrderInv, Ordered
<1>4. CASE Restart
  BY <1>1, <1>4 DEF OrderInv, Ordered, Restart
<1>5. ASSUME NEW r, ProcessReport(r) PROVE UNCHANGED <<params, saved>>
  BY <1>5 DEF ProcessReport, Mute, QuarantineOne, QuarantineShared, SelfHeal, Lockdown, Arbitrate, tuning
<1>6. CASE \/ RevertBlocked \/ Tick \/ CooldownEnds \/ RetryHealing
           \/ (\E p \in Posture : OverridePosture(p)) \/ (\E s \in Scope : ReleaseScope(s))
  BY <1>3, <1>6 DEF RevertBlocked, Tick, CooldownEnds, RetryHealing, OverridePosture, ReleaseScope, tuning
<1>7. CASE UNCHANGED vars
  BY <1>3, <1>7 DEF vars
<1>8. ASSUME NEW eroded \in BOOLEAN, Revert(eroded) PROVE OrderInv'
  <2>1. Ordered(params)' /\ Ordered(saved)'
    BY <1>2, <1>8 DEF Ordered
  <2> QED
    BY <1>1, <2>1 DEF OrderInv
<1>9. ASSUME NEW r \in Report, ProcessReport(r) PROVE OrderInv'
  BY <1>3, <1>5, <1>9
<1>10. ASSUME NEW s \in Scope, NEW n \in {0, 1}, ConnectorDown(s, n) PROVE OrderInv'
  BY <1>3, <1>5, <1>10 DEF ConnectorDown
<1> QED
  BY <1>4, <1>6, <1>7, <1>8, <1>9, <1>10 DEF Next

(* However often the thresholds were tuned, CAUTION comes before DEGRADED. *)
THEOREM ThresholdsStayOrdered == Spec => []ThresholdsOrdered
<1>1. Init => OrderInv
  BY ParamsStart, FreshState, OrderAssumption DEF OrderInv, Init, Ordered
<1>2. OrderInv /\ [Next]_vars => OrderInv'
  BY OrderStep
<1>3. OrderInv => ThresholdsOrdered
  BY DEF OrderInv, Ordered, ThresholdsOrdered
<1> QED
  BY <1>1, <1>2, <1>3, PTL DEF Spec
=============================================================================
