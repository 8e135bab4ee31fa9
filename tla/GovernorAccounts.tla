-------------------------- MODULE GovernorAccounts --------------------------
(***************************************************************************)
(* The accounts the governor keeps, compared with the interventions on     *)
(* record, for every value of its constants: the burden of a workload, the *)
(* budget and the cooldown.  All rest on what a step does to the           *)
(* interventions (InterventionHistory) and to the three accounts           *)
(* (AccountsChange).                                                       *)
(***************************************************************************)
EXTENDS GovernorSafety, FiniteSetTheorems

-----------------------------------------------------------------------------
(* What a step does to the accounts. *)

\* The record an authorization appends, and what it was allowed by.
Appended(cls, target) ==
    /\ \E k \in DOMAIN conflicts :
          interventions' = Append(interventions,
                                  NewIntervention(k, cls, target))
    /\ Len(interventions') = Len(interventions) + 1
    /\ \A i \in DOMAIN interventions : interventions'[i] = interventions[i]
    /\ interventions'[Len(interventions) + 1].cls = cls
    /\ interventions'[Len(interventions) + 1].target = target
    /\ interventions'[Len(interventions) + 1].authorizedAt = now
    /\ ~BudgetExhausted(policy.budget, cls)
    /\ CooledDown(target, cls)
    /\ policy' = [policy EXCEPT !.budget = ConsumeBudget(@, cls, now)]
    /\ fairness' = [fairness EXCEPT ![target] = Burdened(@)]
    /\ now' = now

LEMMA AppendedOne ==
    ASSUME TypeOK, NEW k \in DOMAIN conflicts, NEW req \in Requests,
           Authorize(k, req)
    PROVE  \E cls \in InterventionClass, target \in Workloads :
              Appended(cls, target)
<1>1. PICK cls \in InterventionClass, target \in Workloads :
         /\ ~BudgetExhausted(policy.budget, cls)
         /\ CooledDown(target, cls)
         /\ interventions' = Append(interventions,
                                    NewIntervention(k, cls, target))
         /\ policy' = [policy EXCEPT !.budget =
                         ConsumeBudget(policy.budget, cls, now)]
         /\ fairness' = [fairness EXCEPT
                           ![target] = Burdened(fairness[target])]
  BY AuthorizeStep
<1>. DEFINE iv == NewIntervention(k, cls, target)
<1>2. iv.cls = cls /\ iv.target = target /\ iv.authorizedAt = now
  BY DEF NewIntervention
<1>3. iv \in InterventionRecord
  BY NewInterventionType
<1>4. now' = now
  BY DEF Authorize
<1>. HIDE DEF iv
<1>5. /\ interventions \in Seq(InterventionRecord)
      /\ DOMAIN interventions = 1..Len(interventions)
  BY DEF TypeOK
<1>6. /\ Len(interventions') = Len(interventions) + 1
      /\ \A i \in DOMAIN interventions : interventions'[i] = interventions[i]
      /\ interventions'[Len(interventions) + 1] = iv
  BY <1>1, <1>3, <1>5, AppendProperties DEF iv
<1>. QED
  BY <1>1, <1>2, <1>4, <1>6 DEF Appended

\* Apart from an authorization, a step ends runs of consecutive interventions,
\* installs a policy or lets time pass.
AccountsStep ==
    \/ \E cls \in InterventionClass, target \in Workloads :
          Appended(cls, target)
    \/ /\ Len(interventions') = Len(interventions)
       /\ \A i \in DOMAIN interventions : SameIntervention(i)
       /\ \A w \in Workloads :
             fairness'[w] \in {fairness[w], ForgivenBurden(fairness[w])}
       /\ policy' \in {policy} \cup Policies
       /\ \/ now' = now
          \/ now' \in Nat /\ now <= now' /\ now' <= MaxTime

\* So does every step of the governor.
LEMMA AccountsChange ==
    ASSUME TypeOK, [Next]_vars PROVE AccountsStep
<1>1. CASE \E k \in DOMAIN conflicts, req \in Requests : Authorize(k, req)
  BY <1>1, AppendedOne DEF AccountsStep
<1>2. CASE ~\E k \in DOMAIN conflicts, req \in Requests : Authorize(k, req)
  <2>1. /\ Len(interventions') = Len(interventions)
        /\ \A i \in DOMAIN interventions : SameIntervention(i)
    BY <1>2, InterventionHistory
  <2>2. ASSUME NEW w \in Workloads
        PROVE  fairness'[w] \in {fairness[w], ForgivenBurden(fairness[w])}
    <3>1. fairness \in [Workloads -> FairnessRecord]
      BY DEF TypeOK
    <3>2. ASSUME NEW r \in Report, Verify(r)
          PROVE  fairness'[w] \in {fairness[w], ForgivenBurden(fairness[w])}
      <4>1. PICK i \in DOMAIN interventions :
               fairness' \in {fairness,
                  [fairness EXCEPT ![interventions[i].target] =
                      ForgivenBurden(fairness[interventions[i].target])]}
        BY <3>2, VerifyStep
      <4>. QED
        BY <3>1, <4>1
    <3>3. AdvanceEpoch => fairness'[w] = ForgivenBurden(fairness[w])
      BY DEF AdvanceEpoch
    <3>4. \/ \E r \in Report : Verify(r)
          \/ AdvanceEpoch
          \/ UNCHANGED fairness
      BY <1>2, InputsAssumption
         DEF Next, vars, SetPolicy, SetAuthority, RecordWorkerBoot,
             RecordWorkloadGeneration, Tick, IngestNew, IngestKnown,
             DispatchBegin, DispatchRefused, DispatchEnd, OnAcknowledge,
             OnActionFailed, ObserveOnly, ObserveUnmatched
    <3>. QED
      BY <3>2, <3>3, <3>4
  <2>3. policy' \in {policy} \cup Policies
    BY <1>2
       DEF Next, vars, SetPolicy, SetAuthority, RecordWorkerBoot,
           RecordWorkloadGeneration, AdvanceEpoch, Tick, IngestNew,
           IngestKnown, DispatchBegin, DispatchRefused, DispatchEnd,
           OnAcknowledge, OnActionFailed, Verify, ObserveOnly,
           ObserveUnmatched
  <2>4. (\E delta \in Advances : Tick(delta)) \/ now' = now
    BY <1>2
       DEF Next, vars, SetPolicy, SetAuthority, RecordWorkerBoot,
           RecordWorkloadGeneration, AdvanceEpoch, IngestNew,
           IngestKnown, DispatchBegin, DispatchRefused, DispatchEnd,
           OnAcknowledge, OnActionFailed, Verify, ObserveOnly,
           ObserveUnmatched
  <2>5. ASSUME NEW delta \in Advances, Tick(delta)
        PROVE  now' \in Nat /\ now <= now' /\ now' <= MaxTime
    BY <2>5, InputsAssumption DEF Tick, TypeOK
  <2>. QED
    BY <2>1, <2>2, <2>3, <2>4, <2>5 DEF AccountsStep
<1>. QED
  BY <1>1, <1>2

-----------------------------------------------------------------------------
(* The burden. *)

\* How many of the records 1..n have the property that P marks.
LEMMA OneMore ==
    ASSUME NEW n \in Nat, NEW P \in SUBSET (1..n)
    PROVE  /\ Cardinality(P) \in Nat
           /\ Cardinality(P \cup {n + 1}) = Cardinality(P) + 1
<1>1. IsFiniteSet(1..n)
  BY FS_Interval
<1>2. IsFiniteSet(P)
  BY <1>1, FS_Subset
<1>3. n + 1 \notin P
  OBVIOUS
<1>. QED
  BY <1>2, <1>3, FS_AddElement, FS_CardinalityType

\* A workload's burden is the number of actions on record against it, through
\* any order of authorizations, verifications and restarts.
THEOREM BurdenAlwaysExact == Spec => []BurdenExact
<1>. DEFINE On(w) == { i \in DOMAIN interventions :
                          interventions[i].target = w }
<1>1. Init => BurdenExact
  <2>. SUFFICES ASSUME Init, NEW w \in Workloads
                PROVE  fairness[w].interventionCount = Cardinality(On(w))
    BY DEF BurdenExact
  <2>1. On(w) = {}
    BY DEF Init
  <2>. QED
    BY <2>1, FS_EmptySet DEF Init
<1>2. TypeOK /\ BurdenExact /\ [Next]_vars => BurdenExact'
  <2>. SUFFICES ASSUME TypeOK, BurdenExact, [Next]_vars, NEW w \in Workloads
                PROVE  fairness'[w].interventionCount = Cardinality(On(w)')
    BY DEF BurdenExact
  <2>1. /\ Len(interventions) \in Nat
        /\ DOMAIN interventions = 1..Len(interventions)
        /\ fairness \in [Workloads -> FairnessRecord]
        /\ fairness[w].interventionCount = Cardinality(On(w))
        /\ fairness[w].interventionCount \in Nat
    BY DEF TypeOK, BurdenExact, FairnessRecord
  <2>2. DOMAIN interventions' = 1..Len(interventions')
    <3>1. TypeOK'
      BY NextType
    <3>. QED
      BY <3>1 DEF TypeOK
  <2>3. ASSUME NEW cls \in InterventionClass, NEW target \in Workloads,
               Appended(cls, target)
        PROVE  fairness'[w].interventionCount = Cardinality(On(w)')
    <3>1. /\ DOMAIN interventions' = 1..(Len(interventions) + 1)
          /\ \A i \in 1..Len(interventions) :
                interventions'[i] = interventions[i]
          /\ interventions'[Len(interventions) + 1].target = target
          /\ fairness' = [fairness EXCEPT
                            ![target] = Burdened(fairness[target])]
      BY <2>1, <2>2, <2>3 DEF Appended
    <3>2. CASE w = target
      <4>1. On(w)' = On(w) \cup {Len(interventions) + 1}
        BY <2>1, <3>1, <3>2
      <4>2. Cardinality(On(w)') = Cardinality(On(w)) + 1
        BY <2>1, <4>1, OneMore
      <4>3. fairness'[w].interventionCount = fairness[w].interventionCount + 1
        BY <2>1, <3>1, <3>2 DEF Burdened, FairnessRecord
      <4>. QED
        BY <2>1, <4>2, <4>3
    <3>3. CASE w # target
      <4>1. On(w)' = On(w)
        BY <2>1, <3>1, <3>3
      <4>. QED
        BY <2>1, <3>1, <3>3, <4>1
    <3>. QED
      BY <3>2, <3>3
  <2>4. ASSUME Len(interventions') = Len(interventions),
               \A i \in DOMAIN interventions : SameIntervention(i),
               fairness'[w] \in {fairness[w], ForgivenBurden(fairness[w])}
        PROVE  fairness'[w].interventionCount = Cardinality(On(w)')
    <3>1. On(w)' = On(w)
      BY <2>1, <2>2, <2>4 DEF SameIntervention
    <3>2. fairness'[w].interventionCount = fairness[w].interventionCount
      BY <2>1, <2>4 DEF ForgivenBurden, FairnessRecord
    <3>. QED
      BY <2>1, <3>1, <3>2
  <2>. QED
    BY <2>3, <2>4, AccountsChange DEF AccountsStep
<1>. QED
  BY <1>1, <1>2, TypeCorrect, PTL DEF Spec

-----------------------------------------------------------------------------
(* Time. *)

\* Unsigned differences are differences as long as the clock does not wrap.
ClockAssumption ==
    /\ MaxTime \in Nat
    /\ MaxTime < TimeModulus
    /\ StartTime < TimeModulus

LEMMA ElapsedIsDifference ==
    ASSUME NEW s \in Nat, NEW t \in Nat, s <= t, t < TimeModulus
    PROVE  Elapsed(s, t) = t - s
<1>1. TimeModulus \in Nat \ {0} /\ t - s \in 0..(TimeModulus - 1)
  BY InputsAssumption
<1>2. \A m \in Nat \ {0} : \A x \in 0..(m - 1) : x % m = x
  OBVIOUS
<1>. QED
  BY <1>1, <1>2 DEF Elapsed

-----------------------------------------------------------------------------
(* The cooldown. *)

\* No action on record is younger than the last one its target remembers, and
\* that one is not of the future.
LastRemembered ==
    /\ now < TimeModulus
    /\ \A i \in DOMAIN interventions :
          interventions[i].authorizedAt
             <= fairness[interventions[i].target].lastInterventionAt
    /\ \A w \in Workloads : fairness[w].lastInterventionAt <= now

LEMMA RecordTypes ==
    ASSUME TypeOK
    PROVE  /\ interventions \in Seq(InterventionRecord)
           /\ DOMAIN interventions = 1..Len(interventions)
           /\ Len(interventions) \in Nat
           /\ now \in Nat
           /\ fairness \in [Workloads -> FairnessRecord]
           /\ policy \in ContentionPolicy
           /\ policy.cooldownMs \in Nat
           /\ \A i \in DOMAIN interventions :
                 /\ interventions[i] \in InterventionRecord
                 /\ interventions[i].target \in Workloads
                 /\ interventions[i].authorizedAt \in Nat
           /\ \A w \in Workloads :
                 /\ fairness[w] \in FairnessRecord
                 /\ fairness[w].lastInterventionAt \in Nat
<1>1. /\ interventions \in Seq(InterventionRecord)
      /\ now \in Nat
      /\ fairness \in [Workloads -> FairnessRecord]
      /\ policy \in ContentionPolicy
  BY DEF TypeOK
<1>2. /\ DOMAIN interventions = 1..Len(interventions)
      /\ Len(interventions) \in Nat
      /\ \A i \in DOMAIN interventions :
            interventions[i] \in InterventionRecord
  BY <1>1
<1>3. \A w \in Workloads : fairness[w] \in FairnessRecord
  BY <1>1
<1>4. \A r \in InterventionRecord :
         r.target \in Workloads /\ r.authorizedAt \in Nat
  BY DEF InterventionRecord
<1>5. \A f \in FairnessRecord : f.lastInterventionAt \in Nat
  BY DEF FairnessRecord
<1>6. policy.cooldownMs \in Nat
  BY <1>1 DEF ContentionPolicy
<1>. QED
  BY <1>1, <1>2, <1>3, <1>4, <1>5, <1>6

LEMMA LastRememberedStep ==
    ASSUME TypeOK, TypeOK', LastRemembered, AccountsStep, ClockAssumption
    PROVE  LastRemembered'
<1>1. /\ DOMAIN interventions = 1..Len(interventions)
      /\ DOMAIN interventions' = 1..Len(interventions')
      /\ Len(interventions) \in Nat
      /\ now \in Nat /\ TimeModulus \in Nat /\ MaxTime \in Nat
      /\ fairness \in [Workloads -> FairnessRecord]
      /\ \A i \in DOMAIN interventions :
            interventions[i].target \in Workloads
            /\ interventions[i].authorizedAt \in Nat
      /\ \A w \in Workloads : fairness[w].lastInterventionAt \in Nat
  <2>1. interventions' \in Seq(InterventionRecord)
    BY DEF TypeOK
  <2>2. DOMAIN interventions' = 1..Len(interventions')
    BY <2>1
  <2>. QED
    BY <2>2, RecordTypes, InputsAssumption DEF ClockAssumption
<1>2. ASSUME NEW cls \in InterventionClass, NEW target \in Workloads,
             Appended(cls, target)
      PROVE  LastRemembered'
  <2>1. \A w \in Workloads :
           fairness'[w].lastInterventionAt =
              IF w = target THEN now ELSE fairness[w].lastInterventionAt
    BY <1>1, <1>2 DEF Appended, Burdened, FairnessRecord
  <2>2. ASSUME NEW i \in DOMAIN interventions'
        PROVE  interventions'[i].authorizedAt
                  <= fairness'[interventions'[i].target].lastInterventionAt
    <3>1. CASE i \in DOMAIN interventions
      <4>1. /\ interventions'[i] = interventions[i]
            /\ interventions[i].authorizedAt
                  <= fairness[interventions[i].target].lastInterventionAt
            /\ fairness[interventions[i].target].lastInterventionAt <= now
        BY <1>1, <1>2, <3>1 DEF Appended, LastRemembered
      <4>. QED
        BY <1>1, <2>1, <3>1, <4>1
    <3>2. CASE i = Len(interventions) + 1
      BY <1>1, <1>2, <2>1, <3>2 DEF Appended
    <3>3. i \in DOMAIN interventions \/ i = Len(interventions) + 1
      BY <1>1, <1>2 DEF Appended
    <3>. QED
      BY <3>1, <3>2, <3>3
  <2>. QED
    BY <1>1, <1>2, <2>1, <2>2 DEF Appended, LastRemembered
<1>3. ASSUME Len(interventions') = Len(interventions),
             \A i \in DOMAIN interventions : SameIntervention(i),
             \A w \in Workloads :
                fairness'[w] \in {fairness[w], ForgivenBurden(fairness[w])},
             now' = now \/ (now' \in Nat /\ now <= now' /\ now' <= MaxTime)
      PROVE  LastRemembered'
  <2>1. \A w \in Workloads :
           fairness'[w].lastInterventionAt = fairness[w].lastInterventionAt
    BY <1>1, <1>3 DEF ForgivenBurden, FairnessRecord
  <2>2. now' \in Nat /\ now <= now' /\ now' < TimeModulus
    BY <1>1, <1>3 DEF ClockAssumption, LastRemembered
  <2>. QED
    BY <1>1, <1>3, <2>1, <2>2 DEF SameIntervention, LastRemembered
<1>. QED
  BY <1>2, <1>3 DEF AccountsStep

LEMMA SpacingStep ==
    ASSUME TypeOK, TypeOK', LastRemembered, CooldownSpacing, AccountsStep,
           policy'.cooldownMs = policy.cooldownMs
    PROVE  CooldownSpacing'
<1>1. /\ DOMAIN interventions = 1..Len(interventions)
      /\ DOMAIN interventions' = 1..Len(interventions')
      /\ Len(interventions) \in Nat
      /\ now \in Nat /\ now < TimeModulus
      /\ policy.cooldownMs \in Nat
      /\ policy \in ContentionPolicy
      /\ \A i \in DOMAIN interventions :
            interventions[i].authorizedAt \in Nat
      /\ \A w \in Workloads :
            /\ fairness[w].lastInterventionAt \in Nat
            /\ fairness[w].lastInterventionAt <= now
  <2>1. interventions' \in Seq(InterventionRecord)
    BY DEF TypeOK
  <2>2. DOMAIN interventions' = 1..Len(interventions')
    BY <2>1
  <2>. QED
    BY <2>2, RecordTypes DEF LastRemembered
<1>2. ASSUME NEW cls \in InterventionClass, NEW target \in Workloads,
             Appended(cls, target)
      PROVE  CooldownSpacing'
  <2>. SUFFICES ASSUME NEW i \in DOMAIN interventions',
                       NEW j \in DOMAIN interventions', i < j,
                       interventions'[i].target = interventions'[j].target,
                       interventions'[j].cls \in Disruptive,
                       interventions'[i].authorizedAt # 0
                PROVE  interventions'[j].authorizedAt
                          - interventions'[i].authorizedAt
                          >= policy'.cooldownMs
    BY DEF CooldownSpacing
  <2>2. /\ i \in DOMAIN interventions
        /\ j \in DOMAIN interventions \/ j = Len(interventions) + 1
    BY <1>1, <1>2 DEF Appended
  <2>3. CASE j \in DOMAIN interventions
    BY <1>2, <2>2, <2>3 DEF Appended, CooldownSpacing
  <2>4. CASE j = Len(interventions) + 1
    <3>. DEFINE last == fairness[target].lastInterventionAt
    <3>1. /\ interventions'[i] = interventions[i]
          /\ interventions[i].target = target
          /\ interventions'[j].authorizedAt = now
          /\ cls \in Disruptive
          /\ CooledDown(target, cls)
      BY <1>2, <2>2, <2>4 DEF Appended
    <3>2. interventions[i].authorizedAt <= last
      BY <2>2, <3>1 DEF LastRemembered
    <3>3. last \in Nat /\ last <= now
      BY <1>1
    <3>4. last # 0
      BY <1>1, <2>2, <3>1, <3>2, <3>3
    <3>5. now - last >= policy.cooldownMs
      BY <1>1, <3>1, <3>3, <3>4, ElapsedIsDifference DEF CooledDown
    <3>. QED
      BY <1>1, <2>2, <3>1, <3>2, <3>3, <3>5
  <2>. QED
    BY <2>2, <2>3, <2>4
<1>3. ASSUME Len(interventions') = Len(interventions),
             \A i \in DOMAIN interventions : SameIntervention(i)
      PROVE  CooldownSpacing'
  BY <1>1, <1>3 DEF SameIntervention, CooldownSpacing
<1>. QED
  BY <1>2, <1>3 DEF AccountsStep

\* Under one policy, and as long as the clock does not wrap, a disruptive action
\* keeps the cooldown from every earlier action on its target, whichever classes
\* those were of and whatever verifications and restarts came in between.
THEOREM CooldownAlwaysKept ==
    ASSUME ClockAssumption, Policies = {}
    PROVE  Spec => []CooldownSpacing
<1>1. Init => LastRemembered /\ CooldownSpacing
  BY InputsAssumption
     DEF Init, LastRemembered, CooldownSpacing, ClockAssumption
<1>2. /\ TypeOK /\ TypeOK' /\ LastRemembered /\ CooldownSpacing
      /\ [Next]_vars
      => LastRemembered' /\ CooldownSpacing'
  <2>1. TypeOK /\ AccountsStep => policy'.cooldownMs = policy.cooldownMs
    <3>1. TypeOK => policy \in ContentionPolicy
      BY DEF TypeOK
    <3>. QED
      BY <3>1 DEF AccountsStep, Appended, ContentionPolicy
  <2>. QED
    BY <2>1, AccountsChange, LastRememberedStep, SpacingStep
<1>. QED
  BY <1>1, <1>2, TypeCorrect, PTL DEF Spec
-----------------------------------------------------------------------------
(* The budget. *)

\* The window opened before now, and no action on record came after its end:
\* the authorization that finds it passed opens another one.
WindowKept ==
    /\ policy.budget.windowStart <= now
    /\ \A i \in DOMAIN interventions :
          interventions[i].authorizedAt
             <= policy.budget.windowStart + policy.budget.windowMs

BudgetAssumption ==
    \A p \in InitialPolicies :
        p.budget.used = NoneUsed /\ p.budget.windowStart <= StartTime

\* What an action is charged to.
ChargedTo(cls) == {BudgetCounter(cls), "all"}

LEMMA Consumed ==
    ASSUME NEW b \in ActionBudget, NEW cls \in InterventionClass,
           NEW t \in Nat, b.windowStart <= t, t < TimeModulus
    PROVE  LET c == ConsumeBudget(b, cls, t)
               passed == t - b.windowStart > b.windowMs
           IN  /\ c.windowMs = b.windowMs
               /\ c.windowStart = IF passed THEN t ELSE b.windowStart
               /\ \A k \in Counter :
                     c.used[k] = (IF passed THEN 0 ELSE b.used[k])
                               + (IF k \in ChargedTo(cls) THEN 1 ELSE 0)
<1>. DEFINE r == RolledWindow(b, t)
            passed == t - b.windowStart > b.windowMs
<1>1. /\ b.windowStart \in Nat /\ b.windowMs \in Nat
      /\ b.used \in [Counter -> Nat]
  BY DEF ActionBudget
<1>2. Elapsed(b.windowStart, t) = t - b.windowStart
  BY <1>1, ElapsedIsDifference
<1>3. /\ r.windowMs = b.windowMs
      /\ r.windowStart = IF passed THEN t ELSE b.windowStart
      /\ r.used = IF passed THEN NoneUsed ELSE b.used
      /\ r \in ActionBudget
  BY <1>1, <1>2 DEF RolledWindow, ActionBudget, NoneUsed
<1>4. \A k \in Counter : r.used[k] = IF passed THEN 0 ELSE b.used[k]
  BY <1>3 DEF NoneUsed
<1>. HIDE DEF r
<1>5. ConsumeBudget(b, cls, t) =
         [r EXCEPT !.used = [k \in Counter |->
             IF k \in ChargedTo(cls) THEN r.used[k] + 1 ELSE r.used[k]]]
  BY DEF ConsumeBudget, ChargedTo, r
<1>6. /\ ConsumeBudget(b, cls, t).windowMs = r.windowMs
      /\ ConsumeBudget(b, cls, t).windowStart = r.windowStart
      /\ \A k \in Counter : ConsumeBudget(b, cls, t).used[k] =
            IF k \in ChargedTo(cls) THEN r.used[k] + 1 ELSE r.used[k]
  BY <1>3, <1>5 DEF ActionBudget
<1>7. \A k \in Counter : r.used[k] \in Nat
  BY <1>1, <1>4
<1>. QED
  BY <1>3, <1>4, <1>6, <1>7

\* The actions counter k has to account for.
Charged(k) ==
    { i \in DOMAIN interventions :
        /\ k \in ChargedTo(interventions[i].cls)
        /\ interventions[i].authorizedAt >= policy.budget.windowStart }

LEMMA BudgetTypes ==
    ASSUME TypeOK
    PROVE  /\ policy.budget \in ActionBudget
           /\ policy.budget.windowStart \in Nat
           /\ policy.budget.windowMs \in Nat
           /\ \A k \in Counter : policy.budget.used[k] \in Nat
<1>1. policy.budget \in ActionBudget
  BY RecordTypes DEF ContentionPolicy
<1>. QED
  BY <1>1 DEF ActionBudget

LEMMA ChargeStep ==
    ASSUME TypeOK, TypeOK', LastRemembered, WindowKept, BudgetExact,
           NEW cls \in InterventionClass, NEW target \in Workloads,
           Appended(cls, target)
    PROVE  WindowKept' /\ BudgetExact'
<1>. DEFINE b == policy.budget
            n == Len(interventions)
            passed == now - b.windowStart > b.windowMs
<1>1. /\ DOMAIN interventions = 1..n
      /\ n \in Nat /\ now \in Nat /\ now < TimeModulus
      /\ \A i \in 1..n : interventions[i].authorizedAt \in Nat
      /\ \A i \in 1..n : interventions[i].authorizedAt <= now
  <2>1. \A i \in DOMAIN interventions : interventions[i].authorizedAt <= now
    BY RecordTypes DEF LastRemembered
  <2>. QED
    BY <2>1, RecordTypes DEF LastRemembered
<1>2. /\ DOMAIN interventions' = 1..(n + 1)
      /\ \A i \in 1..n : interventions'[i] = interventions[i]
      /\ interventions'[n + 1].cls = cls
      /\ interventions'[n + 1].authorizedAt = now
      /\ now' = now
  <2>1. interventions' \in Seq(InterventionRecord)
    BY DEF TypeOK
  <2>. QED
    BY <1>1, <2>1 DEF Appended
<1>3. /\ b \in ActionBudget
      /\ b.windowStart \in Nat /\ b.windowMs \in Nat
      /\ \A k \in Counter : b.used[k] \in Nat
      /\ b.windowStart <= now
  BY BudgetTypes DEF WindowKept
<1>4. policy'.budget = ConsumeBudget(b, cls, now)
  <2>1. policy \in ContentionPolicy
    BY DEF TypeOK
  <2>. QED
    BY <2>1 DEF Appended, ContentionPolicy
<1>5. /\ policy'.budget.windowMs = b.windowMs
      /\ policy'.budget.windowStart = IF passed THEN now ELSE b.windowStart
      /\ \A k \in Counter :
            policy'.budget.used[k] = (IF passed THEN 0 ELSE b.used[k])
                                   + (IF k \in ChargedTo(cls) THEN 1 ELSE 0)
  BY <1>1, <1>3, <1>4, Consumed
<1>6. \A i \in 1..n :
         interventions[i].authorizedAt <= b.windowStart + b.windowMs
  BY <1>1 DEF WindowKept
<1>7. WindowKept'
  <2>1. policy'.budget.windowStart <= now
    BY <1>1, <1>3, <1>5
  <2>2. \A i \in 1..(n + 1) :
           interventions'[i].authorizedAt
              <= policy'.budget.windowStart + policy'.budget.windowMs
    <3>1. ASSUME NEW i \in 1..n
          PROVE  /\ interventions'[i].authorizedAt <= b.windowStart + b.windowMs
                 /\ interventions'[i].authorizedAt <= now
                 /\ interventions'[i].authorizedAt \in Nat
      BY <1>1, <1>2, <1>6
    <3>2. \A i \in 1..(n + 1) : i \in 1..n \/ i = n + 1
      BY <1>1
    <3>3. CASE passed
      <4>1. /\ policy'.budget.windowMs = b.windowMs
            /\ policy'.budget.windowStart = now
        BY <1>5, <3>3
      <4>2. /\ \A i \in 1..n : interventions'[i].authorizedAt <= now + b.windowMs
            /\ interventions'[n + 1].authorizedAt <= now + b.windowMs
        BY <1>1, <1>2, <1>3, <3>1
      <4>. QED
        BY <3>2, <4>1, <4>2
    <3>4. CASE ~passed
      <4>1. /\ policy'.budget.windowMs = b.windowMs
            /\ policy'.budget.windowStart = b.windowStart
        BY <1>5, <3>4
      <4>2. interventions'[n + 1].authorizedAt <= b.windowStart + b.windowMs
        BY <1>1, <1>2, <1>3, <3>4
      <4>. QED
        BY <3>1, <3>2, <4>1, <4>2
    <3>. QED
      BY <3>3, <3>4
  <2>. QED
    BY <1>2, <2>1, <2>2 DEF WindowKept
<1>8. ASSUME NEW k \in Counter
      PROVE  policy'.budget.used[k] = Cardinality(Charged(k)')
  <2>. DEFINE old == IF passed THEN {} ELSE Charged(k)
  <2>1. b.used[k] = Cardinality(Charged(k))
    BY DEF BudgetExact, Charged, ChargedTo
  <2>2. old \in SUBSET (1..n)
    BY <1>1 DEF Charged
  <2>3. Cardinality(old) = IF passed THEN 0 ELSE b.used[k]
    BY <2>1, FS_EmptySet
  <2>4. Charged(k)' = IF k \in ChargedTo(cls) THEN old \cup {n + 1} ELSE old
    <3>1. \A i \in 1..n :
             i \in Charged(k)' <=> i \in old
      BY <1>1, <1>2, <1>3, <1>5, <1>6 DEF Charged
    <3>2. n + 1 \in Charged(k)' <=> k \in ChargedTo(cls)
      BY <1>1, <1>2, <1>3, <1>5 DEF Charged
    <3>3. Charged(k)' \subseteq 1..(n + 1)
      BY <1>2 DEF Charged
    <3>. HIDE DEF old
    <3>4. \A i : i \in Charged(k)' => i \in 1..n \/ i = n + 1
      BY <1>1, <3>3
    <3>5. \A i : i \in old => i \in 1..n
      BY <2>2
    <3>6. CASE k \in ChargedTo(cls)
      <4>1. \A i : i \in Charged(k)' <=> i \in old \/ i = n + 1
        BY <3>1, <3>2, <3>4, <3>5, <3>6
      <4>2. Charged(k)' = old \cup {n + 1}
        BY <4>1
      <4>. QED
        BY <3>6, <4>2
    <3>7. CASE k \notin ChargedTo(cls)
      <4>1. \A i : i \in Charged(k)' <=> i \in old
        BY <3>1, <3>2, <3>4, <3>5, <3>7
      <4>2. Charged(k)' = old
        BY <4>1
      <4>. QED
        BY <3>7, <4>2
    <3>. QED
      BY <3>6, <3>7
  <2>. HIDE DEF old
  <2>5. Cardinality(old \cup {n + 1}) = Cardinality(old) + 1
    BY <1>1, <2>2, OneMore
  <2>. QED
    BY <1>3, <1>5, <2>3, <2>4, <2>5
<1>9. BudgetExact'
  BY <1>8 DEF BudgetExact, Charged, ChargedTo
<1>. QED
  BY <1>7, <1>9

LEMMA BudgetStep ==
    ASSUME TypeOK, TypeOK', LastRemembered, WindowKept, BudgetExact,
           [Next]_vars, Policies = {}
    PROVE  WindowKept' /\ BudgetExact'
<1>1. ASSUME Len(interventions') = Len(interventions),
             \A i \in DOMAIN interventions : SameIntervention(i),
             policy' \in {policy} \cup Policies,
             now' = now \/ (now' \in Nat /\ now <= now' /\ now' <= MaxTime)
      PROVE  WindowKept' /\ BudgetExact'
  <2>1. DOMAIN interventions' = DOMAIN interventions
    <3>1. interventions' \in Seq(InterventionRecord)
      BY DEF TypeOK
    <3>. QED
      BY <1>1, <3>1, RecordTypes
  <2>2. policy' = policy
    BY <1>1
  <2>3. \A i \in DOMAIN interventions :
           /\ interventions'[i].cls = interventions[i].cls
           /\ interventions'[i].authorizedAt = interventions[i].authorizedAt
    BY <1>1 DEF SameIntervention
  <2>4. WindowKept'
    BY <1>1, <2>1, <2>2, <2>3, RecordTypes, BudgetTypes DEF WindowKept
  <2>5. \A k \in Counter : Charged(k)' = Charged(k)
    BY <2>1, <2>2, <2>3 DEF Charged
  <2>6. BudgetExact'
    BY <2>2, <2>5 DEF BudgetExact, Charged, ChargedTo
  <2>. QED
    BY <2>4, <2>6
<1>. QED
  BY <1>1, ChargeStep, AccountsChange DEF AccountsStep

\* Under one policy, and as long as the clock does not wrap, every counter of
\* the budget is the number of actions charged to it since the window opened:
\* no order of authorizations and roll-overs loses or repeats one.
THEOREM BudgetAlwaysExact ==
    ASSUME ClockAssumption, BudgetAssumption, Policies = {}
    PROVE  Spec => []BudgetExact
<1>1. Init => LastRemembered /\ WindowKept /\ BudgetExact
  <2>. SUFFICES ASSUME Init
                PROVE  LastRemembered /\ WindowKept /\ BudgetExact
    OBVIOUS
  <2>1. LastRemembered
    BY InputsAssumption DEF Init, LastRemembered, ClockAssumption
  <2>2. WindowKept
    BY DEF Init, WindowKept, BudgetAssumption
  <2>3. \A k \in Counter : Charged(k) = {} /\ policy.budget.used[k] = 0
    BY DEF Init, Charged, BudgetAssumption, NoneUsed
  <2>4. BudgetExact
    BY <2>3, FS_EmptySet DEF BudgetExact, Charged, ChargedTo
  <2>. QED
    BY <2>1, <2>2, <2>4
<1>2. /\ TypeOK /\ TypeOK' /\ LastRemembered /\ WindowKept /\ BudgetExact
      /\ [Next]_vars
      => LastRemembered' /\ WindowKept' /\ BudgetExact'
  BY AccountsChange, LastRememberedStep, BudgetStep
<1>. QED
  BY <1>1, <1>2, TypeCorrect, PTL DEF Spec
=============================================================================
