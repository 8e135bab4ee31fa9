--------------------------- MODULE GovernorSafety ---------------------------
(***************************************************************************)
(* The safety properties of Governor, for every value of its constants.    *)
(* Each one is inductive relative to TypeOK; what a step does to the       *)
(* conflicts and to the interventions on record is stated once, in         *)
(* ConflictHistory and InterventionHistory.                                *)
(***************************************************************************)
EXTENDS GovernorProofs

-----------------------------------------------------------------------------
(* The action budget. *)

\* consume_budget, where budget_exhausted did not object, keeps every counter
\* within its limit: a window that rolls over first makes room for one.
LEMMA ConsumeCapped ==
    ASSUME NEW b \in ActionBudget, NEW cls, NEW t \in Nat,
           \A k \in Capped : b.used[k] <= b.max[k],
           ~BudgetExhausted(b, cls)
    PROVE  \A k \in Capped : ConsumeBudget(b, cls, t).used[k]
                                <= ConsumeBudget(b, cls, t).max[k]
<1>. DEFINE rolled == RolledWindow(b, t)
<1>1. /\ ConsumeBudget(b, cls, t).max = b.max
      /\ rolled \in ActionBudget
  BY ConsumeType DEF RolledWindow, ActionBudget, NoneUsed
<1>2. ASSUME NEW k \in Capped
      PROVE  ConsumeBudget(b, cls, t).used[k] <= b.max[k]
  <2>1. k \in Counter /\ k # "all"
    BY DEF Capped, Counter
  <2>2. /\ b.used[k] \in Nat /\ b.max[k] \in Nat
        /\ b.used[k] <= b.max[k]
    BY <2>1 DEF ActionBudget
  <2>3. rolled.used[k] \in {b.used[k], 0}
    BY <2>1 DEF RolledWindow, NoneUsed, ActionBudget
  <2>4. ConsumeBudget(b, cls, t).used[k] =
           IF k = BudgetCounter(cls) THEN rolled.used[k] + 1
                                     ELSE rolled.used[k]
    BY <1>1, <2>1 DEF ConsumeBudget, ActionBudget
  <2>5. k = BudgetCounter(cls) => b.used[k] < b.max[k]
    BY <2>2 DEF BudgetExhausted
  <2>. QED
    BY <2>2, <2>3, <2>4, <2>5
<1>. QED
  BY <1>1, <1>2

\* The counters stay within the limits that the same policy states, whatever
\* is authorized under it and however the window rolls.
THEOREM BudgetNeverExceeded == Spec => []BudgetCapped
<1>1. Init => BudgetCapped
  BY PoliciesAssumption DEF Init, BudgetCapped
<1>2. TypeOK /\ BudgetCapped /\ [Next]_vars => BudgetCapped'
  <2>. SUFFICES ASSUME TypeOK, BudgetCapped, [Next]_vars PROVE BudgetCapped'
    OBVIOUS
  <2>1. CASE \E p \in Policies : SetPolicy(p)
    BY <2>1, PoliciesAssumption DEF SetPolicy, BudgetCapped
  <2>2. CASE \E k \in DOMAIN conflicts, req \in Requests : Authorize(k, req)
    <3>1. PICK cls \in InterventionClass :
             /\ ~BudgetExhausted(policy.budget, cls)
             /\ policy' = [policy EXCEPT !.budget =
                             ConsumeBudget(policy.budget, cls, now)]
      BY <2>2, AuthorizeStep
    <3>2. policy \in ContentionPolicy /\ now \in Nat
      BY DEF TypeOK
    <3>3. policy.budget \in ActionBudget
      BY <3>2 DEF ContentionPolicy
    <3>4. policy'.budget = ConsumeBudget(policy.budget, cls, now)
      BY <3>1, <3>2 DEF ContentionPolicy
    <3>. QED
      BY <3>1, <3>2, <3>3, <3>4, ConsumeCapped DEF BudgetCapped
  <2>3. CASE UNCHANGED policy
    BY <2>3 DEF BudgetCapped
  <2>. QED
    BY <2>1, <2>2, <2>3
       DEF Next, vars, SetAuthority, RecordWorkerBoot,
           RecordWorkloadGeneration, AdvanceEpoch, Tick, IngestNew,
           IngestKnown, DispatchBegin, DispatchRefused, DispatchEnd,
           OnAcknowledge, OnActionFailed, Verify, ObserveOnly,
           ObserveUnmatched
<1>. QED
  BY <1>1, <1>2, TypeCorrect, PTL DEF Spec

-----------------------------------------------------------------------------
(* Conflicts and their evidence. *)

\* Conflict k after a step is still about the same victim and domain, and has
\* the evidence it had or one report more, which is stored.
SameConflict(k) ==
    /\ conflicts'[k].victim = conflicts[k].victim
    /\ conflicts'[k].domain = conflicts[k].domain
    /\ \/ conflicts'[k].evidenceIds = conflicts[k].evidenceIds
       \/ \E id \in DOMAIN evidence' :
             conflicts'[k].evidenceIds = Append(conflicts[k].evidenceIds, id)

\* A conflict at the end that lists the one stored report it was created for.
CreatedConflict ==
    \E e \in Report :
        LET c == Progressed(NewConflict(e), e)
        IN  /\ conflicts' = Append(conflicts, c)
            /\ c.evidenceIds = <<e.id>>
            /\ e.id \in DOMAIN evidence'
            /\ \A k \in DOMAIN conflicts :
                  ~(/\ conflicts[k].victim = c.victim
                    /\ conflicts[k].domain = c.domain)

\* A step updates one conflict and leaves the others alone.
LEMMA UpdatedConflict ==
    ASSUME TypeOK, NEW r \in Report, StoreEvidence(r),
           NEW k \in DOMAIN conflicts, NEW c \in ContentionConflict,
           conflicts' = [conflicts EXCEPT ![k] = c],
           c.victim = conflicts[k].victim, c.domain = conflicts[k].domain,
           c.evidenceIds = Append(conflicts[k].evidenceIds, Admitted(r).id)
    PROVE  /\ Len(conflicts') = Len(conflicts)
           /\ \A j \in DOMAIN conflicts : SameConflict(j)
<1>1. Admitted(r).id \in DOMAIN evidence'
  BY StoreType DEF TypeOK
<1>2. /\ k \in 1..Len(conflicts)
      /\ DOMAIN conflicts = 1..Len(conflicts)
  BY DEF TypeOK
<1>3. /\ Len(conflicts') = Len(conflicts)
      /\ \A j \in 1..Len(conflicts) :
            conflicts'[j] = IF j = k THEN c ELSE conflicts[j]
  BY <1>2, ExceptSeq DEF TypeOK
<1>. QED
  BY <1>1, <1>2, <1>3 DEF SameConflict

\* What a step does to the conflicts on record: one is created, or all of them
\* go on.
LEMMA ConflictHistory ==
    ASSUME TypeOK, [Next]_vars
    PROVE  /\ DOMAIN evidence \subseteq DOMAIN evidence'
           /\ \/ CreatedConflict
              \/ /\ Len(conflicts') = Len(conflicts)
                 /\ \A k \in DOMAIN conflicts : SameConflict(k)
<1>. DEFINE Goal == /\ DOMAIN evidence \subseteq DOMAIN evidence'
                    /\ \/ CreatedConflict
                       \/ /\ Len(conflicts') = Len(conflicts)
                          /\ \A k \in DOMAIN conflicts : SameConflict(k)
<1>1. ASSUME NEW r \in Report, StoreEvidence(r)
      PROVE  /\ DOMAIN evidence \subseteq DOMAIN evidence'
             /\ Admitted(r).id \in DOMAIN evidence'
             /\ Admitted(r) \in Report
  BY <1>1, StoreType, AdmittedType DEF TypeOK
<1>2. ASSUME NEW r \in Report, IngestNew(r) PROVE Goal
  <2>. DEFINE e == Admitted(r)
              c == Progressed(NewConflict(e), e)
  <2>1. StoreEvidence(r)
    BY <1>2 DEF IngestNew
  <2>2. e \in Report /\ e.id \in DOMAIN evidence'
    BY <1>1, <2>1
  <2>3. /\ c.evidenceIds = <<e.id>>
        /\ c.victim = r.victim
        /\ c.domain = r.domain
    <3>1. /\ NewConflict(e) \in ContentionConflict
          /\ NewConflict(e).evidenceIds = <<e.id>>
          /\ NewConflict(e).victim = e.victim
          /\ NewConflict(e).domain = e.domain
      BY <2>2, NewConflictType
    <3>2. e.victim = r.victim /\ e.domain = r.domain
      BY AdmittedType DEF TypeOK
    <3>3. /\ c.evidenceIds = NewConflict(e).evidenceIds
          /\ c.victim = NewConflict(e).victim
          /\ c.domain = NewConflict(e).domain
      BY <3>1, ProgressedType
    <3>. QED
      BY <3>1, <3>2, <3>3
  <2>4. \A k \in DOMAIN conflicts : ~(/\ conflicts[k].victim = r.victim
                                     /\ conflicts[k].domain = r.domain)
    BY <1>2 DEF IngestNew, Matching
  <2>5. conflicts' = Append(conflicts, c)
    BY <1>2 DEF IngestNew
  <2>. QED
    BY <1>1, <2>1, <2>2, <2>3, <2>4, <2>5 DEF CreatedConflict
<1>3. ASSUME NEW r \in Report, IngestKnown(r) PROVE Goal
  <2>. DEFINE e == Admitted(r)
  <2>1. StoreEvidence(r) /\ e \in Report
    BY <1>1, <1>3 DEF IngestKnown
  <2>2. PICK k \in DOMAIN conflicts :
           conflicts' = [conflicts EXCEPT
                           ![k] = Progressed(WithEvidence(conflicts[k], e), e)]
    BY <1>3 DEF IngestKnown, Matching
  <2>. DEFINE c == Progressed(WithEvidence(conflicts[k], e), e)
  <2>3. conflicts[k] \in ContentionConflict
    BY DEF TypeOK
  <2>4. /\ c \in ContentionConflict
        /\ c.victim = conflicts[k].victim
        /\ c.domain = conflicts[k].domain
        /\ c.evidenceIds = Append(conflicts[k].evidenceIds, e.id)
    <3>1. /\ WithEvidence(conflicts[k], e) \in ContentionConflict
          /\ WithEvidence(conflicts[k], e).victim = conflicts[k].victim
          /\ WithEvidence(conflicts[k], e).domain = conflicts[k].domain
          /\ WithEvidence(conflicts[k], e).evidenceIds
                = Append(conflicts[k].evidenceIds, e.id)
      BY <2>1, <2>3, WithEvidenceType
    <3>. QED
      BY <3>1, ProgressedType
  <2>. QED
    BY <1>1, <2>1, <2>2, <2>4, UpdatedConflict
<1>4. ASSUME NEW r \in Report, Verify(r) \/ ObserveOnly(r) PROVE Goal
  <2>. DEFINE e == Admitted(r)
  <2>1. StoreEvidence(r) /\ e \in Report
    BY <1>1, <1>4 DEF Verify, ObserveOnly
  <2>2. PICK k \in DOMAIN conflicts :
           \E s \in ConflictState :
              \/ conflicts' = [conflicts EXCEPT ![k] =
                                 [Observed(conflicts[k], e) EXCEPT !.state = s]]
              \/ conflicts' = [conflicts EXCEPT ![k] = Observed(conflicts[k], e)]
    <3>1. \A v : ConflictAfter(v) \in ConflictState
      BY DEF ConflictAfter, ConflictState
    <3>2. "RESOLVED" \in ConflictState
      BY DEF ConflictState
    <3>. QED
      BY <1>4, <3>1, <3>2 DEF Verify, ObserveOnly, Matching
  <2>3. conflicts[k] \in ContentionConflict
    BY DEF TypeOK
  <2>4. PICK c \in ContentionConflict :
           /\ conflicts' = [conflicts EXCEPT ![k] = c]
           /\ c.victim = conflicts[k].victim
           /\ c.domain = conflicts[k].domain
           /\ c.evidenceIds = Append(conflicts[k].evidenceIds, e.id)
    <3>1. /\ Observed(conflicts[k], e) \in ContentionConflict
          /\ Observed(conflicts[k], e).victim = conflicts[k].victim
          /\ Observed(conflicts[k], e).domain = conflicts[k].domain
          /\ Observed(conflicts[k], e).evidenceIds
                = Append(conflicts[k].evidenceIds, e.id)
      BY <2>1, <2>3, ObservedType
    <3>2. ASSUME NEW s \in ConflictState, NEW c \in ContentionConflict
          PROVE  /\ [c EXCEPT !.state = s] \in ContentionConflict
                 /\ [c EXCEPT !.state = s].victim = c.victim
                 /\ [c EXCEPT !.state = s].domain = c.domain
                 /\ [c EXCEPT !.state = s].evidenceIds = c.evidenceIds
      BY DEF ContentionConflict
    <3>3. CASE conflicts' = [conflicts EXCEPT ![k] = Observed(conflicts[k], e)]
      BY <3>1, <3>3
    <3>4. ASSUME NEW s \in ConflictState,
                 conflicts' = [conflicts EXCEPT ![k] =
                                 [Observed(conflicts[k], e) EXCEPT !.state = s]]
          PROVE  \E c \in ContentionConflict :
                    /\ conflicts' = [conflicts EXCEPT ![k] = c]
                    /\ c.victim = conflicts[k].victim
                    /\ c.domain = conflicts[k].domain
                    /\ c.evidenceIds = Append(conflicts[k].evidenceIds, e.id)
      <4>. DEFINE d == [Observed(conflicts[k], e) EXCEPT !.state = s]
      <4>1. /\ d \in ContentionConflict
            /\ d.victim = Observed(conflicts[k], e).victim
            /\ d.domain = Observed(conflicts[k], e).domain
            /\ d.evidenceIds = Observed(conflicts[k], e).evidenceIds
        BY <3>1, <3>2
      <4>2. conflicts' = [conflicts EXCEPT ![k] = d]
        BY <3>4
      <4>. HIDE DEF d
      <4>. QED
        BY <3>1, <4>1, <4>2
    <3>. QED
      BY <2>2, <3>3, <3>4, Zenon
  <2>. QED
    BY <1>1, <2>1, <2>4, UpdatedConflict
<1>5. ASSUME NEW r \in Report, ObserveUnmatched(r) PROVE Goal
  BY <1>1, <1>5 DEF ObserveUnmatched, SameConflict
<1>6. ASSUME AdvanceEpoch PROVE Goal
  <2>1. \A c \in ContentionConflict :
           /\ SuspendedConflict(c).victim = c.victim
           /\ SuspendedConflict(c).domain = c.domain
           /\ SuspendedConflict(c).evidenceIds = c.evidenceIds
    BY DEF SuspendedConflict, ContentionConflict
  <2>2. /\ DOMAIN conflicts = 1..Len(conflicts)
        /\ Len(conflicts) \in Nat
        /\ \A k \in DOMAIN conflicts : conflicts[k] \in ContentionConflict
    BY DEF TypeOK
  <2>3. conflicts' = [k \in DOMAIN conflicts |-> SuspendedConflict(conflicts[k])]
    BY <1>6 DEF AdvanceEpoch
  <2>4. \A k \in DOMAIN conflicts : SameConflict(k)
    BY <2>1, <2>2, <2>3 DEF SameConflict
  <2>5. Len(conflicts') = Len(conflicts)
    <3>1. conflicts' \in [1..Len(conflicts) -> {conflicts'[k] : k \in 1..Len(conflicts)}]
      BY <2>2, <2>3
    <3>. QED
      BY <2>2, <3>1, MappedSeq
  <2>6. DOMAIN evidence' = DOMAIN evidence
    BY <1>6 DEF AdvanceEpoch
  <2>. QED
    BY <2>4, <2>5, <2>6
<1>7. ASSUME NEW k \in DOMAIN conflicts, NEW req \in Requests, Authorize(k, req)
      PROVE  Goal
  <2>. DEFINE ids == Append(conflicts[k].selectedIds, Len(interventions) + 1)
              c == [conflicts[k] EXCEPT !.state = "INTERVENTION_AUTHORIZED",
                                        !.selectedIds = ids]
  <2>1. conflicts[k] \in ContentionConflict /\ k \in 1..Len(conflicts)
    BY DEF TypeOK
  <2>2. conflicts' = [conflicts EXCEPT ![k] = c]
    BY <1>7, <2>1 DEF Authorize, Selected, TypeOK
  <2>3. /\ c.victim = conflicts[k].victim
        /\ c.domain = conflicts[k].domain
        /\ c.evidenceIds = conflicts[k].evidenceIds
    BY <2>1 DEF ContentionConflict
  <2>. HIDE DEF c
  <2>4. /\ Len(conflicts') = Len(conflicts)
        /\ \A j \in DOMAIN conflicts :
              conflicts'[j] = IF j = k THEN c ELSE conflicts[j]
    BY <2>1, <2>2 DEF TypeOK
  <2>5. evidence' = evidence
    BY <1>7 DEF Authorize
  <2>. QED
    BY <2>3, <2>4, <2>5 DEF SameConflict
<1>8. CASE UNCHANGED <<evidence, conflicts>>
  BY <1>8 DEF SameConflict
<1>9. \/ \E r \in Report : \/ IngestNew(r) \/ IngestKnown(r) \/ Verify(r)
                          \/ ObserveOnly(r) \/ ObserveUnmatched(r)
      \/ AdvanceEpoch
      \/ \E k \in DOMAIN conflicts, req \in Requests : Authorize(k, req)
      \/ UNCHANGED <<evidence, conflicts>>
  BY InputsAssumption
     DEF Next, vars, SetPolicy, SetAuthority, RecordWorkerBoot,
         RecordWorkloadGeneration, Tick, DispatchBegin, DispatchRefused,
         DispatchEnd, OnAcknowledge, OnActionFailed
<1>. QED
  BY <1>2, <1>3, <1>4, <1>5, <1>6, <1>7, <1>8, <1>9

\* A list of ids of D that grows by an id of D.
LEMMA AppendAnchored ==
    ASSUME NEW D \in SUBSET Nat, NEW s \in Seq(Nat), NEW id \in D,
           \A n \in DOMAIN s : s[n] \in D
    PROVE  /\ Append(s, id) # << >>
           /\ \A n \in DOMAIN Append(s, id) : Append(s, id)[n] \in D
<1>1. id \in Nat
  OBVIOUS
<1>2. /\ Append(s, id) \in Seq(Nat)
      /\ Append(s, id) # << >>
      /\ Len(Append(s, id)) = Len(s) + 1
      /\ \A n \in 1..Len(s) : Append(s, id)[n] = s[n]
      /\ Append(s, id)[Len(s) + 1] = id
  BY <1>1, AppendProperties
<1>3. /\ DOMAIN s = 1..Len(s) /\ Len(s) \in Nat
      /\ DOMAIN Append(s, id) = 1..(Len(s) + 1)
  BY <1>2, LenProperties
<1>. QED
  BY <1>2, <1>3

\* authorize() can follow the first report of every conflict: no operation
\* creates a conflict before its report is stored, takes a report off the list
\* of a conflict, or a stored report out of the evidence.
THEOREM EvidenceAlwaysAnchored == Spec => []EvidenceAnchored
<1>1. Init => EvidenceAnchored
  BY DEF Init, EvidenceAnchored
<1>2. TypeOK /\ EvidenceAnchored /\ [Next]_vars => EvidenceAnchored'
  <2>. SUFFICES ASSUME TypeOK, EvidenceAnchored, [Next]_vars,
                       NEW k \in DOMAIN conflicts'
                PROVE  /\ conflicts'[k].evidenceIds # << >>
                       /\ \A n \in DOMAIN conflicts'[k].evidenceIds :
                             conflicts'[k].evidenceIds[n] \in DOMAIN evidence'
    BY DEF EvidenceAnchored
  <2>. DEFINE old == conflicts[k].evidenceIds
              new == conflicts'[k].evidenceIds
  <2>1. DOMAIN evidence \subseteq DOMAIN evidence'
    BY ConflictHistory
  <2>2. /\ DOMAIN conflicts = 1..Len(conflicts) /\ Len(conflicts) \in Nat
        /\ DOMAIN evidence' \subseteq Nat
        /\ DOMAIN conflicts' = 1..Len(conflicts')
    BY NextType DEF TypeOK
  <2>3. ASSUME k \in DOMAIN conflicts, SameConflict(k)
        PROVE  /\ new # << >>
               /\ \A n \in DOMAIN new : new[n] \in DOMAIN evidence'
    <3>1. /\ old \in Seq(Nat)
          /\ old # << >>
          /\ \A n \in DOMAIN old : old[n] \in DOMAIN evidence'
      <4>1. conflicts[k] \in ContentionConflict
        BY <2>2, <2>3, ElementOfSeq DEF TypeOK
      <4>2. old \in Seq(Nat)
        BY <4>1 DEF ContentionConflict
      <4>. QED
        BY <2>1, <2>3, <4>2 DEF EvidenceAnchored
    <3>2. CASE new = old
      BY <3>1, <3>2
    <3>3. ASSUME NEW id \in DOMAIN evidence', new = Append(old, id)
          PROVE  /\ new # << >>
                 /\ \A n \in DOMAIN new : new[n] \in DOMAIN evidence'
      <4>1. DOMAIN evidence' \in SUBSET Nat
        BY <2>2
      <4>. QED
        BY <3>1, <3>3, <4>1, AppendAnchored
    <3>. QED
      BY <2>3, <3>2, <3>3 DEF SameConflict
  <2>4. CASE CreatedConflict
    <3>1. PICK e \in Report :
             LET c == Progressed(NewConflict(e), e)
             IN  /\ conflicts' = Append(conflicts, c)
                 /\ c.evidenceIds = <<e.id>>
                 /\ e.id \in DOMAIN evidence'
      BY <2>4 DEF CreatedConflict
    <3>. DEFINE c == Progressed(NewConflict(e), e)
    <3>2. /\ Len(conflicts') = Len(conflicts) + 1
          /\ \A j \in 1..Len(conflicts) : conflicts'[j] = conflicts[j]
          /\ conflicts'[Len(conflicts) + 1] = c
      BY <3>1, NewConflictType, ProgressedType, AppendProperties DEF TypeOK
    <3>3. CASE k = Len(conflicts) + 1
      <4>1. new = <<e.id>>
        BY <3>1, <3>2, <3>3
      <4>2. new # << >> /\ DOMAIN new = {1} /\ new[1] = e.id
        BY <4>1
      <4>. QED
        BY <3>1, <4>2
    <3>4. CASE k \in DOMAIN conflicts
      BY <2>3, <2>2, <3>2, <3>4 DEF SameConflict
    <3>. QED
      BY <2>2, <3>2, <3>3, <3>4
  <2>. QED
    BY <2>2, <2>3, <2>4, ConflictHistory
<1>. QED
  BY <1>1, <1>2, TypeCorrect, PTL DEF Spec

\* The scan of ingest_evidence for a conflict of a victim and a domain finds
\* at most one, also after it was resolved, suspended or given up.
THEOREM ConflictsStayUnique == Spec => []ConflictUnique
<1>1. Init => ConflictUnique
  BY DEF Init, ConflictUnique
<1>2. TypeOK /\ ConflictUnique /\ [Next]_vars => ConflictUnique'
  <2>. SUFFICES ASSUME TypeOK, ConflictUnique, [Next]_vars,
                       NEW j \in DOMAIN conflicts', NEW k \in DOMAIN conflicts',
                       conflicts'[j].victim = conflicts'[k].victim,
                       conflicts'[j].domain = conflicts'[k].domain
                PROVE  j = k
    BY DEF ConflictUnique
  <2>1. /\ DOMAIN conflicts = 1..Len(conflicts) /\ Len(conflicts) \in Nat
        /\ DOMAIN conflicts' = 1..Len(conflicts')
    BY NextType DEF TypeOK
  <2>2. CASE CreatedConflict
    <3>1. PICK e \in Report :
             LET c == Progressed(NewConflict(e), e)
             IN  /\ conflicts' = Append(conflicts, c)
                 /\ \A i \in DOMAIN conflicts :
                       ~(/\ conflicts[i].victim = c.victim
                         /\ conflicts[i].domain = c.domain)
      BY <2>2 DEF CreatedConflict
    <3>. DEFINE c == Progressed(NewConflict(e), e)
    <3>2. /\ Len(conflicts') = Len(conflicts) + 1
          /\ \A i \in 1..Len(conflicts) : conflicts'[i] = conflicts[i]
          /\ conflicts'[Len(conflicts) + 1] = c
      BY <3>1, NewConflictType, ProgressedType, AppendProperties DEF TypeOK
    <3>. HIDE DEF c
    <3>. QED
      BY <2>1, <3>1, <3>2 DEF ConflictUnique, c
  <2>3. CASE /\ Len(conflicts') = Len(conflicts)
             /\ \A i \in DOMAIN conflicts : SameConflict(i)
    BY <2>1, <2>3 DEF SameConflict, ConflictUnique
  <2>. QED
    BY <2>2, <2>3, ConflictHistory
<1>. QED
  BY <1>1, <1>2, TypeCorrect, PTL DEF Spec

-----------------------------------------------------------------------------
(* Interventions. *)

\* Intervention i after a step is the same one; only its state and its result
\* may have changed.
SameIntervention(i) ==
    /\ interventions'[i].conflictId = interventions[i].conflictId
    /\ interventions'[i].cls = interventions[i].cls
    /\ interventions'[i].target = interventions[i].target
    /\ interventions'[i].fence = interventions[i].fence
    /\ interventions'[i].authorizedAt = interventions[i].authorizedAt

\* Rewriting the state or the result of one record.
LEMMA UpdatedIntervention ==
    ASSUME TypeOK, NEW i \in DOMAIN interventions, NEW s \in LifecycleState,
           NEW v \in VerificationOutcome,
           interventions' = [interventions EXCEPT ![i] =
               [interventions[i] EXCEPT !.state = s, !.result = v]]
    PROVE  /\ Len(interventions') = Len(interventions)
           /\ interventions'[i].state = s
           /\ \A j \in DOMAIN interventions :
                 /\ SameIntervention(j)
                 /\ j # i => interventions'[j].state = interventions[j].state
<1>1. /\ interventions \in Seq(InterventionRecord)
      /\ DOMAIN interventions = 1..Len(interventions)
      /\ interventions[i] \in InterventionRecord
  BY DEF TypeOK
<1>2. [interventions[i] EXCEPT !.state = s, !.result = v] \in InterventionRecord
  BY <1>1 DEF InterventionRecord
<1>3. /\ Len(interventions') = Len(interventions)
      /\ \A j \in 1..Len(interventions) :
            interventions'[j] =
               IF j = i THEN [interventions[i] EXCEPT !.state = s, !.result = v]
                        ELSE interventions[j]
  BY <1>1, <1>2, ExceptSeq
<1>. QED
  BY <1>1, <1>3 DEF InterventionRecord, SameIntervention

\* What a step does to the interventions on record.  A new one is authorized,
\* or the states of some are rewritten: of one by a callback, by dispatch() or
\* by a verification, of all that are open by advance_epoch().
LEMMA InterventionHistory ==
    ASSUME TypeOK, [Next]_vars
    PROVE  \/ \E k \in DOMAIN conflicts, req \in Requests : Authorize(k, req)
           \/ /\ Len(interventions') = Len(interventions)
              /\ \A i \in DOMAIN interventions : SameIntervention(i)
<1>. DEFINE Goal == /\ Len(interventions') = Len(interventions)
                    /\ \A i \in DOMAIN interventions : SameIntervention(i)
<1>1. ASSUME NEW i \in DOMAIN interventions, NEW o,
             \/ DispatchBegin(i) \/ DispatchRefused(i) \/ DispatchEnd(i, o)
             \/ OnAcknowledge(i) \/ OnActionFailed(i)
      PROVE  Goal
  <2>1. PICK s \in LifecycleState : interventions' = InState(i, s)
    BY <1>1, AnsweredType
       DEF DispatchBegin, DispatchRefused, DispatchEnd, OnAcknowledge,
           OnActionFailed, LifecycleState
  <2>2. interventions[i] \in InterventionRecord
    BY DEF TypeOK
  <2>3. [interventions[i] EXCEPT !.state = s]
           = [interventions[i] EXCEPT !.state = s,
                                      !.result = interventions[i].result]
    BY <2>2 DEF InterventionRecord
  <2>4. interventions[i].result \in VerificationOutcome
    BY <2>2 DEF InterventionRecord
  <2>. QED
    BY <2>1, <2>3, <2>4, UpdatedIntervention DEF InState
<1>2. ASSUME NEW r \in Report, Verify(r) PROVE Goal
  <2>1. PICK i \in DOMAIN interventions, v \in VerificationOutcome :
           interventions' = [interventions EXCEPT ![i] =
              [interventions[i] EXCEPT !.state = LifecycleAfter(v), !.result = v]]
    BY <1>2, VerifyStep
  <2>2. LifecycleAfter(v) \in LifecycleState
    BY DEF LifecycleAfter, LifecycleState
  <2>. QED
    BY <2>1, <2>2, UpdatedIntervention
<1>3. ASSUME AdvanceEpoch PROVE Goal
  <2>1. /\ DOMAIN interventions = 1..Len(interventions)
        /\ Len(interventions) \in Nat
        /\ \A i \in DOMAIN interventions : interventions[i] \in InterventionRecord
    BY DEF TypeOK
  <2>2. interventions' = [i \in 1..Len(interventions) |->
                            OrphanedIntervention(interventions[i])]
    BY <1>3, <2>1 DEF AdvanceEpoch
  <2>3. \A i \in DOMAIN interventions : SameIntervention(i)
    BY <2>1, <2>2
       DEF SameIntervention, OrphanedIntervention, InterventionRecord
  <2>4. Len(interventions') = Len(interventions)
    <3>1. interventions' \in [1..Len(interventions) ->
                                {interventions'[i] : i \in 1..Len(interventions)}]
      BY <2>2
    <3>. QED
      BY <2>1, <3>1, MappedSeq
  <2>. QED
    BY <2>3, <2>4
<1>4. CASE UNCHANGED interventions
  BY <1>4 DEF SameIntervention
<1>5. \/ \E k \in DOMAIN conflicts, req \in Requests : Authorize(k, req)
      \/ \E i \in DOMAIN interventions, o \in AdapterOutcome :
            \/ DispatchBegin(i) \/ DispatchRefused(i) \/ DispatchEnd(i, o)
            \/ OnAcknowledge(i) \/ OnActionFailed(i)
      \/ \E r \in Report : Verify(r)
      \/ AdvanceEpoch
      \/ UNCHANGED interventions
  <2>1. \E o : o \in AdapterOutcome
    BY DEF AdapterOutcome
  <2>. QED
    BY <2>1, InputsAssumption
       DEF Next, vars, Followed, SetPolicy, SetAuthority, RecordWorkerBoot,
           RecordWorkloadGeneration, Tick, IngestNew, IngestKnown,
           ObserveOnly, ObserveUnmatched
<1>. QED
  BY <1>1, <1>2, <1>3, <1>4, <1>5

\* dispatch() hands an intervention to an adapter at most once, in every
\* interleaving of its two sections with the other operations: the first one
\* marks it before the mutex is released, and nothing makes it AUTHORIZED again.
THEOREM HandedOutOnce == Spec => []HandedOnce
<1>1. Init => HandedOnce
  BY DEF Init, HandedOnce
<1>2. TypeOK /\ HandedOnce /\ [Next]_vars => HandedOnce'
  <2>. SUFFICES ASSUME TypeOK, HandedOnce, [Next]_vars PROVE HandedOnce'
    OBVIOUS
  <2>1. /\ DOMAIN interventions = 1..Len(interventions)
        /\ DOMAIN handed = 1..Len(interventions)
        /\ Len(interventions) \in Nat
        /\ handed \in Seq(Nat)
        /\ calls \subseteq 1..Len(interventions)
        /\ \A j \in 1..Len(interventions) : handed[j] \in Nat
    BY DEF TypeOK
  <2>2. ASSUME NEW k \in DOMAIN conflicts, NEW req \in Requests, Authorize(k, req)
        PROVE  HandedOnce'
    <3>. DEFINE n == Len(interventions)
    <3>1. PICK iv \in InterventionRecord :
             /\ interventions' = Append(interventions, iv)
             /\ iv.state = "AUTHORIZED"
      <4>1. PICK cls \in InterventionClass, target \in Workloads :
               interventions' = Append(interventions,
                                       NewIntervention(k, cls, target))
        BY <2>2, AuthorizeStep
      <4>2. NewIntervention(k, cls, target).state = "AUTHORIZED"
        BY DEF NewIntervention
      <4>3. NewIntervention(k, cls, target) \in InterventionRecord
        BY NewInterventionType
      <4>. QED
        BY <4>1, <4>2, <4>3
    <3>2. handed' = Append(handed, 0) /\ calls' = calls
      BY <2>2 DEF Authorize
    <3>3. /\ DOMAIN interventions' = 1..(n + 1)
          /\ \A j \in 1..n : interventions'[j] = interventions[j]
          /\ interventions'[n + 1].state = "AUTHORIZED"
      BY <2>1, <3>1, AppendProperties DEF TypeOK
    <3>4. /\ \A j \in 1..n : handed'[j] = handed[j]
          /\ handed'[n + 1] = 0
      BY <2>1, <3>2, AppendProperties DEF TypeOK
    <3>. QED
      BY <2>1, <3>2, <3>3, <3>4 DEF HandedOnce
  <2>3. ASSUME NEW i \in DOMAIN interventions, DispatchBegin(i)
        PROVE  HandedOnce'
    <3>1. interventions' = InState(i, "DISPATCHED") /\ calls' = calls \cup {i}
      BY <2>3 DEF DispatchBegin
    <3>2. /\ DOMAIN interventions' = DOMAIN interventions
          /\ interventions'[i].state = "DISPATCHED"
          /\ \A j \in DOMAIN interventions :
                j # i => interventions'[j] = interventions[j]
      BY <3>1, InStateType DEF TypeOK, LifecycleState
    <3>3. handed[i] = 0
      BY <2>3 DEF DispatchBegin, HandedOnce
    <3>4. \A j \in DOMAIN interventions :
             handed'[j] = IF j = i THEN 1 ELSE handed[j]
      BY <2>1, <2>3, <3>3 DEF DispatchBegin
    <3>. QED
      BY <2>1, <3>1, <3>2, <3>4 DEF HandedOnce
  <2>4. ASSUME NEW i \in DOMAIN interventions, NEW o,
               \/ DispatchRefused(i) \/ DispatchEnd(i, o)
               \/ OnAcknowledge(i) \/ OnActionFailed(i)
        PROVE  HandedOnce'
    <3>1. PICK s \in LifecycleState :
             /\ interventions' = InState(i, s)
             /\ s # "AUTHORIZED"
             /\ s = "SUPERSEDED" => interventions[i].state = "AUTHORIZED"
             /\ s \in {"DISPATCHED", "ACKNOWLEDGED"} =>
                   \/ interventions[i].state = "DISPATCHED"
                   \/ i \in calls
      <4>1. CASE DispatchRefused(i)
        BY <4>1 DEF DispatchRefused, LifecycleState
      <4>2. CASE DispatchEnd(i, o)
        BY <4>2, AnsweredType DEF DispatchEnd, LifecycleState
      <4>3. CASE OnAcknowledge(i)
        BY <4>3 DEF OnAcknowledge, LifecycleState
      <4>4. CASE OnActionFailed(i)
        BY <4>4 DEF OnActionFailed, LifecycleState
      <4>. QED
        BY <2>4, <4>1, <4>2, <4>3, <4>4
    <3>2. /\ DOMAIN interventions' = DOMAIN interventions
          /\ interventions'[i].state = s
          /\ \A j \in DOMAIN interventions :
                j # i => interventions'[j] = interventions[j]
      BY <3>1, InStateType DEF TypeOK
    <3>3. calls' \subseteq calls /\ handed' = handed
      BY <2>4 DEF DispatchRefused, DispatchEnd, OnAcknowledge, OnActionFailed
    <3>. QED
      BY <2>1, <3>1, <3>2, <3>3 DEF HandedOnce
  <2>5. ASSUME NEW r \in Report, Verify(r) PROVE HandedOnce'
    <3>1. PICK i \in DOMAIN interventions, v \in VerificationOutcome :
             interventions' = [interventions EXCEPT ![i] =
                [interventions[i] EXCEPT !.state = LifecycleAfter(v),
                                         !.result = v]]
      BY <2>5, VerifyStep
    <3>2. LifecycleAfter(v) \in {"EFFECTIVE", "PARTIALLY_EFFECTIVE",
                                 "INEFFECTIVE"}
      BY DEF LifecycleAfter
    <3>3. /\ Len(interventions') = Len(interventions)
          /\ interventions'[i].state = LifecycleAfter(v)
          /\ \A j \in DOMAIN interventions :
                j # i => interventions'[j].state = interventions[j].state
      BY <3>1, <3>2, UpdatedIntervention DEF LifecycleState
    <3>4. DOMAIN interventions' = DOMAIN interventions
      BY <2>1, <3>1
    <3>5. calls' = calls /\ handed' = handed
      BY <2>5 DEF Verify
    <3>. QED
      BY <2>1, <3>2, <3>3, <3>4, <3>5 DEF HandedOnce
  <2>6. ASSUME AdvanceEpoch PROVE HandedOnce'
    <3>1. /\ DOMAIN interventions' = DOMAIN interventions
          /\ \A j \in DOMAIN interventions :
                interventions'[j] = OrphanedIntervention(interventions[j])
          /\ calls' = calls
          /\ handed' = handed
      BY <2>6 DEF AdvanceEpoch
    <3>2. ASSUME NEW j \in DOMAIN interventions
          PROVE  interventions'[j].state
                    \in {interventions[j].state, "OUTCOME_UNKNOWN"}
                        \ {"AUTHORIZED", "DISPATCHED", "ACKNOWLEDGED"}
      <4>1. interventions[j] \in InterventionRecord
        BY DEF TypeOK
      <4>. QED
        BY <3>1, <4>1 DEF OrphanedIntervention, InterventionRecord
    <3>. QED
      BY <2>1, <3>1, <3>2 DEF HandedOnce
  <2>7. CASE UNCHANGED <<interventions, calls, handed>>
    BY <2>7 DEF HandedOnce
  <2>8. \/ \E k \in DOMAIN conflicts, req \in Requests : Authorize(k, req)
        \/ \E i \in DOMAIN interventions : DispatchBegin(i)
        \/ \E i \in DOMAIN interventions, o \in AdapterOutcome :
              \/ DispatchRefused(i) \/ DispatchEnd(i, o)
              \/ OnAcknowledge(i) \/ OnActionFailed(i)
        \/ \E r \in Report : Verify(r)
        \/ AdvanceEpoch
        \/ UNCHANGED <<interventions, calls, handed>>
    <3>1. \E o : o \in AdapterOutcome
      BY DEF AdapterOutcome
    <3>. QED
      BY <3>1, InputsAssumption
         DEF Next, vars, Followed, SetPolicy, SetAuthority, RecordWorkerBoot,
             RecordWorkloadGeneration, Tick, IngestNew, IngestKnown,
             ObserveOnly, ObserveUnmatched
  <2>. QED
    BY <2>2, <2>3, <2>4, <2>5, <2>6, <2>7, <2>8
<1>. QED
  BY <1>1, <1>2, TypeCorrect, PTL DEF Spec

\* Where the epoch only moves by advance_epoch(), an intervention that could
\* still be dispatched, or is DISPATCHED, carries the epoch in force.
THEOREM OldEpochAlwaysRetired ==
    ASSUME Authorities = {} PROVE Spec => []OldEpochRetired
<1>1. Init => OldEpochRetired
  BY DEF Init, OldEpochRetired
<1>2. TypeOK /\ OldEpochRetired /\ [Next]_vars => OldEpochRetired'
  <2>. SUFFICES ASSUME TypeOK, OldEpochRetired, [Next]_vars
                PROVE  OldEpochRetired'
    OBVIOUS
  <2>1. /\ DOMAIN interventions = 1..Len(interventions)
        /\ Len(interventions) \in Nat
        /\ \A i \in 1..Len(interventions) :
              interventions[i] \in InterventionRecord
        /\ DOMAIN interventions' = 1..Len(interventions')
    BY NextType DEF TypeOK
  <2>2. ASSUME NEW k \in DOMAIN conflicts, NEW req \in Requests, Authorize(k, req)
        PROVE  OldEpochRetired'
    <3>1. PICK cls \in InterventionClass, target \in Workloads :
             interventions' = Append(interventions,
                                     NewIntervention(k, cls, target))
      BY <2>2, AuthorizeStep
    <3>. DEFINE iv == NewIntervention(k, cls, target)
    <3>2. iv.fence.epoch = authority.epoch
      BY DEF NewIntervention, MakeFence
    <3>3. iv \in InterventionRecord
      BY NewInterventionType
    <3>. HIDE DEF iv
    <3>4. /\ DOMAIN interventions' = 1..(Len(interventions) + 1)
          /\ \A j \in 1..Len(interventions) : interventions'[j] = interventions[j]
          /\ interventions'[Len(interventions) + 1] = iv
      BY <2>1, <3>1, <3>3, AppendProperties DEF TypeOK, iv
    <3>5. authority' = authority
      BY <2>2 DEF Authorize
    <3>. QED
      BY <2>1, <3>2, <3>4, <3>5 DEF OldEpochRetired
  <2>3. ASSUME AdvanceEpoch PROVE OldEpochRetired'
    <3>1. /\ DOMAIN interventions' = DOMAIN interventions
          /\ \A j \in DOMAIN interventions :
                interventions'[j] = OrphanedIntervention(interventions[j])
      BY <2>3 DEF AdvanceEpoch
    <3>2. ASSUME NEW j \in DOMAIN interventions
          PROVE  interventions'[j].state \notin {"AUTHORIZED", "DISPATCHED"}
      BY <2>1, <3>1 DEF OrphanedIntervention, InterventionRecord
    <3>. QED
      BY <3>1, <3>2 DEF OldEpochRetired
  <2>4. ASSUME NEW i \in DOMAIN interventions, NEW s \in LifecycleState,
               interventions' = InState(i, s), authority' = authority,
               s = "DISPATCHED" => interventions[i].state = "AUTHORIZED",
               s # "AUTHORIZED"
        PROVE  OldEpochRetired'
    <3>1. /\ DOMAIN interventions' = DOMAIN interventions
          /\ interventions'[i].state = s
          /\ \A j \in DOMAIN interventions :
                /\ j # i => interventions'[j] = interventions[j]
                /\ interventions'[j].fence = interventions[j].fence
      BY <2>4, InStateType DEF TypeOK
    <3>. QED
      BY <2>4, <3>1 DEF OldEpochRetired
  <2>5. ASSUME NEW i \in DOMAIN interventions, NEW o,
               \/ DispatchBegin(i) \/ DispatchRefused(i) \/ DispatchEnd(i, o)
               \/ OnAcknowledge(i) \/ OnActionFailed(i)
        PROVE  OldEpochRetired'
    <3>1. PICK s \in LifecycleState :
             /\ interventions' = InState(i, s)
             /\ s = "DISPATCHED" => interventions[i].state = "AUTHORIZED"
             /\ s # "AUTHORIZED"
      BY <2>5, AnsweredType
         DEF DispatchBegin, DispatchRefused, DispatchEnd, OnAcknowledge,
             OnActionFailed, LifecycleState
    <3>2. authority' = authority
      BY <2>5 DEF DispatchBegin, DispatchRefused, DispatchEnd, OnAcknowledge,
                  OnActionFailed
    <3>. QED
      BY <2>4, <3>1, <3>2
  <2>6. ASSUME NEW r \in Report, Verify(r) PROVE OldEpochRetired'
    <3>1. PICK i \in DOMAIN interventions, v \in VerificationOutcome :
             interventions' = [interventions EXCEPT ![i] =
                [interventions[i] EXCEPT !.state = LifecycleAfter(v),
                                         !.result = v]]
      BY <2>6, VerifyStep
    <3>2. LifecycleAfter(v) \in {"EFFECTIVE", "PARTIALLY_EFFECTIVE",
                                 "INEFFECTIVE"}
      BY DEF LifecycleAfter
    <3>3. /\ Len(interventions') = Len(interventions)
          /\ interventions'[i].state = LifecycleAfter(v)
          /\ \A j \in DOMAIN interventions :
                /\ SameIntervention(j)
                /\ j # i => interventions'[j].state = interventions[j].state
      BY <3>1, <3>2, UpdatedIntervention DEF LifecycleState
    <3>4. authority' = authority
      BY <2>6 DEF Verify
    <3>. QED
      BY <2>1, <3>2, <3>3, <3>4 DEF OldEpochRetired, SameIntervention
  <2>7. ASSUME interventions' = interventions,
               authority'.epoch = authority.epoch
        PROVE  OldEpochRetired'
    BY <2>7 DEF OldEpochRetired
  <2>8. ASSUME \/ \E p \in Policies : SetPolicy(p)
               \/ \E w \in Workloads : \E n \in 1..MaxBoot :
                     RecordWorkerBoot(w, n)
               \/ \E w \in Workloads : \E n \in 1..MaxGeneration :
                     RecordWorkloadGeneration(w, n)
        PROVE  OldEpochRetired'
    <3>1. interventions' = interventions
      BY <2>8 DEF SetPolicy, RecordWorkerBoot, RecordWorkloadGeneration
    <3>2. authority'.epoch = authority.epoch
      BY <2>8 DEF SetPolicy, RecordWorkerBoot, RecordWorkloadGeneration, TypeOK,
                  AuthorityContext
    <3>. QED
      BY <2>7, <3>1, <3>2
  <2>9. CASE UNCHANGED <<interventions, authority>>
    BY <2>7, <2>9
  <2>10. \/ \E k \in DOMAIN conflicts, req \in Requests : Authorize(k, req)
         \/ AdvanceEpoch
         \/ \E i \in DOMAIN interventions, o \in AdapterOutcome :
               \/ DispatchBegin(i) \/ DispatchRefused(i) \/ DispatchEnd(i, o)
               \/ OnAcknowledge(i) \/ OnActionFailed(i)
         \/ \E r \in Report : Verify(r)
         \/ \E p \in Policies : SetPolicy(p)
         \/ \E w \in Workloads : \E n \in 1..MaxBoot : RecordWorkerBoot(w, n)
         \/ \E w \in Workloads : \E n \in 1..MaxGeneration :
               RecordWorkloadGeneration(w, n)
         \/ UNCHANGED <<interventions, authority>>
    <3>1. \E o : o \in AdapterOutcome
      BY DEF AdapterOutcome
    <3>. QED
      BY <3>1, InputsAssumption
         DEF Next, vars, Followed, Tick, IngestNew, IngestKnown, ObserveOnly,
             ObserveUnmatched
  <2>. QED
    BY <2>2, <2>3, <2>5, <2>6, <2>8, <2>9, <2>10
<1>. QED
  BY <1>1, <1>2, TypeCorrect, PTL DEF Spec

-----------------------------------------------------------------------------
(* Action properties. *)

\* No run of consecutive interventions on a workload passes the limit of the
\* policy in force, whichever class a caller asks for.
THEOREM ConsecutiveNeverExceeded == Spec => ConsecutiveCapped
<1>. DEFINE Capping ==
        \A w \in Workloads :
            fairness'[w].consecutive > fairness[w].consecutive
                => fairness'[w].consecutive <= policy.maxConsecutive
<1>1. TypeOK /\ [Next]_vars => [Capping]_vars
  <2>. SUFFICES ASSUME TypeOK, [Next]_vars, NEW w \in Workloads,
                       fairness'[w].consecutive > fairness[w].consecutive
                PROVE  fairness'[w].consecutive <= policy.maxConsecutive
    OBVIOUS
  <2>1. /\ fairness \in [Workloads -> FairnessRecord]
        /\ fairness[w].consecutive \in Nat
        /\ policy.maxConsecutive \in Nat
    BY DEF TypeOK, FairnessRecord, ContentionPolicy
  <2>2. ASSUME NEW k \in DOMAIN conflicts, NEW req \in Requests, Authorize(k, req)
        PROVE  fairness'[w].consecutive <= policy.maxConsecutive
    <3>1. PICK cls \in InterventionClass, target \in Workloads :
             /\ Feasible(policy, authority, fairness, target, cls,
                         MakeFence(authority, target))
             /\ fairness' = [fairness EXCEPT
                               ![target] = Burdened(fairness[target])]
      BY <2>2, AuthorizeStep
    <3>2. fairness[target].consecutive < policy.maxConsecutive
      BY <3>1 DEF Feasible, UnderFairnessCap
    <3>3. w = target
      BY <2>1, <3>1
    <3>4. fairness'[w].consecutive = fairness[w].consecutive + 1
      BY <2>1, <3>1, <3>3 DEF Burdened, FairnessRecord
    <3>. QED
      BY <2>1, <3>2, <3>3, <3>4
  <2>3. ASSUME fairness'[w] \in {fairness[w], ForgivenBurden(fairness[w])}
        PROVE  FALSE
    <3>1. ForgivenBurden(fairness[w]).consecutive = 0
      BY <2>1 DEF ForgivenBurden, FairnessRecord
    <3>. QED
      BY <2>1, <2>3, <3>1
  <2>4. ASSUME NEW r \in Report, Verify(r)
        PROVE  fairness'[w] \in {fairness[w], ForgivenBurden(fairness[w])}
    <3>1. PICK i \in DOMAIN interventions :
             fairness' \in {fairness,
                [fairness EXCEPT ![interventions[i].target] =
                    ForgivenBurden(fairness[interventions[i].target])]}
      BY <2>4, VerifyStep
    <3>. QED
      BY <2>1, <3>1
  <2>5. ASSUME AdvanceEpoch
        PROVE  fairness'[w] = ForgivenBurden(fairness[w])
    BY <2>5 DEF AdvanceEpoch
  <2>6. \/ \E k \in DOMAIN conflicts, req \in Requests : Authorize(k, req)
        \/ \E r \in Report : Verify(r)
        \/ AdvanceEpoch
        \/ UNCHANGED fairness
    BY InputsAssumption
       DEF Next, vars, SetPolicy, SetAuthority, RecordWorkerBoot,
           RecordWorkloadGeneration, Tick, IngestNew, IngestKnown,
           DispatchBegin, DispatchRefused, DispatchEnd, OnAcknowledge,
           OnActionFailed, ObserveOnly, ObserveUnmatched
  <2>. QED
    BY <2>2, <2>3, <2>4, <2>5, <2>6
<1>2. ConsecutiveCapped <=> [][Capping]_vars
  BY DEF ConsecutiveCapped
<1>. QED
  BY <1>1, <1>2, TypeCorrect, PTL DEF Spec
=============================================================================
