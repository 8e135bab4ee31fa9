-------------------------- MODULE GovernorOutcomes --------------------------
(***************************************************************************)
(* What authorizations, verifications and restarts come to, for every      *)
(* value of the constants: a resolved conflict has the verified action to  *)
(* show for it, a side effect below a hard floor is never called a         *)
(* resolution, a restart holds authorizations back until fresh evidence    *)
(* arrives, the replay report confirms what was authorized (Replay), and   *)
(* an intervention is a lease (ActionLeases).                              *)
(*                                                                         *)
(* The refinement rests on two invariants: TypeOK, by which every call in  *)
(* flight is about an intervention on record, and HandedOnce, by which an  *)
(* intervention that is AUTHORIZED has no call in flight.                  *)
(***************************************************************************)
EXTENDS GovernorSafety, Replay, GovernorLeases

-----------------------------------------------------------------------------
(* Results and resolutions. *)

\* Results are written by verifications only.
LEMMA ResultsKept ==
    ASSUME TypeOK, [Next]_vars, ~\E r \in Report : Verify(r)
    PROVE  \A i \in DOMAIN interventions :
              /\ i \in DOMAIN interventions'
              /\ interventions'[i].result = interventions[i].result
<1>. DEFINE Goal == \A i \in DOMAIN interventions :
                       /\ i \in DOMAIN interventions'
                       /\ interventions'[i].result = interventions[i].result
<1>1. /\ interventions \in Seq(InterventionRecord)
      /\ DOMAIN interventions = 1..Len(interventions)
      /\ \A i \in DOMAIN interventions :
            interventions[i] \in InterventionRecord
  BY DEF TypeOK
<1>2. ASSUME NEW i \in DOMAIN interventions, NEW o,
             \/ DispatchBegin(i) \/ DispatchRefused(i) \/ DispatchEnd(i, o)
             \/ OnAcknowledge(i) \/ OnActionFailed(i)
      PROVE  Goal
  <2>1. PICK s : interventions' = InState(i, s)
    BY <1>2
       DEF DispatchBegin, DispatchRefused, DispatchEnd, OnAcknowledge,
           OnActionFailed
  <2>. QED
    BY <1>1, <2>1 DEF InState, InterventionRecord
<1>3. ASSUME NEW k \in DOMAIN conflicts, NEW req \in Requests, Authorize(k, req)
      PROVE  Goal
  <2>1. PICK cls \in InterventionClass, target \in Workloads :
           interventions' = Append(interventions,
                                   NewIntervention(k, cls, target))
    BY <1>3, AuthorizeStep
  <2>2. NewIntervention(k, cls, target) \in InterventionRecord
    BY NewInterventionType
  <2>. HIDE DEF NewIntervention
  <2>. QED
    BY <1>1, <2>1, <2>2, AppendProperties
<1>4. ASSUME AdvanceEpoch PROVE Goal
  BY <1>1, <1>4
     DEF AdvanceEpoch, OrphanedIntervention, InterventionRecord
<1>5. \/ \E i \in DOMAIN interventions, o \in AdapterOutcome :
            \/ DispatchBegin(i) \/ DispatchRefused(i) \/ DispatchEnd(i, o)
            \/ OnAcknowledge(i) \/ OnActionFailed(i)
      \/ \E k \in DOMAIN conflicts, req \in Requests : Authorize(k, req)
      \/ AdvanceEpoch
      \/ UNCHANGED interventions
  <2>1. \E o : o \in AdapterOutcome
    BY DEF AdapterOutcome
  <2>. QED
    BY <2>1, InputsAssumption
       DEF Next, vars, Followed, SetPolicy, SetAuthority, RecordWorkerBoot,
           RecordWorkloadGeneration, Tick, IngestNew, IngestKnown,
           ObserveOnly, ObserveUnmatched
<1>. QED
  BY <1>2, <1>3, <1>4, <1>5

\* Conflicts come to be RESOLVED by verifications only.
LEMMA ResolvedBefore ==
    ASSUME TypeOK, TypeOK', [Next]_vars, ~\E r \in Report : Verify(r),
           NEW k \in DOMAIN conflicts', conflicts'[k].state = "RESOLVED"
    PROVE  k \in DOMAIN conflicts /\ conflicts[k].state = "RESOLVED"
<1>. DEFINE Goal == k \in DOMAIN conflicts /\ conflicts[k].state = "RESOLVED"
<1>1. /\ conflicts \in Seq(ContentionConflict)
      /\ DOMAIN conflicts = 1..Len(conflicts)
      /\ Len(conflicts) \in Nat
      /\ \A j \in DOMAIN conflicts : conflicts[j] \in ContentionConflict
  BY DEF TypeOK
<1>2. ASSUME NEW c \in ContentionConflict, NEW e
      PROVE  Progressed(c, e).state = "RESOLVED" => c.state = "RESOLVED"
  BY <1>2 DEF Progressed, ContentionConflict
<1>3. ASSUME NEW r \in Report, IngestNew(r) PROVE Goal
  <2>. DEFINE e == Admitted(r)
              c == Progressed(NewConflict(e), e)
  <2>1. e \in Report
    BY AdmittedType DEF TypeOK
  <2>2. NewConflict(e) \in ContentionConflict /\ c \in ContentionConflict
    BY <2>1, NewConflictType, ProgressedType
  <2>3. c.state # "RESOLVED"
    BY <1>2, <2>2 DEF NewConflict
  <2>4. conflicts' = Append(conflicts, c)
    BY <1>3 DEF IngestNew
  <2>. HIDE DEF c
  <2>. QED
    BY <1>1, <2>2, <2>3, <2>4, AppendProperties
<1>4. ASSUME NEW j \in DOMAIN conflicts, NEW c,
             c.state = "RESOLVED" => conflicts[j].state = "RESOLVED",
             conflicts' = [conflicts EXCEPT ![j] = c]
      PROVE  Goal
  BY <1>1, <1>4
<1>5. ASSUME NEW r \in Report, IngestKnown(r) PROVE Goal
  <2>. DEFINE e == Admitted(r)
  <2>1. e \in Report
    BY AdmittedType DEF TypeOK
  <2>2. PICK j \in Matching(r) :
           conflicts' = [conflicts EXCEPT
                           ![j] = Progressed(WithEvidence(conflicts[j], e), e)]
    BY <1>5 DEF IngestKnown
  <2>3. j \in DOMAIN conflicts /\ conflicts[j] \in ContentionConflict
    BY <1>1 DEF Matching
  <2>4. WithEvidence(conflicts[j], e) \in ContentionConflict
    BY <2>1, <2>3, WithEvidenceType
  <2>5. WithEvidence(conflicts[j], e).state = conflicts[j].state
    BY <2>3 DEF WithEvidence, ContentionConflict
  <2>. QED
    BY <1>2, <1>4, <2>2, <2>3, <2>4, <2>5
<1>6. ASSUME NEW r \in Report, ObserveOnly(r) PROVE Goal
  <2>1. PICK j \in Matching(r) :
           conflicts' = [conflicts EXCEPT
                           ![j] = Observed(conflicts[j], Admitted(r))]
    BY <1>6 DEF ObserveOnly
  <2>2. j \in DOMAIN conflicts /\ conflicts[j] \in ContentionConflict
    BY <1>1 DEF Matching
  <2>3. Observed(conflicts[j], Admitted(r)).state = conflicts[j].state
    BY <2>2 DEF Observed, ContentionConflict
  <2>. QED
    BY <1>4, <2>1, <2>2, <2>3
<1>7. ASSUME NEW j \in DOMAIN conflicts, NEW req \in Requests, Authorize(j, req)
      PROVE  Goal
  <2>1. conflicts' = [conflicts EXCEPT
                        ![j] = Selected(conflicts[j], Len(interventions) + 1)]
    BY <1>7 DEF Authorize
  <2>2. Selected(conflicts[j], Len(interventions) + 1).state # "RESOLVED"
    BY <1>1 DEF Selected, ContentionConflict
  <2>. QED
    BY <1>4, <2>1, <2>2
<1>8. ASSUME AdvanceEpoch PROVE Goal
  <2>1. k \in DOMAIN conflicts /\ conflicts'[k] = SuspendedConflict(conflicts[k])
    BY <1>8 DEF AdvanceEpoch
  <2>. QED
    BY <1>1, <2>1 DEF SuspendedConflict, ContentionConflict
<1>9. \/ \E r \in Report : IngestNew(r) \/ IngestKnown(r) \/ ObserveOnly(r)
      \/ \E j \in DOMAIN conflicts, req \in Requests : Authorize(j, req)
      \/ AdvanceEpoch
      \/ UNCHANGED conflicts
  BY InputsAssumption
     DEF Next, vars, SetPolicy, SetAuthority, RecordWorkerBoot,
         RecordWorkloadGeneration, Tick, DispatchBegin, DispatchRefused,
         DispatchEnd, OnAcknowledge, OnActionFailed, ObserveUnmatched
<1>. QED
  BY <1>3, <1>5, <1>6, <1>7, <1>8, <1>9

\* A verification resolves the conflict of the action it verifies, and moves
\* no other conflict: the result of that action and the state of its conflict
\* are written together.
LEMMA VerifyBacks ==
    ASSUME TypeOK, TypeOK', ResolutionBacked, NEW r \in Report, Verify(r)
    PROVE  ResolutionBacked'
<1>1. PICK k \in Matching(r), i \in DOMAIN interventions,
           v \in VerificationOutcome :
         /\ IsConflictOf(r, k)
         /\ IsVerified(k, i)
         /\ v = Outcome(k, interventions[i].target,
                       conflicts[k].degradation, Admitted(r).degradation)
         /\ conflicts' = [conflicts EXCEPT ![k] =
               [Observed(conflicts[k], Admitted(r)) EXCEPT
                   !.state = ConflictAfter(v)]]
         /\ interventions' = [interventions EXCEPT ![i] =
               [interventions[i] EXCEPT !.state = LifecycleAfter(v),
                                        !.result = v]]
         /\ fairness' = IF v = "RESOLVED"
                        THEN [fairness EXCEPT
                                ![interventions[i].target] =
                                ForgivenBurden(fairness[interventions[i].target])]
                        ELSE fairness
  BY VerifyStep
<1>2. /\ DOMAIN conflicts' = DOMAIN conflicts
      /\ DOMAIN interventions' = DOMAIN interventions
      /\ k \in DOMAIN conflicts
      /\ conflicts[k] \in ContentionConflict
      /\ \A j \in DOMAIN interventions : interventions[j] \in InterventionRecord
  BY <1>1 DEF TypeOK, Matching
<1>3. interventions[i].conflictId = k
  BY <1>1 DEF IsVerified, Open
<1>4. conflicts'[k].state = ConflictAfter(v)
  BY <1>1, <1>2 DEF Observed, ContentionConflict
<1>5. \A j \in DOMAIN interventions :
         /\ interventions'[j].conflictId = interventions[j].conflictId
         /\ interventions'[j].result = IF j = i THEN v
                                                ELSE interventions[j].result
  BY <1>1, <1>2 DEF InterventionRecord
<1>6. ASSUME NEW j \in DOMAIN conflicts', conflicts'[j].state = "RESOLVED"
      PROVE  \E n \in DOMAIN interventions' :
                /\ interventions'[n].conflictId = j
                /\ interventions'[n].result = "RESOLVED"
  <2>1. CASE j = k
    <3>1. v = "RESOLVED"
      BY <1>4, <1>6, <2>1 DEF ConflictAfter, VerificationOutcome
    <3>. QED
      BY <1>2, <1>3, <1>5, <2>1, <3>1
  <2>2. CASE j # k
    <3>1. j \in DOMAIN conflicts /\ conflicts[j].state = "RESOLVED"
      BY <1>1, <1>2, <1>6, <2>2
    <3>2. PICK n \in DOMAIN interventions :
             /\ interventions[n].conflictId = j
             /\ interventions[n].result = "RESOLVED"
      BY <3>1 DEF ResolutionBacked
    <3>3. n # i
      BY <1>3, <2>2, <3>2
    <3>. QED
      BY <1>2, <1>5, <3>2, <3>3
  <2>. QED
    BY <2>1, <2>2
<1>. QED
  BY <1>6 DEF ResolutionBacked

\* A conflict is RESOLVED only with a verified action on it to show for it:
\* reports, restarts and callbacks neither close a conflict nor take the
\* result of an action back.
THEOREM ResolutionAlwaysBacked == Spec => []ResolutionBacked
<1>1. Init => ResolutionBacked
  BY DEF Init, ResolutionBacked
<1>2. TypeOK /\ TypeOK' /\ ResolutionBacked /\ [Next]_vars => ResolutionBacked'
  <2>. SUFFICES ASSUME TypeOK, TypeOK', ResolutionBacked, [Next]_vars
                PROVE  ResolutionBacked'
    OBVIOUS
  <2>1. CASE ~\E r \in Report : Verify(r)
    <3>. SUFFICES ASSUME NEW k \in DOMAIN conflicts',
                         conflicts'[k].state = "RESOLVED"
                  PROVE  \E n \in DOMAIN interventions' :
                            /\ interventions'[n].conflictId = k
                            /\ interventions'[n].result = "RESOLVED"
      BY DEF ResolutionBacked
    <3>1. PICK n \in DOMAIN interventions :
             /\ interventions[n].conflictId = k
             /\ interventions[n].result = "RESOLVED"
      BY <2>1, ResolvedBefore DEF ResolutionBacked
    <3>2. n \in DOMAIN interventions' /\ interventions'[n].result = "RESOLVED"
      BY <2>1, <3>1, ResultsKept
    <3>3. interventions'[n].conflictId = k
      <4>1. CASE \E j \in DOMAIN conflicts, req \in Requests : Authorize(j, req)
        <5>1. PICK j \in DOMAIN conflicts, cls \in InterventionClass,
                   target \in Workloads :
                 interventions' = Append(interventions,
                                         NewIntervention(j, cls, target))
          BY <4>1, AuthorizeStep
        <5>2. /\ interventions \in Seq(InterventionRecord)
              /\ DOMAIN interventions = 1..Len(interventions)
          BY DEF TypeOK
        <5>3. NewIntervention(j, cls, target) \in InterventionRecord
          BY NewInterventionType
        <5>. QED
          BY <3>1, <5>1, <5>2, <5>3, AppendProperties
      <4>2. CASE \A i \in DOMAIN interventions : SameIntervention(i)
        BY <3>1, <4>2 DEF SameIntervention
      <4>. QED
        BY <4>1, <4>2, InterventionHistory
    <3>. QED
      BY <3>2, <3>3
  <2>. QED
    BY <2>1, VerifyBacks
<1>. QED
  BY <1>1, <1>2, TypeCorrect, PTL DEF Spec

-----------------------------------------------------------------------------
(* Side effects. *)

\* No verification reports RESOLVED while the workload that was slowed is
\* beyond its own hard floor in another conflict.
THEOREM SecondaryNeverHidden == Spec => SecondaryNotHidden
<1>. DEFINE Shown ==
        \A i \in DOMAIN interventions :
            /\ interventions'[i].result = "RESOLVED"
            /\ interventions[i].result # "RESOLVED"
            => \A j \in DOMAIN conflicts \ {interventions[i].conflictId} :
                  conflicts[j].victim = interventions[i].target =>
                     conflicts[j].degradation
                        + policy.workloads[interventions[i].target].hardSloFloor
                        <= 100
<1>1. TypeOK /\ [Next]_vars => [Shown]_vars
  <2>. SUFFICES ASSUME TypeOK, [Next]_vars,
                       NEW n \in DOMAIN interventions,
                       interventions'[n].result = "RESOLVED",
                       interventions[n].result # "RESOLVED",
                       NEW j \in DOMAIN conflicts
                                    \ {interventions[n].conflictId},
                       conflicts[j].victim = interventions[n].target
                PROVE  conflicts[j].degradation
                        + policy.workloads[interventions[n].target].hardSloFloor
                        <= 100
    OBVIOUS
  <2>1. PICK r \in Report : Verify(r)
    BY ResultsKept
  <2>2. PICK k \in Matching(r), i \in DOMAIN interventions,
             v \in VerificationOutcome :
           /\ IsConflictOf(r, k)
           /\ IsVerified(k, i)
           /\ v = Outcome(k, interventions[i].target,
                         conflicts[k].degradation, Admitted(r).degradation)
           /\ conflicts' = [conflicts EXCEPT ![k] =
                 [Observed(conflicts[k], Admitted(r)) EXCEPT
                     !.state = ConflictAfter(v)]]
           /\ interventions' = [interventions EXCEPT ![i] =
                 [interventions[i] EXCEPT !.state = LifecycleAfter(v),
                                          !.result = v]]
           /\ fairness' = IF v = "RESOLVED"
                          THEN [fairness EXCEPT
                                  ![interventions[i].target] =
                                  ForgivenBurden(fairness[interventions[i].target])]
                          ELSE fairness
    BY <2>1, VerifyStep
  <2>3. \A m \in DOMAIN interventions :
           interventions[m] \in InterventionRecord
    BY DEF TypeOK
  <2>4. n = i /\ v = "RESOLVED"
    BY <2>2, <2>3 DEF InterventionRecord
  <2>5. interventions[i].conflictId = k
    BY <2>2 DEF IsVerified, Open
  <2>6. ~SecondaryHard(k, interventions[i].target)
    BY <2>2, <2>4 DEF Outcome
  <2>7. ~(conflicts[j].degradation
            > 100 - policy.workloads[interventions[i].target].hardSloFloor)
    BY <2>4, <2>5, <2>6 DEF SecondaryHard
  <2>8. /\ conflicts[j].degradation \in Int
        /\ policy.workloads[interventions[i].target].hardSloFloor \in Int
    <3>1. conflicts[j] \in ContentionConflict /\ policy \in ContentionPolicy
      BY DEF TypeOK
    <3>2. interventions[i].target \in Workloads
      BY <2>3 DEF InterventionRecord
    <3>. QED
      BY <3>1, <3>2 DEF ContentionConflict, ContentionPolicy, WorkloadPolicy
  <2>. QED
    BY <2>4, <2>7, <2>8
<1>2. SecondaryNotHidden <=> [][Shown]_vars
  BY DEF SecondaryNotHidden
<1>. QED
  BY <1>1, <1>2, TypeCorrect, PTL DEF Spec

-----------------------------------------------------------------------------
(* Restarts. *)

\* No authority that is set takes the epoch back or forward.
EpochAssumption ==
    \A a \in Authorities, b \in Authorities \cup InitialAuthorities :
        a.epoch <= b.epoch

EpochFloor == \A a \in Authorities : a.epoch <= authority.epoch

\* The epoch moves by advance_epoch() alone, which leaves no CURRENT report;
\* what is authorized afterwards rests on a report that arrived since.
THEOREM RestartAlwaysBars ==
    ASSUME EpochAssumption PROVE Spec => RestartBarrier
<1>. DEFINE Barred ==
        /\ authority'.epoch > authority.epoch =>
              \A id \in DOMAIN evidence' : evidence'[id].status # "CURRENT"
        /\ Authorizes =>
              LET c == conflicts[Last(interventions').conflictId]
              IN  \E n \in DOMAIN c.evidenceIds :
                     evidence[c.evidenceIds[n]].status = "CURRENT"
<1>1. Init => EpochFloor
  <2>. SUFFICES ASSUME Init, NEW a \in Authorities
                PROVE  a.epoch <= authority.epoch
    BY DEF EpochFloor
  <2>1. PICK b \in InitialAuthorities :
           authority = [b EXCEPT !.policyGeneration = policy.generation]
    BY DEF Init
  <2>2. b \in AuthorityContext
    BY InputsAssumption
  <2>3. authority.epoch = b.epoch
    BY <2>1, <2>2 DEF AuthorityContext
  <2>. QED
    BY <2>3 DEF EpochAssumption
<1>2. ASSUME TypeOK, [Next]_vars, EpochFloor
      PROVE  /\ EpochFloor'
             /\ authority'.epoch > authority.epoch => AdvanceEpoch
  <2>1. authority \in AuthorityContext /\ authority.epoch \in Nat
    BY <1>2 DEF TypeOK, AuthorityContext
  <2>2. \A a \in Authorities : a.epoch \in Nat
    BY InputsAssumption DEF AuthorityContext
  <2>3. ASSUME NEW b \in Authorities, SetAuthority(b)
        PROVE  EpochFloor' /\ ~(authority'.epoch > authority.epoch)
    BY <1>2, <2>1, <2>2, <2>3 DEF SetAuthority, EpochFloor, EpochAssumption
  <2>4. ASSUME AdvanceEpoch PROVE EpochFloor'
    <3>1. authority'.epoch = authority.epoch + 1
      BY <2>1, <2>4 DEF AdvanceEpoch, AuthorityContext
    <3>. QED
      BY <1>2, <2>1, <2>2, <3>1 DEF EpochFloor
  <2>5. \/ \E b \in Authorities : SetAuthority(b)
        \/ AdvanceEpoch
        \/ authority'.epoch = authority.epoch
    BY <1>2, <2>1
       DEF Next, vars, SetPolicy, RecordWorkerBoot, RecordWorkloadGeneration,
           Tick, IngestNew, IngestKnown, Authorize, DispatchBegin,
           DispatchRefused, DispatchEnd, OnAcknowledge, OnActionFailed, Verify,
           ObserveOnly, ObserveUnmatched, AuthorityContext
  <2>6. CASE authority'.epoch = authority.epoch
    BY <1>2, <2>1, <2>6 DEF EpochFloor
  <2>. QED
    BY <2>3, <2>4, <2>5, <2>6
<1>3. ASSUME TypeOK, AdvanceEpoch
      PROVE  \A id \in DOMAIN evidence' : evidence'[id].status # "CURRENT"
  <2>1. ASSUME NEW id \in DOMAIN evidence'
        PROVE  evidence'[id].status # "CURRENT"
    <3>1. /\ id \in DOMAIN evidence
          /\ evidence'[id] = SuspendedEvidence(evidence[id])
      BY <1>3, <2>1 DEF AdvanceEpoch
    <3>2. evidence[id] \in Report
      BY <1>3, <3>1 DEF TypeOK
    <3>. QED
      BY <3>1, <3>2 DEF SuspendedEvidence, Report
  <2>. QED
    BY <2>1
<1>4. ASSUME TypeOK, [Next]_vars, Authorizes
      PROVE  LET c == conflicts[Last(interventions').conflictId]
             IN  \E n \in DOMAIN c.evidenceIds :
                    evidence[c.evidenceIds[n]].status = "CURRENT"
  <2>1. /\ interventions \in Seq(InterventionRecord)
        /\ DOMAIN interventions = 1..Len(interventions)
        /\ TypeOK'
    BY <1>4, NextType DEF TypeOK
  <2>2. Len(interventions') # Len(interventions)
    BY <1>4, <2>1 DEF Authorizes, TypeOK
  <2>3. PICK k \in DOMAIN conflicts, req \in Requests : Authorize(k, req)
    BY <1>4, <2>2, InterventionHistory
  <2>4. PICK cls \in InterventionClass, target \in Workloads :
           /\ Evaluable(policy, evidence, conflicts[k])
           /\ interventions' = Append(interventions,
                                      NewIntervention(k, cls, target))
    BY <1>4, <2>3, AuthorizeStep
  <2>5. Last(interventions') = NewIntervention(k, cls, target)
    <3>1. NewIntervention(k, cls, target) \in InterventionRecord
      BY <1>4, NewInterventionType
    <3>. HIDE DEF NewIntervention
    <3>. QED
      BY <2>1, <2>4, <3>1, AppendProperties DEF Last
  <2>6. Last(interventions').conflictId = k
    BY <2>5 DEF NewIntervention
  <2>7. \E n \in 1..Len(conflicts[k].evidenceIds) :
           evidence[conflicts[k].evidenceIds[n]].status = "CURRENT"
    BY <2>4 DEF Evaluable, CurrentPositions
  <2>8. DOMAIN conflicts[k].evidenceIds = 1..Len(conflicts[k].evidenceIds)
    <3>1. conflicts[k] \in ContentionConflict
      BY <1>4 DEF TypeOK
    <3>. QED
      BY <3>1 DEF ContentionConflict
  <2>. QED
    BY <2>6, <2>7, <2>8
<1>5. TypeOK /\ EpochFloor /\ [Next]_vars => EpochFloor' /\ [Barred]_vars
  BY <1>2, <1>3, <1>4
<1>6. RestartBarrier <=> [][Barred]_vars
  BY DEF RestartBarrier
<1>. QED
  BY <1>1, <1>5, <1>6, TypeCorrect, PTL DEF Spec

-----------------------------------------------------------------------------
(* Replay. *)

\* A decision stands in a state that differs in the budget, in the state and
\* the selections of the conflict and in burdens that only grew, unless its
\* own target has reached the limit: nothing becomes feasible that could come
\* before it.
LEMMA DecisionStands ==
    ASSUME NEW p \in ContentionPolicy, NEW b \in ActionBudget,
           NEW a, NEW ev, NEW f, NEW g,
           NEW c, NEW d, NEW cand \in Decisions(p, a, ev, f, c),
           d.evidenceIds = c.evidenceIds,
           d.degradation = c.degradation,
           d.associated = c.associated,
           \A w \in Workloads : /\ f[w].consecutive \in Nat
                                /\ g[w].consecutive \in Nat
                                /\ g[w].consecutive >= f[w].consecutive,
           g[cand.target].consecutive < p.maxConsecutive
    PROVE  cand \in Decisions([p EXCEPT !.budget = b], a, ev, g, d)
<1>. DEFINE q == [p EXCEPT !.budget = b]
            before == FeasibleCandidates(p, a, f, c)
            after == FeasibleCandidates(q, a, g, d)
<1>1. /\ q.actionability = p.actionability
      /\ q.minAttribution = p.minAttribution
      /\ q.minConfidence = p.minConfidence
      /\ q.maxConsecutive = p.maxConsecutive
      /\ q.workloads = p.workloads
      /\ q.allows = p.allows
      /\ p.maxConsecutive \in Nat
  BY DEF ContentionPolicy
<1>. HIDE DEF q
<1>2. /\ Evaluable(p, ev, c)
      /\ cand \in Best(p, before)
  BY DEF Decisions
<1>3. CurrentPositions(ev, d) = CurrentPositions(ev, c)
  BY DEF CurrentPositions
<1>4. Primary(ev, d) = Primary(ev, c)
  BY <1>3 DEF Primary
<1>5. Evaluable(q, ev, d)
  BY <1>1, <1>2, <1>3, <1>4 DEF Evaluable, DestructiveOk
<1>6. Candidates(q, d) = Candidates(p, c)
  BY <1>1 DEF Candidates, ClassEligible
<1>7. \A t, cls : ClassPermitted(q, t, cls) <=> ClassPermitted(p, t, cls)
  BY <1>1 DEF ClassPermitted
<1>8. after \subseteq before
  <2>. SUFFICES ASSUME NEW o \in after PROVE o \in before
    OBVIOUS
  <2>1. /\ o \in Candidates(p, c)
        /\ Feasible(q, a, g, o.target, o.cls, MakeFence(a, o.target))
    BY <1>6 DEF FeasibleCandidates
  <2>2. o.target \in Workloads
    BY <2>1 DEF Candidates, Candidate
  <2>3. UnderFairnessCap(p, f, o.target)
    BY <1>1, <2>1, <2>2 DEF Feasible, UnderFairnessCap
  <2>4. Feasible(p, a, f, o.target, o.cls, MakeFence(a, o.target))
    BY <1>7, <2>1, <2>3 DEF Feasible
  <2>. QED
    BY <2>1, <2>4 DEF FeasibleCandidates
<1>9. cand \in after
  <2>1. /\ cand \in Candidates(q, d)
        /\ Feasible(p, a, f, cand.target, cand.cls, MakeFence(a, cand.target))
    BY <1>2, <1>6 DEF Best, FeasibleCandidates
  <2>2. UnderFairnessCap(q, g, cand.target)
    BY <1>1 DEF UnderFairnessCap
  <2>3. Feasible(q, a, g, cand.target, cand.cls, MakeFence(a, cand.target))
    BY <1>7, <2>1, <2>2 DEF Feasible
  <2>. QED
    BY <2>1, <2>3 DEF FeasibleCandidates
<1>10. \A o, u : Better(q, o, u) <=> Better(p, o, u)
  BY <1>1 DEF Better, RankKey
<1>11. cand \in Best(q, after)
  <2>1. \A o \in before \ {cand} : Better(p, cand, o)
    BY <1>2 DEF Best
  <2>. QED
    BY <1>8, <1>9, <1>10, <2>1 DEF Best
<1>. QED
  BY <1>5, <1>11 DEF Decisions, q

\* replay() finds the authorization that followed an evaluation again: burden,
\* budget and conflict change under it, but not the decision, unless the
\* target is at its limit of consecutive interventions by now.
THEOREM ReplayAlwaysConfirms == Spec => ReplayConfirms
<1>. DEFINE Confirms(i) ==
        LET iv == interventions'[i]
            evaluated == [cls |-> iv.cls, target |-> iv.target]
        IN  evaluated \in Decisions(policy, authority, evidence, fairness,
                                    conflicts[iv.conflictId])
            => \/ iv.conflictId \notin Diverged'
               \/ fairness'[iv.target].consecutive >= policy.maxConsecutive
<1>1. ASSUME TypeOK, [Next]_vars,
             NEW i \in DOMAIN interventions' \ DOMAIN interventions
      PROVE  Confirms(i)
  <2>. DEFINE n == Len(interventions)
  <2>1. /\ interventions \in Seq(InterventionRecord)
        /\ DOMAIN interventions = 1..n
        /\ n \in Nat
        /\ policy \in ContentionPolicy
        /\ conflicts \in Seq(ContentionConflict)
        /\ DOMAIN conflicts = 1..Len(conflicts)
        /\ fairness \in [Workloads -> FairnessRecord]
        /\ TypeOK'
    BY <1>1, NextType DEF TypeOK
  <2>2. Len(interventions') # n
    BY <1>1, <2>1 DEF TypeOK
  <2>3. PICK k \in DOMAIN conflicts, req \in Requests : Authorize(k, req)
    BY <1>1, <2>2, InterventionHistory
  <2>4. PICK cls \in InterventionClass, target \in Workloads :
           /\ interventions' = Append(interventions,
                                      NewIntervention(k, cls, target))
           /\ policy' = [policy EXCEPT !.budget =
                           ConsumeBudget(policy.budget, cls, now)]
           /\ fairness' = [fairness EXCEPT
                             ![target] = Burdened(fairness[target])]
    BY <1>1, <2>3, AuthorizeStep
  <2>. DEFINE iv == NewIntervention(k, cls, target)
              cand == [cls |-> cls, target |-> target]
  <2>5. iv.conflictId = k /\ iv.cls = cls /\ iv.target = target
    BY DEF NewIntervention
  <2>6. iv \in InterventionRecord
    BY <1>1, NewInterventionType
  <2>. HIDE DEF iv
  <2>7. /\ i = n + 1
        /\ interventions'[i] = iv
        /\ DOMAIN interventions' = 1..(n + 1)
    BY <1>1, <2>1, <2>4, <2>6, AppendProperties DEF iv
  <2>8. /\ authority' = authority /\ evidence' = evidence
        /\ conflicts' = [conflicts EXCEPT ![k] = Selected(conflicts[k], n + 1)]
    BY <2>3 DEF Authorize
  <2>. SUFFICES ASSUME cand \in Decisions(policy, authority, evidence, fairness,
                                          conflicts[k]),
                       ~(fairness'[target].consecutive >= policy.maxConsecutive)
                PROVE  k \notin Diverged'
    BY <2>5, <2>7
  <2>. DEFINE c == conflicts[k]
              d == Selected(c, n + 1)
  <2>9. c \in ContentionConflict
    BY <2>1
  <2>10. /\ d.evidenceIds = c.evidenceIds
         /\ d.degradation = c.degradation
         /\ d.associated = c.associated
         /\ d.selectedIds = Append(c.selectedIds, n + 1)
         /\ c.selectedIds \in Seq(Nat)
    BY <2>9 DEF Selected, ContentionConflict
  <2>11. conflicts'[k] = d
    BY <2>1, <2>8
  <2>12. policy.budget \in ActionBudget
    BY <2>1 DEF ContentionPolicy
  <2>13. ConsumeBudget(policy.budget, cls, now) \in ActionBudget
    BY <1>1, <2>12, ConsumeType DEF TypeOK
  <2>14. \A w \in Workloads :
            /\ fairness[w].consecutive \in Nat
            /\ fairness'[w].consecutive \in Nat
            /\ fairness'[w].consecutive >= fairness[w].consecutive
    <3>1. \A r \in FairnessRecord :
             /\ r.consecutive \in Nat
             /\ Burdened(r).consecutive = r.consecutive + 1
      BY DEF FairnessRecord, Burdened
    <3>. QED
      BY <2>1, <2>4, <3>1
  <2>15. policy.maxConsecutive \in Nat /\ cand.target = target
    BY <2>1 DEF ContentionPolicy
  <2>16. fairness'[cand.target].consecutive < policy.maxConsecutive
    BY <2>14, <2>15
  <2>. HIDE DEF c, d, cand
  <2>17. cand \in Decisions(policy', authority', evidence', fairness', d)
    BY <2>1, <2>4, <2>8, <2>10, <2>13, <2>14, <2>16, DecisionStands DEF c
  <2>18. /\ n + 1 \in Nat
         /\ Len(c.selectedIds) + 1 \in DOMAIN d.selectedIds
         /\ d.selectedIds[Len(c.selectedIds) + 1] = n + 1
    BY <2>1, <2>10, AppendProperties
  <2>19. /\ interventions'[n + 1].cls = cand.cls
         /\ interventions'[n + 1].target = cand.target
         /\ n + 1 \in DOMAIN interventions'
    BY <2>1, <2>5, <2>7 DEF cand
  <2>20. Reproduced(k)'
    BY <2>11, <2>17, <2>18, <2>19 DEF Reproduced
  <2>. QED
    BY <2>20 DEF Diverged
<1>2. TypeOK /\ [Next]_vars
         => [\A i \in DOMAIN interventions' \ DOMAIN interventions :
                Confirms(i)]_vars
  BY <1>1
<1>3. ReplayConfirms <=> [][\A i \in DOMAIN interventions' \ DOMAIN interventions :
                              Confirms(i)]_vars
  BY DEF ReplayConfirms
<1>. QED
  BY <1>2, <1>3, TypeCorrect, PTL DEF Spec

-----------------------------------------------------------------------------
(* Leases. *)

\* The leases name classes, fences and contexts as the governor does.
LEMMA SameNames ==
    /\ Promise!InterventionClass = InterventionClass
    /\ Promise!Fence = Fence
    /\ Promise!AuthorityContext = AuthorityContext
    /\ \A a, w : Promise!MakeFence(a, w) = MakeFence(a, w)
<1>1. Promise!ClassOrder = ClassOrder
  BY DEF ClassOrder, Promise!ClassOrder
<1>. QED
  BY <1>1
     DEF InterventionClass, Promise!InterventionClass, Fence, Promise!Fence,
         AuthorityContext, Promise!AuthorityContext, MakeFence,
         Promise!MakeFence

\* There is one lease for each intervention.
LEMMA LeasesShape ==
    ASSUME TypeOK
    PROVE  /\ LeasesOf \in [1..Len(interventions) -> Promise!Lease]
           /\ LeasesOf \in Seq(Promise!Lease)
           /\ Len(LeasesOf) = Len(interventions)
           /\ \A i \in 1..Len(interventions) :
                 LeasesOf[i] = [cls |-> interventions[i].cls,
                                target |-> interventions[i].target,
                                fence |-> interventions[i].fence,
                                phase |-> PhaseOf(i)]
<1>1. /\ DOMAIN interventions = 1..Len(interventions)
      /\ Len(interventions) \in Nat
      /\ \A i \in 1..Len(interventions) : interventions[i] \in InterventionRecord
  BY DEF TypeOK
<1>2. ASSUME NEW i \in 1..Len(interventions)
      PROVE  [cls |-> interventions[i].cls, target |-> interventions[i].target,
              fence |-> interventions[i].fence, phase |-> PhaseOf(i)]
                \in Promise!Lease
  <2>1. PhaseOf(i) \in {"held", "redeemed", "spent"}
    BY DEF PhaseOf
  <2>2. interventions[i] \in InterventionRecord
    BY <1>1
  <2>. QED
    BY <2>1, <2>2, SameNames
       DEF InterventionRecord, Promise!Lease, Promise!Phase
<1>3. LeasesOf \in [1..Len(interventions) -> Promise!Lease]
  BY <1>1, <1>2 DEF LeasesOf
<1>. QED
  BY <1>1, <1>3, MappedSeq DEF LeasesOf

\* When the phase of at most one lease changes, the others are as before.
LEMMA OneLeaseChanged ==
    ASSUME TypeOK, TypeOK', NEW i \in DOMAIN interventions,
           Len(interventions') = Len(interventions),
           \A j \in DOMAIN interventions : SameIntervention(j),
           \A j \in DOMAIN interventions \ {i} : PhaseOf(j)' = PhaseOf(j)
    PROVE  LeasesOf' = [LeasesOf EXCEPT ![i].phase = PhaseOf(i)']
<1>. DEFINE n == Len(interventions)
            new == [LeasesOf EXCEPT ![i].phase = PhaseOf(i)']
            F(j) == [cls |-> interventions[j].cls,
                     target |-> interventions[j].target,
                     fence |-> interventions[j].fence, phase |-> PhaseOf(j)]
<1>1. /\ n \in Nat
      /\ DOMAIN interventions = 1..n
      /\ DOMAIN LeasesOf = 1..n
      /\ DOMAIN LeasesOf' = 1..n
      /\ DOMAIN new = 1..n
  BY LeasesShape DEF TypeOK, LeasesOf
<1>2. ASSUME NEW j \in 1..n PROVE LeasesOf'[j] = new[j]
  <2>1. /\ LeasesOf[j] = F(j)
        /\ LeasesOf'[j] = [F(j) EXCEPT !.phase = PhaseOf(j)']
    BY <1>1 DEF LeasesOf, SameIntervention
  <2>2. new[j] = IF j = i THEN [LeasesOf[j] EXCEPT !.phase = PhaseOf(j)']
                          ELSE LeasesOf[j]
    BY <1>1
  <2>3. j # i => PhaseOf(j)' = PhaseOf(j)
    BY <1>1
  <2>. QED
    BY <2>1, <2>2, <2>3
<1>. QED
  BY <1>1, <1>2 DEF LeasesOf

\* The changes of one phase that are steps of a lease.
LEMMA LeaseStep ==
    ASSUME TypeOK, TypeOK', NEW i \in DOMAIN interventions,
           Len(interventions') = Len(interventions),
           \A j \in DOMAIN interventions : SameIntervention(j),
           \A j \in DOMAIN interventions \ {i} : PhaseOf(j)' = PhaseOf(j),
           authority' = authority,
           \/ PhaseOf(i)' = PhaseOf(i)
           \/ PhaseOf(i) \in {"held", "redeemed"} /\ PhaseOf(i)' = "spent"
           \/ /\ PhaseOf(i) = "held"
              /\ PhaseOf(i)' = "redeemed"
              /\ interventions[i].fence
                    = MakeFence(authority, interventions[i].target)
    PROVE  [Promise!LeaseNext]_(Promise!leaseVars)
<1>1. LeasesOf' = [LeasesOf EXCEPT ![i].phase = PhaseOf(i)']
  BY OneLeaseChanged
<1>2. /\ i \in DOMAIN LeasesOf
      /\ LeasesOf[i].phase = PhaseOf(i)
      /\ LeasesOf[i].target = interventions[i].target
      /\ LeasesOf[i].fence = interventions[i].fence
  BY DEF LeasesOf
<1>3. CASE PhaseOf(i)' = PhaseOf(i)
  <2>1. LeasesOf' = LeasesOf
    BY <1>1, <1>2, <1>3, LeasesShape DEF Promise!Lease, TypeOK
  <2>. QED
    BY <2>1 DEF Promise!leaseVars
<1>4. CASE PhaseOf(i) = "held" /\ PhaseOf(i)' = "spent"
  BY <1>1, <1>2, <1>4 DEF Promise!LeaseNext, Promise!Withdraw
<1>5. CASE PhaseOf(i) = "redeemed" /\ PhaseOf(i)' = "spent"
  BY <1>1, <1>2, <1>5 DEF Promise!LeaseNext, Promise!Return
<1>6. CASE /\ PhaseOf(i) = "held"
           /\ PhaseOf(i)' = "redeemed"
           /\ interventions[i].fence
                 = MakeFence(authority, interventions[i].target)
  BY <1>1, <1>2, <1>6, SameNames DEF Promise!LeaseNext, Promise!Redeem
<1>. QED
  BY <1>3, <1>4, <1>5, <1>6

\* authorize() grants a lease under the generations in force.
LEMMA AuthorizeGrants ==
    ASSUME TypeOK, TypeOK', NEW k \in DOMAIN conflicts, NEW req \in Requests,
           Authorize(k, req)
    PROVE  Promise!Grant
<1>. DEFINE n == Len(interventions)
<1>1. PICK cls \in InterventionClass, target \in Workloads :
         interventions' = Append(interventions,
                                 NewIntervention(k, cls, target))
  BY AuthorizeStep
<1>. DEFINE iv == NewIntervention(k, cls, target)
            lease == [cls |-> cls, target |-> target,
                      fence |-> MakeFence(authority, target),
                      phase |-> "held"]
<1>2. /\ iv.cls = cls /\ iv.target = target
      /\ iv.fence = MakeFence(authority, target)
      /\ iv.state = "AUTHORIZED"
  BY DEF NewIntervention
<1>3. iv \in InterventionRecord
  BY NewInterventionType
<1>4. authority' = authority /\ calls' = calls
  BY DEF Authorize
<1>. HIDE DEF iv
<1>5. /\ n \in Nat
      /\ interventions \in Seq(InterventionRecord)
      /\ DOMAIN interventions = 1..n
      /\ calls \subseteq 1..n
  BY DEF TypeOK
<1>6. /\ Len(interventions') = n + 1
      /\ \A j \in 1..n : interventions'[j] = interventions[j]
      /\ interventions'[n + 1] = iv
  BY <1>1, <1>3, <1>5, AppendProperties DEF iv
<1>7. lease \in Promise!Lease
  BY FenceType, SameNames DEF Promise!Lease, Promise!Phase, TypeOK
<1>8. LeasesOf' = Append(LeasesOf, lease)
  <2>1. /\ Append(LeasesOf, lease) \in Seq(Promise!Lease)
        /\ Len(Append(LeasesOf, lease)) = n + 1
        /\ \A i \in 1..n : Append(LeasesOf, lease)[i] = LeasesOf[i]
        /\ Append(LeasesOf, lease)[n + 1] = lease
    BY <1>7, LeasesShape, AppendProperties
  <2>2. DOMAIN interventions' = 1..(n + 1)
    BY <1>6 DEF TypeOK
  <2>3. ASSUME NEW i \in 1..(n + 1)
        PROVE  LeasesOf'[i] = Append(LeasesOf, lease)[i]
    <3>1. LeasesOf'[i] = [cls |-> interventions'[i].cls,
                          target |-> interventions'[i].target,
                          fence |-> interventions'[i].fence,
                          phase |-> PhaseOf(i)']
      BY <2>2 DEF LeasesOf
    <3>2. CASE i = n + 1
      <4>1. PhaseOf(i)' = "held"
        BY <1>2, <1>4, <1>5, <1>6, <3>2 DEF PhaseOf
      <4>. QED
        BY <1>2, <1>6, <2>1, <3>1, <3>2, <4>1
    <3>3. CASE i \in 1..n
      <4>1. PhaseOf(i)' = PhaseOf(i)
        BY <1>4, <1>6, <3>3 DEF PhaseOf
      <4>. QED
        BY <1>6, <2>1, <3>1, <3>3, <4>1, LeasesShape
    <3>4. i = n + 1 \/ i \in 1..n
      BY <1>5
    <3>. QED
      BY <3>2, <3>3, <3>4
  <2>4. DOMAIN Append(LeasesOf, lease) = 1..(n + 1)
    BY <2>1
  <2>5. LeasesOf' = [i \in 1..(n + 1) |-> LeasesOf'[i]]
    BY <2>2 DEF LeasesOf
  <2>6. Append(LeasesOf, lease)
           = [i \in 1..(n + 1) |-> Append(LeasesOf, lease)[i]]
    BY <2>1
  <2>. QED
    BY <2>3, <2>5, <2>6
<1>. QED
  BY <1>4, <1>8, SameNames DEF Promise!Grant

\* What a callback or dispatch() writes is the state of one intervention.
LEMMA StateWritten ==
    ASSUME TypeOK, NEW i \in DOMAIN interventions, NEW s \in LifecycleState,
           interventions' = InState(i, s)
    PROVE  /\ Len(interventions') = Len(interventions)
           /\ interventions'[i].state = s
           /\ \A j \in DOMAIN interventions :
                 /\ SameIntervention(j)
                 /\ j # i => interventions'[j].state = interventions[j].state
<1>1. interventions[i] \in InterventionRecord
  BY DEF TypeOK
<1>2. /\ interventions[i].result \in VerificationOutcome
      /\ [interventions[i] EXCEPT !.state = s]
            = [interventions[i] EXCEPT !.state = s,
                                       !.result = interventions[i].result]
  BY <1>1 DEF InterventionRecord
<1>. QED
  BY <1>2, UpdatedIntervention DEF InState

\* advance_epoch() withdraws what is held and lets what is redeemed return.
LEMMA EpochWithdraws ==
    ASSUME TypeOK, AdvanceEpoch
    PROVE  Promise!NewEpoch
<1>. DEFINE new == [i \in DOMAIN LeasesOf |->
                      IF LeasesOf[i].phase = "held"
                      THEN [LeasesOf[i] EXCEPT !.phase = "spent"]
                      ELSE LeasesOf[i]]
<1>1. /\ DOMAIN interventions' = DOMAIN interventions
      /\ \A i \in DOMAIN interventions :
            interventions'[i] = OrphanedIntervention(interventions[i])
      /\ calls' = calls
      /\ authority' = [authority EXCEPT !.epoch = @ + 1]
  BY DEF AdvanceEpoch
<1>2. ASSUME NEW i \in DOMAIN interventions PROVE LeasesOf'[i] = new[i]
  <2>1. interventions[i] \in InterventionRecord
    BY DEF TypeOK
  <2>2. /\ interventions'[i].cls = interventions[i].cls
        /\ interventions'[i].target = interventions[i].target
        /\ interventions'[i].fence = interventions[i].fence
        /\ interventions'[i].state # "AUTHORIZED"
    BY <1>1, <2>1 DEF OrphanedIntervention, InterventionRecord
  <2>3. PhaseOf(i)' = IF PhaseOf(i) = "held" THEN "spent" ELSE PhaseOf(i)
    BY <1>1, <2>2 DEF PhaseOf
  <2>. QED
    BY <1>1, <2>2, <2>3 DEF LeasesOf
<1>3. LeasesOf' = new
  BY <1>1, <1>2 DEF LeasesOf
<1>. QED
  BY <1>1, <1>3 DEF Promise!NewEpoch

\* Every step of the governor is a step of the leases or leaves them alone.
LEMMA NextRefines ==
    ASSUME TypeOK, HandedOnce, [Next]_vars
    PROVE  [Promise!LeaseNext]_(Promise!leaseVars)
<1>. DEFINE Goal == [Promise!LeaseNext]_(Promise!leaseVars)
<1>1. TypeOK'
  BY NextType
<1>2. \A i \in DOMAIN interventions :
         interventions[i].state = "AUTHORIZED" => i \notin calls
  <2>1. \A i \in calls : handed[i] = 1
    BY DEF HandedOnce
  <2>. QED
    BY <2>1 DEF HandedOnce
<1>3. ASSUME NEW i \in DOMAIN interventions, DispatchBegin(i) PROVE Goal
  <2>1. /\ interventions' = InState(i, "DISPATCHED")
        /\ calls' = calls \cup {i}
        /\ authority' = authority
        /\ PhaseOf(i) = "held"
        /\ PhaseOf(i)' = "redeemed"
        /\ interventions[i].fence
              = MakeFence(authority, interventions[i].target)
    BY <1>2, <1>3 DEF DispatchBegin, PhaseOf, Revalidate
  <2>2. /\ Len(interventions') = Len(interventions)
        /\ \A j \in DOMAIN interventions :
              /\ SameIntervention(j)
              /\ j # i => interventions'[j].state = interventions[j].state
    BY <2>1, StateWritten DEF LifecycleState
  <2>3. \A j \in DOMAIN interventions \ {i} : PhaseOf(j)' = PhaseOf(j)
    BY <2>1, <2>2 DEF PhaseOf
  <2>. QED
    BY <1>1, <2>1, <2>2, <2>3, LeaseStep
<1>4. ASSUME NEW i \in DOMAIN interventions, NEW s \in LifecycleState,
             s # "AUTHORIZED",
             Len(interventions') = Len(interventions),
             interventions'[i].state = s,
             \A j \in DOMAIN interventions :
                /\ SameIntervention(j)
                /\ j # i => interventions'[j].state = interventions[j].state,
             calls' \in {calls, calls \ {i}},
             authority' = authority
      PROVE  Goal
  <2>1. \A j \in DOMAIN interventions \ {i} : PhaseOf(j)' = PhaseOf(j)
    BY <1>4 DEF PhaseOf
  <2>2. \/ PhaseOf(i)' = PhaseOf(i)
        \/ PhaseOf(i) \in {"held", "redeemed"} /\ PhaseOf(i)' = "spent"
    BY <1>4 DEF PhaseOf
  <2>. QED
    BY <1>1, <1>4, <2>1, <2>2, LeaseStep
<1>5. ASSUME NEW i \in DOMAIN interventions, NEW o,
             \/ DispatchRefused(i) \/ DispatchEnd(i, o)
             \/ OnAcknowledge(i) \/ OnActionFailed(i)
      PROVE  Goal
  <2>1. PICK s \in LifecycleState :
           s # "AUTHORIZED" /\ interventions' = InState(i, s)
    BY <1>5, AnsweredType
       DEF DispatchRefused, DispatchEnd, OnAcknowledge, OnActionFailed,
           LifecycleState
  <2>2. calls' \in {calls, calls \ {i}} /\ authority' = authority
    BY <1>5 DEF DispatchRefused, DispatchEnd, OnAcknowledge, OnActionFailed
  <2>. QED
    BY <1>4, <2>1, <2>2, StateWritten
<1>6. ASSUME NEW r \in Report, Verify(r) PROVE Goal
  <2>1. PICK i \in DOMAIN interventions, v \in VerificationOutcome :
           interventions' = [interventions EXCEPT ![i] =
              [interventions[i] EXCEPT !.state = LifecycleAfter(v),
                                       !.result = v]]
    BY <1>6, VerifyStep
  <2>2. LifecycleAfter(v) \in LifecycleState \ {"AUTHORIZED"}
    BY DEF LifecycleAfter, LifecycleState
  <2>3. calls' = calls /\ authority' = authority
    BY <1>6 DEF Verify
  <2>. QED
    BY <1>4, <2>1, <2>2, <2>3, UpdatedIntervention
<1>7. ASSUME UNCHANGED <<interventions, calls>> PROVE Goal
  <2>1. LeasesOf' = LeasesOf
    BY <1>7 DEF LeasesOf, PhaseOf
  <2>2. authority' \in Promise!AuthorityContext
    BY <1>1, SameNames DEF TypeOK
  <2>. QED
    BY <2>1, <2>2 DEF Promise!LeaseNext, Promise!ChangeAuthority
<1>8. \/ \E k \in DOMAIN conflicts, req \in Requests : Authorize(k, req)
      \/ \E i \in DOMAIN interventions : DispatchBegin(i)
      \/ \E i \in DOMAIN interventions, o \in AdapterOutcome :
            \/ DispatchRefused(i) \/ DispatchEnd(i, o)
            \/ OnAcknowledge(i) \/ OnActionFailed(i)
      \/ \E r \in Report : Verify(r)
      \/ AdvanceEpoch
      \/ UNCHANGED <<interventions, calls>>
  <2>1. \E o : o \in AdapterOutcome
    BY DEF AdapterOutcome
  <2>. QED
    BY <2>1, InputsAssumption
       DEF Next, vars, Followed, SetPolicy, SetAuthority, RecordWorkerBoot,
           RecordWorkloadGeneration, Tick, IngestNew, IngestKnown,
           ObserveOnly, ObserveUnmatched
<1>9. AdvanceEpoch => Goal
  BY EpochWithdraws DEF Promise!LeaseNext
<1>10. ASSUME NEW k \in DOMAIN conflicts, NEW req \in Requests, Authorize(k, req)
       PROVE  Goal
  BY <1>1, <1>10, AuthorizeGrants DEF Promise!LeaseNext
<1>. QED
  BY <1>3, <1>5, <1>6, <1>7, <1>8, <1>9, <1>10

\* Whatever callers, threads, adapters and restarts do, an intervention is a
\* lease: granted under the generations in force, redeemed once and only while
\* they are in force, withdrawn by a new epoch, and never given back.
THEOREM GovernorImplementsLeases == Spec => ImplementsLeases
<1>1. Init => Promise!LeaseInit
  <2>1. Init => authority \in Promise!AuthorityContext
    BY InitType, SameNames DEF TypeOK
  <2>2. Init => LeasesOf = << >>
    BY DEF Init, LeasesOf
  <2>. QED
    BY <2>1, <2>2 DEF Promise!LeaseInit
<1>2. TypeOK /\ HandedOnce /\ [Next]_vars
         => [Promise!LeaseNext]_(Promise!leaseVars)
  BY NextRefines
<1>. QED
  BY <1>1, <1>2, TypeCorrect, HandedOutOnce, PTL
     DEF Spec, ImplementsLeases, Promise!LeaseSpec
=============================================================================
