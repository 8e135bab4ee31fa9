--------------------------- MODULE GovernorProofs ---------------------------
(***************************************************************************)
(* Theorems about Governor for every value of its constants: any reports,  *)
(* policies, contexts, requests and bounds that satisfy its assumptions.   *)
(***************************************************************************)
EXTENDS Governor, SequenceTheorems, TLAPS

-----------------------------------------------------------------------------
(* Values. *)

\* Rewriting every element of a sequence yields a sequence as long.
LEMMA MappedSeq ==
    ASSUME NEW S, NEW n \in Nat, NEW f \in [1..n -> S]
    PROVE  f \in Seq(S) /\ Len(f) = n
  OBVIOUS

\* compute_degradation returns a number, whatever the report says.
LEMMA DegradationType ==
    ASSUME NEW m, NEW b \in Int, NEW o \in Int
    PROVE  Degradation(m, b, o) \in Int
<1>. DEFINE loss == IF m = "HIGHER_IS_BETTER" THEN b - o ELSE o - b
<1>1. loss \in Int
  OBVIOUS
<1>2. CASE b <= 0 \/ loss <= 0
  BY <1>2 DEF Degradation
<1>3. CASE ~(b <= 0 \/ loss <= 0)
  <2>1. \A n \in Int, d \in Int : d > 0 => n \div d \in Int
    OBVIOUS
  <2>2. Degradation(m, b, o) = (100 * loss) \div b
    BY <1>3 DEF Degradation
  <2>3. 100 * loss \in Int /\ b > 0
    BY <1>1, <1>3
  <2>. QED
    BY <2>1, <2>2, <2>3
<1>. QED
  BY <1>2, <1>3

\* What is stored of a report is a report.
LEMMA AdmittedType ==
    ASSUME nextEvidenceId \in Nat \ {0}, NEW r \in Report
    PROVE  /\ Admitted(r) \in Report
           /\ Admitted(r).victim = r.victim
           /\ Admitted(r).domain = r.domain
           /\ Admitted(r).neighbors = r.neighbors
           /\ Admitted(r).status = r.status
<1>1. Degradation(r.metric, r.baseline, r.observation) \in Int
  BY DegradationType DEF Report
<1>2. (IF r.id = 0 THEN nextEvidenceId ELSE r.id) \in Nat
  BY DEF Report
<1>. QED
  BY <1>1, <1>2 DEF Admitted, Report

\* Storing a report keeps the evidence map well formed and loses no id.
LEMMA StoreType ==
    ASSUME DOMAIN evidence \subseteq Nat, evidence \in [DOMAIN evidence -> Report],
           nextEvidenceId \in Nat \ {0},
           NEW r \in Report, StoreEvidence(r)
    PROVE  /\ DOMAIN evidence' \subseteq Nat
           /\ evidence' \in [DOMAIN evidence' -> Report]
           /\ nextEvidenceId' \in Nat \ {0}
           /\ DOMAIN evidence' = DOMAIN evidence \cup {Admitted(r).id}
<1>. DEFINE e == Admitted(r)
<1>1. e \in Report /\ e.id \in Nat
  BY AdmittedType DEF Report
<1>2. evidence' = [id \in DOMAIN evidence \cup {e.id} |->
                     IF id = e.id THEN e ELSE evidence[id]]
  BY DEF StoreEvidence
<1>3. DOMAIN evidence' = DOMAIN evidence \cup {e.id}
  BY <1>2
<1>4. nextEvidenceId' \in Nat \ {0}
  BY DEF StoreEvidence
<1>5. \A id \in DOMAIN evidence' : evidence'[id] \in Report
  BY <1>1, <1>2, <1>3
<1>6. evidence' \in [DOMAIN evidence' -> Report]
  BY <1>2, <1>5
<1>. QED
  BY <1>1, <1>3, <1>4, <1>6

\* The fence made for a known target.
LEMMA FenceType ==
    ASSUME NEW a \in AuthorityContext, NEW t \in Workloads
    PROVE  MakeFence(a, t) \in Fence
  BY DEF MakeFence, AuthorityContext, Fence

\* The record authorize appends.
LEMMA NewInterventionType ==
    ASSUME TypeOK, NEW k \in DOMAIN conflicts, NEW cls \in InterventionClass,
           NEW target \in Workloads
    PROVE  NewIntervention(k, cls, target) \in InterventionRecord
<1>1. MakeFence(authority, target) \in Fence
  BY FenceType DEF TypeOK
<1>2. k \in Nat /\ now \in Nat
  BY DEF TypeOK
<1>. QED
  BY <1>1, <1>2 DEF NewIntervention, InterventionRecord, LifecycleState,
                    VerificationOutcome

\* A decision names a class and a workload.
LEMMA DecisionType ==
    ASSUME NEW p, NEW a, NEW ev, NEW f, NEW c,
           NEW pick \in Decisions(p, a, ev, f, c)
    PROVE  pick \in Candidate
  BY DEF Decisions, Best, FeasibleCandidates, Candidates

\* Every class is charged to a counter.
LEMMA CounterType ==
    ASSUME NEW cls
    PROVE  BudgetCounter(cls) \in Counter
  BY DEF BudgetCounter, Counter, Capped

\* consume_budget keeps the limits and yields counters.
LEMMA ConsumeType ==
    ASSUME NEW b \in ActionBudget, NEW cls, NEW t \in Nat
    PROVE  /\ ConsumeBudget(b, cls, t) \in ActionBudget
           /\ ConsumeBudget(b, cls, t).max = b.max
<1>1. /\ RolledWindow(b, t) \in ActionBudget
      /\ RolledWindow(b, t).max = b.max
  BY DEF RolledWindow, ActionBudget, NoneUsed
<1>2. [k \in Counter |-> IF k \in {BudgetCounter(cls), "all"}
                         THEN RolledWindow(b, t).used[k] + 1
                         ELSE RolledWindow(b, t).used[k]] \in [Counter -> Nat]
  BY <1>1 DEF ActionBudget
<1>. QED
  BY <1>1, <1>2 DEF ConsumeBudget, ActionBudget

-----------------------------------------------------------------------------
(* Conflicts and interventions. *)

\* The progression by evidence health only touches the state of a conflict.
LEMMA ProgressedType ==
    ASSUME NEW c \in ContentionConflict, NEW e
    PROVE  /\ Progressed(c, e) \in ContentionConflict
           /\ Progressed(c, e).victim = c.victim
           /\ Progressed(c, e).domain = c.domain
           /\ Progressed(c, e).evidenceIds = c.evidenceIds
<1>. DEFINE s == CASE e.status = "CURRENT"
                      /\ c.degradation >= policy.actionability -> "ACTIONABLE"
                   [] e.status = "CURRENT"
                      /\ c.degradation < policy.actionability -> "VALIDATING"
                   [] e.status \in {"CONFOUNDED", "INSUFFICIENT_EVIDENCE"} ->
                         "UNRESOLVED"
                   [] e.status = "REVALIDATION_REQUIRED" ->
                         "REVALIDATION_REQUIRED"
                   [] OTHER -> c.state
<1>1. s \in ConflictState
  BY DEF ConflictState, ContentionConflict
<1>2. Progressed(c, e) = [c EXCEPT !.state = s]
  BY DEF Progressed
<1>. QED
  BY <1>1, <1>2 DEF ContentionConflict

\* A new conflict lists the report it was created for, and nothing else.
LEMMA NewConflictType ==
    ASSUME NEW e \in Report
    PROVE  /\ NewConflict(e) \in ContentionConflict
           /\ NewConflict(e).evidenceIds = <<e.id>>
           /\ NewConflict(e).victim = e.victim
           /\ NewConflict(e).domain = e.domain
  BY DEF NewConflict, ContentionConflict, ConflictState, Report

\* One more report on a conflict: victim and domain stay, the id is listed.
LEMMA WithEvidenceType ==
    ASSUME NEW c \in ContentionConflict, NEW e \in Report
    PROVE  /\ WithEvidence(c, e) \in ContentionConflict
           /\ WithEvidence(c, e).evidenceIds = Append(c.evidenceIds, e.id)
           /\ WithEvidence(c, e).victim = c.victim
           /\ WithEvidence(c, e).domain = c.domain
<1>1. c.evidenceIds \in Seq(Nat) /\ e.id \in Nat
  BY DEF ContentionConflict, Report
<1>2. Append(c.evidenceIds, e.id) \in Seq(Nat)
  BY <1>1, AppendProperties
<1>3. (IF e.degradation > c.degradation THEN e.degradation
                                       ELSE c.degradation) \in Int
  BY DEF ContentionConflict, Report
<1>. QED
  BY <1>2, <1>3 DEF WithEvidence, ContentionConflict, Report

\* The same for an observation after an action.
LEMMA ObservedType ==
    ASSUME NEW c \in ContentionConflict, NEW e \in Report
    PROVE  /\ Observed(c, e) \in ContentionConflict
           /\ Observed(c, e).evidenceIds = Append(c.evidenceIds, e.id)
           /\ Observed(c, e).victim = c.victim
           /\ Observed(c, e).domain = c.domain
<1>1. c.evidenceIds \in Seq(Nat) /\ e.id \in Nat
  BY DEF ContentionConflict, Report
<1>2. Append(c.evidenceIds, e.id) \in Seq(Nat)
  BY <1>1, AppendProperties
<1>. QED
  BY <1>2 DEF Observed, ContentionConflict, Report

\* Writing a state leaves the records and their number alone.
LEMMA InStateType ==
    ASSUME interventions \in Seq(InterventionRecord),
           NEW i \in DOMAIN interventions, NEW s \in LifecycleState
    PROVE  /\ InState(i, s) \in Seq(InterventionRecord)
           /\ Len(InState(i, s)) = Len(interventions)
           /\ DOMAIN InState(i, s) = DOMAIN interventions
           /\ InState(i, s)[i].state = s
           /\ \A j \in DOMAIN interventions :
                 /\ j # i => InState(i, s)[j] = interventions[j]
                 /\ InState(i, s)[j].fence = interventions[j].fence
<1>1. DOMAIN interventions = 1..Len(interventions)
  OBVIOUS
<1>2. interventions[i] \in InterventionRecord
  BY <1>1, ElementOfSeq
<1>3. InState(i, s) = [interventions EXCEPT
                         ![i] = [interventions[i] EXCEPT !.state = s]]
  BY DEF InState
<1>4. [interventions[i] EXCEPT !.state = s] \in InterventionRecord
  BY <1>2 DEF InterventionRecord
<1>5. /\ InState(i, s) \in Seq(InterventionRecord)
      /\ Len(InState(i, s)) = Len(interventions)
      /\ \A j \in 1..Len(interventions) :
            InState(i, s)[j] = IF j = i THEN [interventions[i] EXCEPT !.state = s]
                                        ELSE interventions[j]
  BY <1>1, <1>3, <1>4, ExceptSeq
<1>6. DOMAIN InState(i, s) = DOMAIN interventions
  BY <1>1, <1>5
<1>7. /\ [interventions[i] EXCEPT !.state = s].state = s
      /\ [interventions[i] EXCEPT !.state = s].fence = interventions[i].fence
  BY <1>2 DEF InterventionRecord
<1>8. InState(i, s)[i] = [interventions[i] EXCEPT !.state = s]
  BY <1>1, <1>5
<1>9. ASSUME NEW j \in DOMAIN interventions, j # i
      PROVE  InState(i, s)[j] = interventions[j]
  BY <1>1, <1>5, <1>9
<1>. QED
  BY <1>5, <1>6, <1>7, <1>8, <1>9

\* Whatever an adapter answers leads to a lifecycle state.
LEMMA AnsweredType ==
    ASSUME NEW o
    PROVE  Answered(o) \in {"ACKNOWLEDGED", "OUTCOME_UNKNOWN", "FAILED"}
  BY DEF Answered

-----------------------------------------------------------------------------
(* Type correctness: the operations on policy, authority and time. *)

\* The constructor's state is well typed.
LEMMA InitType == ASSUME Init PROVE TypeOK
<1>1. policy \in ContentionPolicy
  BY InputsAssumption DEF Init
<1>2. policy.generation \in Nat
  BY <1>1 DEF ContentionPolicy
<1>3. authority \in AuthorityContext
  BY <1>2, InputsAssumption DEF Init, AuthorityContext
<1>4. DOMAIN evidence \subseteq Nat /\ evidence \in [DOMAIN evidence -> Report]
  BY DEF Init
<1>5. /\ conflicts \in Seq(ContentionConflict)
      /\ interventions \in Seq(InterventionRecord)
      /\ handed \in Seq(Nat)
      /\ Len(handed) = Len(interventions)
      /\ calls \subseteq DOMAIN interventions
  BY EmptySeq DEF Init
<1>6. fairness \in [Workloads -> FairnessRecord]
  BY DEF Init, FairnessRecord
<1>7. nextEvidenceId \in Nat \ {0} /\ now \in Nat
  BY InputsAssumption DEF Init
<1>. QED
  BY <1>1, <1>3, <1>4, <1>5, <1>6, <1>7 DEF TypeOK

\* set_policy keeps the types: only a valid policy is taken.
LEMMA SetPolicyType ==
    ASSUME TypeOK, NEW p \in Policies, SetPolicy(p) PROVE TypeOK'
<1>1. p \in ContentionPolicy /\ p.generation \in Nat
  BY InputsAssumption DEF ContentionPolicy
<1>2. authority' \in AuthorityContext
  BY <1>1 DEF SetPolicy, TypeOK, AuthorityContext
<1>. QED
  BY <1>1, <1>2 DEF SetPolicy, TypeOK

\* set_authority keeps the types.
LEMMA SetAuthorityType ==
    ASSUME TypeOK, NEW a \in Authorities, SetAuthority(a) PROVE TypeOK'
  BY InputsAssumption DEF SetAuthority, TypeOK

\* A new boot or generation of a worker keeps the types.
LEMMA RecordType ==
    ASSUME TypeOK, NEW w \in Workloads, NEW n \in Nat,
           RecordWorkerBoot(w, n) \/ RecordWorkloadGeneration(w, n)
    PROVE  TypeOK'
<1>1. authority \in AuthorityContext
  BY DEF TypeOK
<1>2. CASE RecordWorkerBoot(w, n)
  <2>1. authority' = [authority EXCEPT !.boots =
                                      [authority.boots EXCEPT ![w] = n]]
    BY <1>2 DEF RecordWorkerBoot
  <2>2. [authority.boots EXCEPT ![w] = n] \in [Workloads -> Nat]
    BY <1>1 DEF AuthorityContext
  <2>3. authority' \in AuthorityContext
    BY <1>1, <2>1, <2>2 DEF AuthorityContext
  <2>. QED
    BY <1>2, <2>3 DEF RecordWorkerBoot, TypeOK
<1>3. CASE RecordWorkloadGeneration(w, n)
  <2>1. authority' = [authority EXCEPT !.generations =
                                      [authority.generations EXCEPT ![w] = n]]
    BY <1>3 DEF RecordWorkloadGeneration
  <2>2. [authority.generations EXCEPT ![w] = n] \in [Workloads -> Nat]
    BY <1>1 DEF AuthorityContext
  <2>3. authority' \in AuthorityContext
    BY <1>1, <2>1, <2>2 DEF AuthorityContext
  <2>. QED
    BY <1>3, <2>3 DEF RecordWorkloadGeneration, TypeOK
<1>. QED
  BY <1>2, <1>3

\* Time that passes keeps the types.
LEMMA TickType ==
    ASSUME TypeOK, NEW delta \in Advances, Tick(delta) PROVE TypeOK'
  BY InputsAssumption DEF Tick, TypeOK

\* advance_epoch rewrites every record in place: as many of each, of the same
\* kind.
LEMMA AdvanceEpochType ==
    ASSUME TypeOK, AdvanceEpoch PROVE TypeOK'
<1>1. authority' \in AuthorityContext
  <2>1. authority \in AuthorityContext /\ authority.epoch + 1 \in Nat
    BY DEF TypeOK, AuthorityContext
  <2>2. authority' = [authority EXCEPT !.epoch = authority.epoch + 1]
    BY DEF AdvanceEpoch
  <2>. QED
    BY <2>1, <2>2 DEF AuthorityContext
<1>2. DOMAIN evidence' \subseteq Nat /\ evidence' \in [DOMAIN evidence' -> Report]
  <2>1. ASSUME NEW e \in Report PROVE SuspendedEvidence(e) \in Report
    BY DEF SuspendedEvidence, Report, EvidenceStatus
  <2>. QED
    BY <2>1 DEF AdvanceEpoch, TypeOK
<1>3. conflicts' \in Seq(ContentionConflict)
  <2>1. ASSUME NEW c \in ContentionConflict
        PROVE  SuspendedConflict(c) \in ContentionConflict
    BY DEF SuspendedConflict, ContentionConflict, ConflictState
  <2>2. conflicts \in Seq(ContentionConflict)
    BY DEF TypeOK
  <2>3. conflicts' \in [1..Len(conflicts) -> ContentionConflict]
    BY <2>1, <2>2, ElementOfSeq DEF AdvanceEpoch
  <2>. QED
    BY <2>2, <2>3, MappedSeq
<1>4. /\ interventions' \in Seq(InterventionRecord)
      /\ Len(interventions') = Len(interventions)
      /\ DOMAIN interventions' = DOMAIN interventions
  <2>1. ASSUME NEW iv \in InterventionRecord
        PROVE  OrphanedIntervention(iv) \in InterventionRecord
    BY DEF OrphanedIntervention, InterventionRecord, LifecycleState
  <2>2. interventions \in Seq(InterventionRecord)
    BY DEF TypeOK
  <2>3. interventions' \in [1..Len(interventions) -> InterventionRecord]
    BY <2>1, <2>2, ElementOfSeq DEF AdvanceEpoch
  <2>. QED
    BY <2>2, <2>3, MappedSeq
<1>5. fairness' \in [Workloads -> FairnessRecord]
  BY DEF AdvanceEpoch, TypeOK, ForgivenBurden, FairnessRecord
<1>. QED
  BY <1>1, <1>2, <1>3, <1>4, <1>5 DEF AdvanceEpoch, TypeOK

-----------------------------------------------------------------------------
(* Type correctness: evidence, authorization and dispatch. *)

\* ingest_evidence keeps the types when it creates a conflict ...
LEMMA IngestNewType ==
    ASSUME TypeOK, NEW r \in Report, IngestNew(r) PROVE TypeOK'
<1>. DEFINE e == Admitted(r)
            c == Progressed(NewConflict(e), e)
<1>1. e \in Report
  BY AdmittedType DEF TypeOK
<1>2. c \in ContentionConflict
  BY <1>1, NewConflictType, ProgressedType
<1>3. conflicts' = Append(conflicts, c)
  BY DEF IngestNew
<1>4. conflicts' \in Seq(ContentionConflict)
  BY <1>2, <1>3, AppendProperties DEF TypeOK
<1>5. /\ DOMAIN evidence' \subseteq Nat
      /\ evidence' \in [DOMAIN evidence' -> Report]
      /\ nextEvidenceId' \in Nat \ {0}
  BY StoreType DEF IngestNew, TypeOK
<1>. QED
  BY <1>4, <1>5 DEF IngestNew, TypeOK

\* ... and when it extends one.
LEMMA IngestKnownType ==
    ASSUME TypeOK, NEW r \in Report, IngestKnown(r) PROVE TypeOK'
<1>. DEFINE e == Admitted(r)
<1>1. e \in Report
  BY AdmittedType DEF TypeOK
<1>2. PICK k \in Matching(r) :
         conflicts' = [conflicts EXCEPT
                         ![k] = Progressed(WithEvidence(conflicts[k], e), e)]
  BY DEF IngestKnown
<1>3. k \in 1..Len(conflicts) /\ conflicts[k] \in ContentionConflict
  BY DEF Matching, TypeOK
<1>4. Progressed(WithEvidence(conflicts[k], e), e) \in ContentionConflict
  BY <1>1, <1>3, WithEvidenceType, ProgressedType
<1>5. conflicts' \in Seq(ContentionConflict)
  BY <1>2, <1>3, <1>4, ExceptSeq DEF TypeOK
<1>6. /\ DOMAIN evidence' \subseteq Nat
      /\ evidence' \in [DOMAIN evidence' -> Report]
      /\ nextEvidenceId' \in Nat \ {0}
  BY StoreType DEF IngestKnown, TypeOK
<1>. QED
  BY <1>5, <1>6 DEF IngestKnown, TypeOK

\* What an authorization writes, in terms of the class and the target it
\* settled on: the facts the invariants below need of Authorize.
LEMMA AuthorizeStep ==
    ASSUME TypeOK, NEW k \in DOMAIN conflicts, NEW req \in Requests,
           Authorize(k, req)
    PROVE  \E cls \in InterventionClass, target \in Workloads :
              /\ Feasible(policy, authority, fairness, target, cls,
                          MakeFence(authority, target))
              /\ Evaluable(policy, evidence, conflicts[k])
              /\ ~BudgetExhausted(policy.budget, cls)
              /\ CooledDown(target, cls)
              /\ interventions' = Append(interventions,
                                         NewIntervention(k, cls, target))
              /\ policy' = [policy EXCEPT !.budget =
                              ConsumeBudget(policy.budget, cls, now)]
              /\ fairness' = [fairness EXCEPT
                                ![target] = Burdened(fairness[target])]
<1>1. PICK pick \in Decisions(policy, authority, evidence, fairness,
                              conflicts[k]) :
         LET cls    == Chosen(pick, req)
             target == pick.target
         IN  /\ Feasible(policy, authority, fairness, target, cls,
                         MakeFence(authority, target))
             /\ ~BudgetExhausted(policy.budget, cls)
             /\ CooledDown(target, cls)
             /\ interventions' = Append(interventions,
                                        NewIntervention(k, cls, target))
             /\ policy' = [policy EXCEPT !.budget =
                             ConsumeBudget(policy.budget, cls, now)]
             /\ fairness' = [fairness EXCEPT
                               ![target] = Burdened(fairness[target])]
  BY DEF Authorize, Permitted
<1>2. pick.target \in Workloads /\ Chosen(pick, req) \in InterventionClass
  BY DecisionType, InputsAssumption DEF Candidate, Chosen
<1>3. Evaluable(policy, evidence, conflicts[k])
  BY DEF Decisions
<1>. QED
  BY <1>1, <1>2, <1>3

\* authorize keeps the types.
LEMMA AuthorizeType ==
    ASSUME TypeOK, NEW k \in DOMAIN conflicts, NEW req \in Requests,
           Authorize(k, req)
    PROVE  TypeOK'
<1>1. PICK cls \in InterventionClass, target \in Workloads :
         /\ interventions' = Append(interventions,
                                    NewIntervention(k, cls, target))
         /\ policy' = [policy EXCEPT !.budget =
                         ConsumeBudget(policy.budget, cls, now)]
         /\ fairness' = [fairness EXCEPT
                           ![target] = Burdened(fairness[target])]
  BY AuthorizeStep
<1>2. k \in Nat
  BY DEF TypeOK
<1>3. NewIntervention(k, cls, target) \in InterventionRecord
  BY <1>2, NewInterventionType
<1>4. /\ interventions' \in Seq(InterventionRecord)
      /\ Len(interventions') = Len(interventions) + 1
  BY <1>1, <1>3, AppendProperties DEF TypeOK
<1>5. policy' \in ContentionPolicy
  <2>1. policy \in ContentionPolicy /\ policy.budget \in ActionBudget
    BY DEF TypeOK, ContentionPolicy
  <2>2. ConsumeBudget(policy.budget, cls, now) \in ActionBudget
    BY <2>1, ConsumeType DEF TypeOK
  <2>. QED
    BY <1>1, <2>1, <2>2 DEF ContentionPolicy
<1>6. fairness' \in [Workloads -> FairnessRecord]
  <2>. DEFINE f == fairness[target]
  <2>1. f \in FairnessRecord /\ now \in Nat
    BY DEF TypeOK
  <2>2. f.interventionCount + 1 \in Nat /\ f.consecutive + 1 \in Nat
    BY <2>1 DEF FairnessRecord
  <2>3. Burdened(f) \in FairnessRecord
    BY <2>1, <2>2 DEF Burdened, FairnessRecord
  <2>. QED
    BY <1>1, <2>3 DEF TypeOK
<1>7. conflicts' \in Seq(ContentionConflict)
  <2>. DEFINE c == conflicts[k]
              ids == Append(c.selectedIds, Len(interventions) + 1)
  <2>1. c \in ContentionConflict /\ k \in 1..Len(conflicts)
    BY DEF TypeOK
  <2>2. ids \in Seq(Nat)
    BY <2>1, AppendProperties DEF ContentionConflict, TypeOK
  <2>3. [c EXCEPT !.state = "INTERVENTION_AUTHORIZED", !.selectedIds = ids]
           \in ContentionConflict
    BY <2>1, <2>2 DEF ContentionConflict, ConflictState
  <2>4. conflicts' = [conflicts EXCEPT ![k] =
           [c EXCEPT !.state = "INTERVENTION_AUTHORIZED", !.selectedIds = ids]]
    BY <2>1 DEF Authorize, Selected, TypeOK
  <2>. QED
    BY <2>1, <2>3, <2>4, ExceptSeq DEF TypeOK
<1>8. /\ handed' \in Seq(Nat)
      /\ Len(handed') = Len(handed) + 1
  BY AppendProperties DEF Authorize, TypeOK
<1>9. calls' \subseteq DOMAIN interventions'
  BY <1>4 DEF Authorize, TypeOK
<1>. QED
  BY <1>4, <1>5, <1>6, <1>7, <1>8, <1>9 DEF Authorize, TypeOK

\* Both sections of dispatch, the acknowledgement and the failure keep the
\* types: each rewrites the state of one intervention.
LEMMA DispatchType ==
    ASSUME TypeOK, NEW i \in DOMAIN interventions, NEW o,
           \/ DispatchBegin(i) \/ DispatchRefused(i) \/ DispatchEnd(i, o)
           \/ OnAcknowledge(i) \/ OnActionFailed(i)
    PROVE  TypeOK'
<1>1. PICK s \in LifecycleState : interventions' = InState(i, s)
  BY AnsweredType
     DEF DispatchBegin, DispatchRefused, DispatchEnd, OnAcknowledge,
         OnActionFailed, LifecycleState
<1>2. /\ interventions' \in Seq(InterventionRecord)
      /\ Len(interventions') = Len(interventions)
      /\ DOMAIN interventions' = DOMAIN interventions
  BY <1>1, InStateType DEF TypeOK
<1>3. calls' \subseteq DOMAIN interventions'
  BY <1>2 DEF DispatchBegin, DispatchRefused, DispatchEnd, OnAcknowledge,
              OnActionFailed, TypeOK
<1>4. handed' \in Seq(Nat) /\ Len(handed') = Len(handed)
  <2>1. i \in 1..Len(handed) /\ handed[i] + 1 \in Nat
    BY DEF TypeOK
  <2>2. CASE handed' = [handed EXCEPT ![i] = handed[i] + 1]
    BY <2>1, <2>2, ExceptSeq DEF TypeOK
  <2>3. CASE handed' = handed
    BY <2>3 DEF TypeOK
  <2>. QED
    BY <2>2, <2>3 DEF DispatchBegin, DispatchRefused, DispatchEnd,
                      OnAcknowledge, OnActionFailed
<1>. QED
  BY <1>2, <1>3, <1>4
     DEF DispatchBegin, DispatchRefused, DispatchEnd, OnAcknowledge,
         OnActionFailed, TypeOK

-----------------------------------------------------------------------------
(* Type correctness: verification. *)

\* Every classification has a lifecycle state and a conflict state.
LEMMA OutcomeType ==
    ASSUME NEW k, NEW t, NEW before \in Int, NEW after \in Int
    PROVE  /\ Outcome(k, t, before, after) \in VerificationOutcome
           /\ \A v \in VerificationOutcome :
                 /\ LifecycleAfter(v) \in {"EFFECTIVE", "PARTIALLY_EFFECTIVE",
                                          "INEFFECTIVE"}
                 /\ ConflictAfter(v) \in {"RESOLVED", "PARTIALLY_RESOLVED",
                                         "UNRESOLVED"}
  BY DEF Outcome, VerificationOutcome, LifecycleAfter, ConflictAfter

\* What a verification writes: the facts the invariants need of Verify.
LEMMA VerifyStep ==
    ASSUME TypeOK, NEW r \in Report, Verify(r)
    PROVE  \E k \in Matching(r), i \in DOMAIN interventions,
              v \in VerificationOutcome :
              /\ IsConflictOf(r, k)
              /\ IsVerified(k, i)
              /\ v = Outcome(k, interventions[i].target,
                            conflicts[k].degradation, Admitted(r).degradation)
              /\ conflicts' = [conflicts EXCEPT ![k] =
                    [Observed(conflicts[k], Admitted(r)) EXCEPT
                        !.state = ConflictAfter(v)]]
              /\ interventions' = [interventions EXCEPT ![i] =
                    [interventions[i] EXCEPT !.state = LifecycleAfter(v),
                                             !.result = v]]
              /\ fairness' = IF v = "RESOLVED"
                             THEN [fairness EXCEPT
                                     ![interventions[i].target] =
                                     ForgivenBurden(
                                         fairness[interventions[i].target])]
                             ELSE fairness
<1>. DEFINE e == Admitted(r)
            v(k, i) == Outcome(k, interventions[i].target,
                               conflicts[k].degradation, e.degradation)
<1>1. PICK k \in Matching(r), i \in DOMAIN interventions :
         /\ IsConflictOf(r, k)
         /\ IsVerified(k, i)
         /\ conflicts' = [conflicts EXCEPT ![k] =
               [Observed(conflicts[k], e) EXCEPT
                   !.state = ConflictAfter(v(k, i))]]
         /\ interventions' = [interventions EXCEPT
               ![i].state = LifecycleAfter(v(k, i)), ![i].result = v(k, i)]
         /\ fairness' = IF v(k, i) = "RESOLVED"
                        THEN [fairness EXCEPT
                                ![interventions[i].target] =
                                ForgivenBurden(
                                    fairness[interventions[i].target])]
                        ELSE fairness
  BY DEF Verify
<1>2. v(k, i) \in VerificationOutcome
  <2>1. e \in Report /\ e.degradation \in Int
    BY AdmittedType DEF TypeOK, Report
  <2>2. conflicts[k] \in ContentionConflict
    BY DEF Matching, TypeOK
  <2>. QED
    BY <2>1, <2>2, OutcomeType DEF ContentionConflict
<1>3. interventions' = [interventions EXCEPT ![i] =
         [interventions[i] EXCEPT !.state = LifecycleAfter(v(k, i)),
                                  !.result = v(k, i)]]
  BY <1>1 DEF TypeOK
<1>. HIDE DEF v
<1>4. v(k, i) = Outcome(k, interventions[i].target, conflicts[k].degradation,
                        e.degradation)
  BY DEF v
<1>. QED
  BY <1>1, <1>2, <1>3, <1>4

\* submit_post_action_evidence keeps the types when it closes an intervention ...
LEMMA VerifyType ==
    ASSUME TypeOK, NEW r \in Report, Verify(r) PROVE TypeOK'
<1>. DEFINE e == Admitted(r)
<1>1. PICK k \in Matching(r), i \in DOMAIN interventions,
           v \in VerificationOutcome :
         /\ IsConflictOf(r, k)
         /\ IsVerified(k, i)
         /\ v = Outcome(k, interventions[i].target, conflicts[k].degradation,
                       e.degradation)
         /\ conflicts' = [conflicts EXCEPT ![k] =
               [Observed(conflicts[k], e) EXCEPT !.state = ConflictAfter(v)]]
         /\ interventions' = [interventions EXCEPT ![i] =
               [interventions[i] EXCEPT !.state = LifecycleAfter(v),
                                        !.result = v]]
         /\ fairness' = IF v = "RESOLVED"
                        THEN [fairness EXCEPT
                                ![interventions[i].target] =
                                ForgivenBurden(
                                    fairness[interventions[i].target])]
                        ELSE fairness
  BY VerifyStep
<1>2. /\ DOMAIN evidence' \subseteq Nat
      /\ evidence' \in [DOMAIN evidence' -> Report]
      /\ nextEvidenceId' \in Nat \ {0}
  BY StoreType DEF Verify, TypeOK
<1>3. /\ LifecycleAfter(v) \in LifecycleState
      /\ ConflictAfter(v) \in ConflictState
  BY DEF LifecycleAfter, ConflictAfter, LifecycleState, ConflictState
<1>4. conflicts' \in Seq(ContentionConflict)
  <2>1. k \in 1..Len(conflicts) /\ conflicts[k] \in ContentionConflict
    BY DEF Matching, TypeOK
  <2>2. Observed(conflicts[k], e) \in ContentionConflict
    BY <2>1, AdmittedType, ObservedType DEF TypeOK
  <2>3. [Observed(conflicts[k], e) EXCEPT !.state = ConflictAfter(v)]
           \in ContentionConflict
    BY <1>3, <2>2 DEF ContentionConflict
  <2>. QED
    BY <1>1, <2>1, <2>3, ExceptSeq DEF TypeOK
<1>5. i \in 1..Len(interventions) /\ interventions[i] \in InterventionRecord
  BY ElementOfSeq DEF TypeOK
<1>6. /\ interventions' \in Seq(InterventionRecord)
      /\ Len(interventions') = Len(interventions)
      /\ DOMAIN interventions' = DOMAIN interventions
  <2>1. [interventions[i] EXCEPT !.state = LifecycleAfter(v), !.result = v]
           \in InterventionRecord
    BY <1>3, <1>5 DEF InterventionRecord
  <2>. QED
    BY <1>1, <1>5, <2>1, ExceptSeq DEF TypeOK
<1>7. fairness' \in [Workloads -> FairnessRecord]
  <2>1. ASSUME NEW f \in FairnessRecord
        PROVE  ForgivenBurden(f) \in FairnessRecord
    BY DEF ForgivenBurden, FairnessRecord
  <2>2. interventions[i].target \in Workloads
    BY <1>5 DEF InterventionRecord
  <2>. QED
    BY <1>1, <2>1, <2>2 DEF TypeOK
<1>. QED
  BY <1>2, <1>4, <1>6, <1>7 DEF Verify, TypeOK

\* ... and when it only records the report.
LEMMA ObserveType ==
    ASSUME TypeOK, NEW r \in Report, ObserveOnly(r) \/ ObserveUnmatched(r)
    PROVE  TypeOK'
<1>1. /\ DOMAIN evidence' \subseteq Nat
      /\ evidence' \in [DOMAIN evidence' -> Report]
      /\ nextEvidenceId' \in Nat \ {0}
  BY StoreType DEF ObserveOnly, ObserveUnmatched, TypeOK
<1>2. CASE ObserveOnly(r)
  <2>1. PICK k \in Matching(r) :
           conflicts' = [conflicts EXCEPT
                           ![k] = Observed(conflicts[k], Admitted(r))]
    BY <1>2 DEF ObserveOnly
  <2>2. k \in 1..Len(conflicts) /\ conflicts[k] \in ContentionConflict
    BY DEF Matching, TypeOK
  <2>3. Observed(conflicts[k], Admitted(r)) \in ContentionConflict
    BY <2>2, AdmittedType, ObservedType DEF TypeOK
  <2>4. conflicts' \in Seq(ContentionConflict)
    BY <2>1, <2>2, <2>3, ExceptSeq DEF TypeOK
  <2>. QED
    BY <1>1, <1>2, <2>4 DEF ObserveOnly, TypeOK
<1>3. CASE ObserveUnmatched(r)
  BY <1>1, <1>3 DEF ObserveUnmatched, TypeOK
<1>. QED
  BY <1>2, <1>3

\* Every step keeps every variable within its type.
LEMMA NextType == ASSUME TypeOK, [Next]_vars PROVE TypeOK'
<1>1. ASSUME NEW w \in Workloads, NEW n \in Nat,
             RecordWorkerBoot(w, n) \/ RecordWorkloadGeneration(w, n)
      PROVE  TypeOK'
  BY <1>1, RecordType
<1>2. CASE \E w \in Workloads :
              \/ \E n \in 1..MaxBoot : RecordWorkerBoot(w, n)
              \/ \E n \in 1..MaxGeneration : RecordWorkloadGeneration(w, n)
  BY <1>1, <1>2
<1>3. CASE \E r \in Reports : IngestNew(r) \/ IngestKnown(r)
  BY <1>3, InputsAssumption, IngestNewType, IngestKnownType
<1>4. CASE \E k \in DOMAIN conflicts, cls \in Requests : Authorize(k, cls)
  BY <1>4, AuthorizeType
<1>5. CASE \E i \in Followed :
              \/ DispatchBegin(i)
              \/ DispatchRefused(i)
              \/ \E o \in AdapterOutcome : DispatchEnd(i, o)
              \/ OnAcknowledge(i)
              \/ OnActionFailed(i)
  BY <1>5, DispatchType DEF Followed
<1>6. CASE \E r \in PostReports :
              Verify(r) \/ ObserveOnly(r) \/ ObserveUnmatched(r)
  BY <1>6, InputsAssumption, VerifyType, ObserveType
<1>7. CASE \/ \E p \in Policies : SetPolicy(p)
           \/ \E a \in Authorities : SetAuthority(a)
           \/ AdvanceEpoch
           \/ \E delta \in Advances : Tick(delta)
  BY <1>7, SetPolicyType, SetAuthorityType, AdvanceEpochType, TickType
<1>8. CASE UNCHANGED vars
  BY <1>8 DEF vars, TypeOK
<1>. QED
  BY <1>2, <1>3, <1>4, <1>5, <1>6, <1>7, <1>8 DEF Next

\* Whatever the reports, policies, contexts and requests within the types, and
\* however long the governor runs, its state keeps the types of its fields; in
\* particular every intervention has its count of dispatches and every call
\* in flight is about an intervention on record.
THEOREM TypeCorrect == Spec => []TypeOK
<1>1. Init => TypeOK
  BY InitType
<1>2. TypeOK /\ [Next]_vars => TypeOK'
  BY NextType
<1>. QED
  BY <1>1, <1>2, PTL DEF Spec
=============================================================================
