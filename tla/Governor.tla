------------------------------ MODULE Governor ------------------------------
(***************************************************************************)
(* The governor: evidence becomes conflicts, conflicts become fenced       *)
(* interventions, interventions are dispatched to an adapter and verified  *)
(* by later evidence.                                                      *)
(*                                                                         *)
(* Every public operation of class Governor holds one mutex from its first *)
(* read to its last write, so it is one action.  The exception is          *)
(* dispatch(), which releases the mutex around the adapter call: it is     *)
(* DispatchBegin (or DispatchRefused) and, any number of operations later, *)
(* DispatchEnd.  authorize_and_dispatch() is authorize() followed by       *)
(* dispatch() with the mutex free in between, so its executions are those  *)
(* of Authorize and DispatchBegin; its early budget check only refuses     *)
(* what Authorize refuses as well.                                         *)
(***************************************************************************)
EXTENDS Engine

CONSTANTS
    Reports,                 \* the evidence the callers may submit
    PostReports,             \* ... as post-action evidence
    Policies,                \* the policies set_policy may be given
    InitialPolicies,         \* ... before the first operation modelled
    Authorities,             \* the contexts set_authority may be given
    InitialAuthorities,      \* ... before the first operation modelled
    Requests,                \* the classes authorize may be asked for
    Advances,                \* by how many ms the clock may move at once
    StartTime,               \* what the clock shows at first
    TimeModulus,             \* TimeMs is unsigned: 2^64 in the code

    \* Bounds of the instance, each one a guard of the actions it bounds.
    MaxTime, MaxEpoch, MaxBoot, MaxGeneration, MaxEvidence,
    MaxEvidencePerConflict,
    MaxConflicts, MaxInterventions,
    MaxFollowed              \* interventions followed past authorization

ASSUME InputsAssumption ==
    /\ Reports \subseteq Report
    /\ PostReports \subseteq Report
    /\ Policies \subseteq ContentionPolicy
    /\ InitialPolicies \subseteq ContentionPolicy
    /\ Authorities \subseteq AuthorityContext
    /\ InitialAuthorities \subseteq AuthorityContext
    /\ Requests \subseteq InterventionClass
    /\ Advances \subseteq Nat
    /\ StartTime \in Nat
    /\ TimeModulus \in Nat \ {0}

\* A caller installs a policy whose counters are within its own limits, and
\* the governor starts from an accepted policy.
ASSUME PoliciesAssumption ==
    /\ \A p \in Policies \cup InitialPolicies : \A k \in Capped :
          p.budget.used[k] <= p.budget.max[k]
    /\ \A p \in InitialPolicies : ValidPolicy(p)

VARIABLES
    policy,          \* EngineState.policy, its action budget included
    authority,       \* EngineState.authority
    evidence,        \* EngineState.evidence: a function on the ids in use
    nextEvidenceId,  \* GovernorState.nextEvidenceId
    conflicts,       \* EngineState.conflicts: conflict k has ConflictId k
    interventions,   \* EngineState.interventions, numbered the same way
    fairness,        \* EngineState.fairness
    now,             \* the clock
    calls,           \* dispatch() calls between their two critical sections
    handed           \* how often dispatch() has handed out each intervention

vars == <<policy, authority, evidence, nextEvidenceId, conflicts,
          interventions, fairness, now, calls, handed>>

-----------------------------------------------------------------------------
(* Types. *)

LifecycleState == {"AUTHORIZED", "DISPATCHED", "ACKNOWLEDGED", "EFFECTIVE",
                   "PARTIALLY_EFFECTIVE", "INEFFECTIVE", "FAILED",
                   "SUPERSEDED", "OUTCOME_UNKNOWN"}

\* States an intervention is never meant to leave.
Terminal == {"EFFECTIVE", "PARTIALLY_EFFECTIVE", "INEFFECTIVE", "FAILED",
             "SUPERSEDED"}

\* States in which submit_post_action_evidence still verifies it.
Verifiable == {"AUTHORIZED", "DISPATCHED", "ACKNOWLEDGED"}

VerificationOutcome == {"RESOLVED", "PARTIALLY_RESOLVED", "INEFFECTIVE",
                        "WORSENED", "SHIFTED_CONTENTION",
                        "CREATED_SECONDARY_VIOLATION", "OUTCOME_UNKNOWN"}

InterventionRecord ==
    [conflictId : Nat, cls : InterventionClass, target : Workloads,
     state : LifecycleState, fence : Fence, authorizedAt : Nat,
     result : VerificationOutcome]

AdapterOutcome == {"ACCEPTED", "REJECTED", "UNAVAILABLE", "UNKNOWN"}

\* Every variable has the type of the field it stands for.
TypeOK ==
    /\ policy \in ContentionPolicy
    /\ authority \in AuthorityContext
    /\ DOMAIN evidence \subseteq Nat
    /\ evidence \in [DOMAIN evidence -> Report]
    /\ nextEvidenceId \in Nat \ {0}
    /\ conflicts \in Seq(ContentionConflict)
    /\ interventions \in Seq(InterventionRecord)
    /\ fairness \in [Workloads -> FairnessRecord]
    /\ now \in Nat
    /\ calls \subseteq DOMAIN interventions
    /\ handed \in Seq(Nat)
    /\ Len(handed) = Len(interventions)

\* The constructor, after the set_policy, set_authority and record_* calls
\* with which a coordinator sets its governor up.
Init ==
    /\ policy \in InitialPolicies
    /\ authority \in { [a EXCEPT !.policyGeneration = policy.generation] :
                         a \in InitialAuthorities }
    /\ evidence = << >>
    /\ nextEvidenceId = 1
    /\ conflicts = << >>
    /\ interventions = << >>
    /\ fairness = [w \in Workloads |-> [interventionCount |-> 0,
                                        consecutive |-> 0,
                                        lastInterventionAt |-> 0]]
    /\ now = StartTime
    /\ calls = {}
    /\ handed = << >>

-----------------------------------------------------------------------------
(* Policy, authority and time. *)

\* set_policy: the new policy brings its own budget counters and window.
SetPolicy(p) ==
    /\ ValidPolicy(p)
    /\ policy' = p
    /\ authority' = [authority EXCEPT !.policyGeneration = p.generation]
    /\ UNCHANGED <<evidence, nextEvidenceId, conflicts, interventions,
                   fairness, now, calls, handed>>

\* set_authority: the context is replaced as a whole, policyGeneration too.
SetAuthority(a) ==
    /\ authority' = a
    /\ UNCHANGED <<policy, evidence, nextEvidenceId, conflicts, interventions,
                   fairness, now, calls, handed>>

\* record_worker_boot.
RecordWorkerBoot(w, boot) ==
    /\ authority' = [authority EXCEPT !.boots[w] = boot]
    /\ UNCHANGED <<policy, evidence, nextEvidenceId, conflicts, interventions,
                   fairness, now, calls, handed>>

\* record_workload_generation.
RecordWorkloadGeneration(w, generation) ==
    /\ authority' = [authority EXCEPT !.generations[w] = generation]
    /\ UNCHANGED <<policy, evidence, nextEvidenceId, conflicts, interventions,
                   fairness, now, calls, handed>>

\* What a coordinator restart does to a conflict that is not closed, to an
\* intervention that is under way and to a workload's burden.
SuspendedConflict(c) ==
    IF c.state \in {"RESOLVED", "SUPPRESSED", "SUPERSEDED"}
    THEN c
    ELSE [c EXCEPT !.state = "REVALIDATION_REQUIRED"]

OrphanedDispatchedOnly(iv) ==
    IF iv.state \in {"DISPATCHED", "ACKNOWLEDGED"}
    THEN [iv EXCEPT !.state = "OUTCOME_UNKNOWN"]
    ELSE iv

OrphanedIntervention(iv) ==
    IF iv.state \in {"AUTHORIZED", "DISPATCHED", "ACKNOWLEDGED"}
    THEN [iv EXCEPT !.state = "OUTCOME_UNKNOWN"]
    ELSE iv

SuspendedEvidence(e) ==
    IF e.status = "CURRENT" THEN [e EXCEPT !.status = "REVALIDATION_REQUIRED"]
                            ELSE e

ForgivenByOne(f) == [f EXCEPT !.consecutive = @ - 1]
ForgottenBurden(f) == [f EXCEPT !.interventionCount = 0, !.consecutive = 0]
ForgivenBurden(f) == [f EXCEPT !.consecutive = 0]

\* advance_epoch: a coordinator restarts.
AdvanceEpoch ==
    /\ authority.epoch < MaxEpoch
    /\ authority' = [authority EXCEPT !.epoch = @ + 1]
    /\ evidence' = [id \in DOMAIN evidence |-> SuspendedEvidence(evidence[id])]
    /\ conflicts' = [k \in DOMAIN conflicts |-> SuspendedConflict(conflicts[k])]
    /\ interventions' = [i \in DOMAIN interventions |->
                           OrphanedIntervention(interventions[i])]
    /\ fairness' = [w \in Workloads |-> ForgivenBurden(fairness[w])]
    /\ UNCHANGED <<policy, nextEvidenceId, now, calls, handed>>

\* The steady clock moves on.
Tick(delta) ==
    /\ now + delta <= MaxTime
    /\ now' = now + delta
    /\ UNCHANGED <<policy, authority, evidence, nextEvidenceId, conflicts,
                   interventions, fairness, calls, handed>>

-----------------------------------------------------------------------------
(* Evidence. *)

\* The report as it is stored: with an id, and its degradation recomputed.
Admitted(r) ==
    [r EXCEPT !.id = IF r.id = 0 THEN nextEvidenceId ELSE r.id,
              !.degradation = Degradation(r.metric, r.baseline, r.observation)]

\* Numbers and stores report r; whatever had that id before is overwritten.
StoreEvidence(r) ==
    LET e == Admitted(r)
    IN  /\ ValidEvidence(r)
        /\ r.id = 0 => nextEvidenceId <= MaxEvidence
        /\ evidence' = [id \in DOMAIN evidence \cup {e.id} |->
                          IF id = e.id THEN e ELSE evidence[id]]
        /\ nextEvidenceId' = IF r.id = 0 THEN nextEvidenceId + 1
                                         ELSE nextEvidenceId

MatchingUnresolved(r) ==
    { k \in DOMAIN conflicts : /\ conflicts[k].victim = r.victim
                               /\ conflicts[k].domain = r.domain
                               /\ conflicts[k].state # "RESOLVED" }

\* The conflicts a report belongs to; the code takes the lowest id of them.
Matching(r) == { k \in DOMAIN conflicts : /\ conflicts[k].victim = r.victim
                                          /\ conflicts[k].domain = r.domain }

IsConflictOf(r, k) == k \in Matching(r) /\ \A j \in Matching(r) : k <= j

ProgressedToResolved(c, e) ==
    [c EXCEPT !.state =
        CASE e.status = "CURRENT" /\ c.degradation >= policy.actionability ->
                "ACTIONABLE"
          [] e.status = "CURRENT" /\ c.degradation < policy.actionability ->
                "RESOLVED"
          [] OTHER -> c.state]

\* Conflict state progression, by the health of the newest evidence.
Progressed(c, e) ==
    [c EXCEPT !.state =
        CASE e.status = "CURRENT" /\ c.degradation >= policy.actionability ->
                "ACTIONABLE"
          [] e.status = "CURRENT" /\ c.degradation < policy.actionability ->
                "VALIDATING"
          [] e.status \in {"CONFOUNDED", "INSUFFICIENT_EVIDENCE"} ->
                "UNRESOLVED"
          [] e.status = "REVALIDATION_REQUIRED" -> "REVALIDATION_REQUIRED"
          [] OTHER -> c.state]

NewConflictUnlinked(e) ==
    [victim |-> e.victim, domain |-> e.domain, associated |-> e.neighbors,
     degradation |-> e.degradation, evidenceIds |-> << >>,
     selectedIds |-> << >>, state |-> "DETECTED"]

NewConflict(e) ==
    [victim |-> e.victim, domain |-> e.domain, associated |-> e.neighbors,
     degradation |-> e.degradation, evidenceIds |-> <<e.id>>,
     selectedIds |-> << >>, state |-> "DETECTED"]

\* The worst degradation seen so far sticks until an action is verified.
WithEvidence(c, e) ==
    [c EXCEPT !.associated = e.neighbors,
              !.degradation = IF e.degradation > @ THEN e.degradation ELSE @,
              !.evidenceIds = Append(@, e.id)]

\* ingest_evidence, for a victim and domain in conflict for the first time ...
IngestNew(r) ==
    /\ StoreEvidence(r)
    /\ Matching(r) = {}
    /\ Len(conflicts) < MaxConflicts
    /\ conflicts' = Append(conflicts,
                           Progressed(NewConflict(Admitted(r)), Admitted(r)))
    /\ UNCHANGED <<policy, authority, interventions, fairness, now, calls,
                   handed>>

\* ... and for a conflict on record.
IngestKnown(r) ==
    /\ StoreEvidence(r)
    /\ \E k \in Matching(r) :
          /\ IsConflictOf(r, k)
          /\ Len(conflicts[k].evidenceIds) < MaxEvidencePerConflict
          /\ conflicts' = [conflicts EXCEPT
                ![k] = Progressed(WithEvidence(@, Admitted(r)), Admitted(r))]
    /\ UNCHANGED <<policy, authority, interventions, fairness, now, calls,
                   handed>>

-----------------------------------------------------------------------------
(* Authorization. *)

\* Unsigned difference of two times.
Elapsed(from, to) == (to - from) % TimeModulus

\* The counter a class is charged to; classes without one of their own are
\* only counted in "all".
BudgetCounter(cls) ==
    CASE cls = "REQUEST_PREEMPTION"            -> "preemptions"
      [] cls = "REQUEST_MIGRATION"             -> "migrations"
      [] cls = "CHANGE_PLACEMENT"              -> "placementChanges"
      [] cls \in ThrottleFamily                -> "throttles"
      [] cls = "REQUEST_COLLECTIVE_RESCHEDULE" -> "collectiveReschedules"
      [] OTHER                                 -> "all"

BudgetExceeded(b, cls) ==
    LET k == BudgetCounter(cls)
    IN  k \in Capped /\ b.used[k] > b.max[k]

\* budget_exhausted: no class is held to the limit on "all".
BudgetExhausted(b, cls) ==
    LET k == BudgetCounter(cls)
    IN  k \in Capped /\ b.used[k] >= b.max[k]

RolledWithoutStart(b, t) ==
    IF Elapsed(b.windowStart, t) > b.windowMs
    THEN [b EXCEPT !.used = NoneUsed]
    ELSE b

\* The window rolls over when an authorization finds it has passed.
RolledWindow(b, t) ==
    IF Elapsed(b.windowStart, t) > b.windowMs
    THEN [b EXCEPT !.used = NoneUsed, !.windowStart = t]
    ELSE b

\* consume_budget.
ConsumeBudget(b, cls, t) ==
    LET rolled == RolledWindow(b, t)
    IN  [rolled EXCEPT !.used = [k \in Counter |->
            IF k \in {BudgetCounter(cls), "all"} THEN rolled.used[k] + 1
                                                 ELSE rolled.used[k]]]

CooledDownThrottle(target, cls) ==
    \/ cls \notin ThrottleFamily
    \/ fairness[target].lastInterventionAt = 0
    \/ Elapsed(fairness[target].lastInterventionAt, now) >= policy.cooldownMs

\* A disruptive class waits out the target's cooldown; a last intervention at
\* time 0 reads as none.
CooledDown(target, cls) ==
    \/ cls \notin Disruptive
    \/ fairness[target].lastInterventionAt = 0
    \/ Elapsed(fairness[target].lastInterventionAt, now) >= policy.cooldownMs

Burdened(f) == [f EXCEPT !.interventionCount = @ + 1,
                         !.consecutive = @ + 1,
                         !.lastInterventionAt = now]

NewIntervention(k, cls, target) ==
    [conflictId |-> k, cls |-> cls, target |-> target, state |-> "AUTHORIZED",
     fence |-> MakeFence(authority, target), authorizedAt |-> now,
     result |-> "OUTCOME_UNKNOWN"]

\* The class authorized for the decision pick: a caller may override it, never
\* the target.
Chosen(pick, requested) ==
    IF requested = "NO_ACTION" THEN pick.cls ELSE requested

\* What authorize() checks once the evaluation has picked a target.
Permitted(target, cls) ==
    /\ Feasible(policy, authority, fairness, target, cls,
                MakeFence(authority, target))
    /\ ~BudgetExhausted(policy.budget, cls)
    /\ CooledDown(target, cls)

SelectedBefore(c, i) == [c EXCEPT !.state = "INTERVENTION_AUTHORIZED",
                                  !.selectedIds = Append(@, i - 1)]

\* The conflict with intervention i selected for it.
Selected(c, i) == [c EXCEPT !.state = "INTERVENTION_AUTHORIZED",
                            !.selectedIds = Append(@, i)]

\* authorize(conflict k, requested class).
Authorize(k, requested) ==
    \E pick \in Decisions(policy, authority, evidence, fairness, conflicts[k]) :
        LET cls    == Chosen(pick, requested)
            target == pick.target
        IN  /\ Permitted(target, cls)
            /\ Len(interventions) < MaxInterventions
            /\ interventions' = Append(interventions,
                                       NewIntervention(k, cls, target))
            /\ policy' = [policy EXCEPT !.budget = ConsumeBudget(@, cls, now)]
            /\ fairness' = [fairness EXCEPT ![target] = Burdened(@)]
            /\ conflicts' = [conflicts EXCEPT
                  ![k] = Selected(@, Len(interventions) + 1)]
            /\ handed' = Append(handed, 0)
            /\ UNCHANGED <<authority, evidence, nextEvidenceId, now, calls>>

-----------------------------------------------------------------------------
(* Dispatch and the lifecycle callbacks. *)

InState(i, s) == [interventions EXCEPT ![i].state = s]

DispatchUnmarked(i) ==
    /\ interventions[i].state = "AUTHORIZED"
    /\ Revalidate(authority, interventions[i].fence, interventions[i].target)
    /\ calls' = calls \cup {i}
    /\ handed' = [handed EXCEPT ![i] = @ + 1]
    /\ UNCHANGED <<policy, authority, evidence, nextEvidenceId, conflicts,
                   interventions, fairness, now>>

\* The first section of dispatch(): a current intervention is marked and the
\* mutex is released for the adapter call ...
DispatchBegin(i) ==
    /\ interventions[i].state = "AUTHORIZED"
    /\ Revalidate(authority, interventions[i].fence, interventions[i].target)
    /\ interventions' = InState(i, "DISPATCHED")
    /\ calls' = calls \cup {i}
    /\ handed' = [handed EXCEPT ![i] = @ + 1]
    /\ UNCHANGED <<policy, authority, evidence, nextEvidenceId, conflicts,
                   fairness, now>>

\* ... and one whose fence has gone stale is superseded.
DispatchRefused(i) ==
    /\ interventions[i].state = "AUTHORIZED"
    /\ ~Revalidate(authority, interventions[i].fence, interventions[i].target)
    /\ interventions' = InState(i, "SUPERSEDED")
    /\ UNCHANGED <<policy, authority, evidence, nextEvidenceId, conflicts,
                   fairness, now, calls, handed>>

\* What the adapter call may come back with; only the throttle family has an
\* adapter, everything else is answered UNAVAILABLE.
Answers(cls) ==
    IF cls \in ThrottleFamily THEN AdapterOutcome ELSE {"UNAVAILABLE"}

AnsweredOrWaiting(outcome) ==
    CASE outcome = "ACCEPTED" -> "ACKNOWLEDGED"
      [] outcome = "UNKNOWN"  -> "DISPATCHED"
      [] OTHER                -> "FAILED"

AnsweredForRetry(outcome) ==
    CASE outcome = "ACCEPTED" -> "ACKNOWLEDGED"
      [] outcome = "UNKNOWN"  -> "AUTHORIZED"
      [] OTHER                -> "FAILED"

Answered(outcome) ==
    CASE outcome = "ACCEPTED" -> "ACKNOWLEDGED"
      [] outcome = "UNKNOWN"  -> "OUTCOME_UNKNOWN"
      [] OTHER                -> "FAILED"

\* The second section: the answer is written whatever the state is by now.
DispatchEnd(i, outcome) ==
    /\ i \in calls
    /\ outcome \in Answers(interventions[i].cls)
    /\ interventions' = InState(i, Answered(outcome))
    /\ calls' = calls \ {i}
    /\ UNCHANGED <<policy, authority, evidence, nextEvidenceId, conflicts,
                   fairness, now, handed>>

\* on_acknowledge.
OnAcknowledge(i) ==
    /\ interventions[i].state = "DISPATCHED"
    /\ interventions' = InState(i, "ACKNOWLEDGED")
    /\ UNCHANGED <<policy, authority, evidence, nextEvidenceId, conflicts,
                   fairness, now, calls, handed>>

\* on_action_failed: accepted in every state.
OnActionFailed(i) ==
    /\ interventions' = InState(i, "FAILED")
    /\ UNCHANGED <<policy, authority, evidence, nextEvidenceId, conflicts,
                   fairness, now, calls, handed>>

-----------------------------------------------------------------------------
(* Closed-loop verification. *)

\* The conflict with a post-action observation: its degradation replaces the
\* worst one, its neighbors are not looked at.
Observed(c, e) == [c EXCEPT !.degradation = e.degradation,
                            !.evidenceIds = Append(@, e.id)]

\* The interventions on conflict k that are open; the lowest id is verified.
Open(k) == { i \in DOMAIN interventions :
               /\ interventions[i].conflictId = k
               /\ interventions[i].state \in Verifiable }

IsVerified(k, i) == i \in Open(k) /\ \A j \in Open(k) : i <= j

SecondaryHardOfVictim(k, target) ==
    \E j \in DOMAIN conflicts \ {k} :
        /\ conflicts[j].victim = conflicts[k].victim
        /\ conflicts[j].degradation
             > 100 - policy.workloads[target].hardSloFloor

\* The workload that was slowed is by now the victim of another conflict,
\* below its hard floor.
SecondaryHard(k, target) ==
    \E j \in DOMAIN conflicts \ {k} :
        /\ conflicts[j].victim = target
        /\ conflicts[j].degradation
             > 100 - policy.workloads[target].hardSloFloor

\* The classification of an action by the degradation before and after it.
Outcome(k, target, before, after) ==
    IF SecondaryHard(k, target)
    THEN IF after < policy.actionability THEN "SHIFTED_CONTENTION"
                                         ELSE "CREATED_SECONDARY_VIOLATION"
    ELSE CASE after <= policy.actionability -> "RESOLVED"
           [] after > policy.actionability /\ after < before ->
                  "PARTIALLY_RESOLVED"
           [] after > policy.actionability /\ after > before -> "WORSENED"
           [] OTHER -> "INEFFECTIVE"

LifecycleAfter(outcome) ==
    CASE outcome = "RESOLVED"           -> "EFFECTIVE"
      [] outcome = "PARTIALLY_RESOLVED" -> "PARTIALLY_EFFECTIVE"
      [] OTHER                          -> "INEFFECTIVE"

ConflictAfter(outcome) ==
    IF outcome \in {"RESOLVED", "PARTIALLY_RESOLVED"} THEN outcome
                                                      ELSE "UNRESOLVED"

\* submit_post_action_evidence, about a conflict with an open intervention;
\* a resolution ends the target's run of consecutive interventions.
Verify(r) ==
    /\ StoreEvidence(r)
    /\ \E k \in Matching(r) : \E i \in DOMAIN interventions :
          LET target  == interventions[i].target
              outcome == Outcome(k, target, conflicts[k].degradation,
                                 Admitted(r).degradation)
          IN  /\ IsConflictOf(r, k)
              /\ IsVerified(k, i)
              /\ Len(conflicts[k].evidenceIds) < MaxEvidencePerConflict
              /\ conflicts' = [conflicts EXCEPT ![k] =
                    [Observed(@, Admitted(r)) EXCEPT
                        !.state = ConflictAfter(outcome)]]
              /\ interventions' = [interventions EXCEPT
                    ![i].state = LifecycleAfter(outcome),
                    ![i].result = outcome]
              /\ fairness' = IF outcome = "RESOLVED"
                             THEN [fairness EXCEPT ![target] =
                                     ForgivenBurden(@)]
                             ELSE fairness
    /\ UNCHANGED <<policy, authority, now, calls, handed>>

\* The same when no intervention is open: the observation is recorded.
ObserveOnly(r) ==
    /\ StoreEvidence(r)
    /\ \E k \in Matching(r) :
          /\ IsConflictOf(r, k)
          /\ Open(k) = {}
          /\ Len(conflicts[k].evidenceIds) < MaxEvidencePerConflict
          /\ conflicts' = [conflicts EXCEPT ![k] = Observed(@, Admitted(r))]
    /\ UNCHANGED <<policy, authority, interventions, fairness, now, calls,
                   handed>>

\* The same when the report belongs to no conflict: only the report is kept.
ObserveUnmatched(r) ==
    /\ StoreEvidence(r)
    /\ Matching(r) = {}
    /\ UNCHANGED <<policy, authority, conflicts, interventions, fairness, now,
                   calls, handed>>

-----------------------------------------------------------------------------
Followed == { i \in DOMAIN interventions : i <= MaxFollowed }

Next ==
    \/ \E p \in Policies : SetPolicy(p)
    \/ \E a \in Authorities : SetAuthority(a)
    \/ \E w \in Workloads, n \in 1..MaxBoot : RecordWorkerBoot(w, n)
    \/ \E w \in Workloads, n \in 1..MaxGeneration :
          RecordWorkloadGeneration(w, n)
    \/ AdvanceEpoch
    \/ \E delta \in Advances : Tick(delta)
    \/ \E r \in Reports : IngestNew(r)
    \/ \E r \in Reports : IngestKnown(r)
    \/ \E k \in DOMAIN conflicts, cls \in Requests : Authorize(k, cls)
    \/ \E i \in Followed : DispatchBegin(i)
    \/ \E i \in Followed : DispatchRefused(i)
    \/ \E i \in Followed, o \in AdapterOutcome : DispatchEnd(i, o)
    \/ \E i \in Followed : OnAcknowledge(i)
    \/ \E i \in Followed : OnActionFailed(i)
    \/ \E r \in PostReports : Verify(r)
    \/ \E r \in PostReports : ObserveOnly(r)
    \/ \E r \in PostReports : ObserveUnmatched(r)

Spec == Init /\ [][Next]_vars

\* An adapter call returns, and dispatch() reaches its second section: what is
\* assumed of the adapter, since the call itself has no timeout.
AdapterFairness ==
    \A i \in 1..MaxInterventions :
        WF_vars(\E o \in AdapterOutcome : DispatchEnd(i, o))

FairSpec == Spec /\ AdapterFairness

-----------------------------------------------------------------------------
(* Invariants. *)

\* authorize() follows evidenceIds.front() into the evidence map without
\* looking whether it is there: every conflict lists a report, and every
\* report it lists is stored.
EvidenceAnchored ==
    \A k \in DOMAIN conflicts :
        /\ conflicts[k].evidenceIds # << >>
        /\ \A n \in DOMAIN conflicts[k].evidenceIds :
              conflicts[k].evidenceIds[n] \in DOMAIN evidence

\* There is one conflict per victim and domain, however often it was resolved
\* and reported again: the scan for the lowest matching id has no choice.
ConflictUnique ==
    \A j, k \in DOMAIN conflicts :
        /\ conflicts[j].victim = conflicts[k].victim
        /\ conflicts[j].domain = conflicts[k].domain
        => j = k

\* An intervention is handed out by dispatch() at most once, even when two
\* threads dispatch it and the mutex is free during the adapter call; not
\* before it is dispatched, and not when it was superseded.  A call in flight
\* is that one handing out.
HandedOnce ==
    /\ \A i \in calls : handed[i] = 1
    /\ \A i \in DOMAIN interventions :
          /\ handed[i] <= 1
          /\ interventions[i].state \in {"AUTHORIZED", "SUPERSEDED"}
                => handed[i] = 0
          /\ interventions[i].state \in {"DISPATCHED", "ACKNOWLEDGED"}
                => handed[i] = 1

\* advance_epoch() leaves nothing of the old epoch that could still be
\* dispatched or that passes for being under way (where only advance_epoch
\* moves the epoch, that is, where set_authority does not).
OldEpochRetired ==
    \A i \in DOMAIN interventions :
        interventions[i].state \in {"AUTHORIZED", "DISPATCHED"}
            => interventions[i].fence.epoch = authority.epoch

\* No counter that has a limit passes it, whatever the order of requests,
\* window roll-overs and policy changes.
BudgetCapped ==
    \A k \in Capped : policy.budget.used[k] <= policy.budget.max[k]

\* Exact accounting: the counters are the interventions on record since the
\* window opened, no more and no less (as long as the policy, which carries
\* the counters, is not replaced).
BudgetExact ==
    \A k \in Counter :
        policy.budget.used[k] =
            Cardinality({ i \in DOMAIN interventions :
                /\ k \in {BudgetCounter(interventions[i].cls), "all"}
                /\ interventions[i].authorizedAt >= policy.budget.windowStart })

\* The burden of a workload is the number of interventions ever authorized
\* against it: restarts and resolutions end its run, not its history.
BurdenExact ==
    \A w \in Workloads :
        fairness[w].interventionCount =
            Cardinality({ i \in DOMAIN interventions :
                            interventions[i].target = w })

\* A disruptive intervention comes at least a cooldown after any earlier one
\* on the same target, whatever happened in between (the policy unchanged;
\* an intervention at time 0 starts no cooldown).
CooldownSpacing ==
    \A i, j \in DOMAIN interventions :
        /\ i < j
        /\ interventions[i].target = interventions[j].target
        /\ interventions[j].cls \in Disruptive
        /\ interventions[i].authorizedAt # 0
        => interventions[j].authorizedAt - interventions[i].authorizedAt
              >= policy.cooldownMs

\* A conflict is RESOLVED only by the verification of an intervention on it,
\* never by evidence alone.
ResolutionBacked ==
    \A k \in DOMAIN conflicts :
        conflicts[k].state = "RESOLVED" =>
            \E i \in DOMAIN interventions :
                /\ interventions[i].conflictId = k
                /\ interventions[i].result = "RESOLVED"

-----------------------------------------------------------------------------
(* Action properties. *)

Last(s) == s[Len(s)]

Authorizes == \E i \in DOMAIN interventions' \ DOMAIN interventions :
                interventions'[i].state = "AUTHORIZED"

\* No workload is pushed past the policy's limit on consecutive interventions,
\* the classes a caller asks for by name included.
ConsecutiveCapped ==
    [][\A w \in Workloads :
          fairness'[w].consecutive > fairness[w].consecutive
              => fairness'[w].consecutive <= policy.maxConsecutive]_vars

\* After a restart nothing is authorized until fresh evidence arrives:
\* advance_epoch leaves no CURRENT report, and an authorization needs one
\* that the conflict lists.
RestartBarrier ==
    [][/\ authority'.epoch > authority.epoch =>
              \A id \in DOMAIN evidence' : evidence'[id].status # "CURRENT"
       /\ Authorizes =>
              LET c == conflicts[Last(interventions').conflictId]
              IN  \E n \in DOMAIN c.evidenceIds :
                     evidence[c.evidenceIds[n]].status = "CURRENT"]_vars

\* A verification never reports RESOLVED while the workload that was slowed is
\* itself the victim of another conflict beyond its hard floor.
SecondaryNotHidden ==
    [][\A i \in DOMAIN interventions :
          /\ interventions'[i].result = "RESOLVED"
          /\ interventions[i].result # "RESOLVED"
          => \A j \in DOMAIN conflicts \ {interventions[i].conflictId} :
                conflicts[j].victim = interventions[i].target =>
                   conflicts[j].degradation
                      + policy.workloads[interventions[i].target].hardSloFloor
                      <= 100]_vars

-----------------------------------------------------------------------------
(* Liveness. *)

Dispatched(i) == i \in DOMAIN interventions
                 /\ interventions[i].state = "DISPATCHED"

\* No intervention stays DISPATCHED for ever: once the adapter call returns,
\* its answer, also the answer that the outcome is unknown, ends the state.
DispatchSettles == \A i \in 1..MaxInterventions : Dispatched(i) ~> ~Dispatched(i)
=============================================================================
