------------------------------- MODULE Engine -------------------------------
(***************************************************************************)
(* The pure decision pipeline: generation fences, hard feasibility, the    *)
(* evidence gate of evaluate_conflict and the ranking of its candidates.   *)
(* Every operator takes the parts of EngineState it reads.                 *)
(*                                                                         *)
(*   authority : [epoch, policyGeneration, stamp, generations, boots]      *)
(*   evidence  : function from the ids stored so far to reports            *)
(*   fairness  : function from Workloads to burden records                 *)
(*                                                                         *)
(* "stamp" stands for the seven generations (governor, SLO, value,         *)
(* fairness, resource, placement, topology) that only set_authority writes *)
(* and revalidate only compares for equality: replacing any of them is     *)
(* replacing the stamp.                                                    *)
(***************************************************************************)
EXTENDS Policy

\* AuthorityContext; a workload that was never recorded has entry 0.
AuthorityContext ==
    [epoch : Nat, policyGeneration : Nat, stamp : Nat,
     generations : [Workloads -> Nat], boots : [Workloads -> Nat]]

Fence == [epoch : Nat, policyGeneration : Nat, stamp : Nat,
          workloadGeneration : Nat, workerBoot : Nat]

\* A workload without a FairnessRecord has the record of zeros.
FairnessRecord == [interventionCount : Nat, consecutive : Nat,
                   lastInterventionAt : Nat]

ConflictState == {"DETECTED", "VALIDATING", "ACTIONABLE",
                  "INTERVENTION_AUTHORIZED", "RESOLVED", "PARTIALLY_RESOLVED",
                  "UNRESOLVED", "SUPPRESSED", "REVALIDATION_REQUIRED",
                  "SUPERSEDED"}

\* affected always holds the one victim the conflict was created for.
ContentionConflict ==
    [victim : Nat, domain : Domains, associated : SUBSET Workloads,
     degradation : Int, evidenceIds : Seq(Nat), selectedIds : Seq(Nat),
     state : ConflictState]

-----------------------------------------------------------------------------
(* Authority fencing. *)

\* make_fence: the generations an intervention on target is authorized under.
MakeFence(authority, target) ==
    [epoch              |-> authority.epoch,
     policyGeneration   |-> authority.policyGeneration,
     stamp              |-> authority.stamp,
     workloadGeneration |-> authority.generations[target],
     workerBoot         |-> authority.boots[target]]

\* revalidate: every generation is unchanged, and the target is known at all.
Revalidate(authority, fence, target) ==
    /\ fence = MakeFence(authority, target)
    /\ authority.generations[target] # 0
    /\ authority.boots[target] # 0

-----------------------------------------------------------------------------
(* Feasibility. *)

\* The per-class rules: what the workload and the policy both have to allow.
ClassPermitted(p, target, cls) ==
    LET wp == p.workloads[target]
        both(m) == m \in wp.allows \cap p.allows
    IN  CASE cls \in ThrottleFamily ->
                both("throttle") /\ wp.hardSloFloor < 100
          [] cls \in {"REQUEST_PREEMPTION", "REQUEST_REPLACEMENT"} ->
                ~wp.nonPreemptible /\ both("preemption")
          [] cls = "REQUEST_MIGRATION" ->
                ~wp.nonPreemptible /\ both("migration")
          [] cls = "DEFER_NEW_WORK" ->
                "deferral" \in wp.allows /\ "admissionRestriction" \in p.allows
          [] cls = "CHANGE_PLACEMENT" -> both("placementChange")
          [] cls = "REQUEST_BANDWIDTH_REALLOCATION" -> both("bandwidthRequest")
          [] cls = "REQUEST_COMMUNICATION_REPLAN" ->
                "bandwidthRequest" \in p.allows
          [] cls = "REQUEST_COLLECTIVE_RESCHEDULE" ->
                both("collectiveScheduling")
          [] OTHER -> TRUE

AtFairnessCap(p, fairness, target) ==
    fairness[target].consecutive <= p.maxConsecutive

\* The target has room for another intervention before its burden is reset.
UnderFairnessCap(p, fairness, target) ==
    fairness[target].consecutive < p.maxConsecutive

\* check_feasibility.
Feasible(p, authority, fairness, target, cls, fence) ==
    /\ Revalidate(authority, fence, target)
    /\ ClassPermitted(p, target, cls)
    /\ UnderFairnessCap(p, fairness, target)

-----------------------------------------------------------------------------
(* evaluate_conflict, steps 1 to 4: may this conflict be acted on at all? *)

AwaitedPositions(evidence, c) ==
    { k \in 1..Len(c.evidenceIds) :
        /\ c.evidenceIds[k] \in DOMAIN evidence
        /\ evidence[c.evidenceIds[k]].status
             \in {"CURRENT", "REVALIDATION_REQUIRED"} }

\* The positions of the conflict's evidence that are CURRENT and valid.
CurrentPositions(evidence, c) ==
    { k \in 1..Len(c.evidenceIds) :
        /\ c.evidenceIds[k] \in DOMAIN evidence
        /\ evidence[c.evidenceIds[k]].status = "CURRENT"
        /\ StructurallyValid(evidence[c.evidenceIds[k]]) }

\* The first of them speaks for the conflict.
Primary(evidence, c) ==
    LET usable == CurrentPositions(evidence, c)
    IN  evidence[c.evidenceIds[CHOOSE k \in usable : \A j \in usable : k <= j]]

\* The attribution gate of disruptive action.
DestructiveOk(p, e) ==
    /\ e.attribution >= p.minAttribution
    /\ e.confidence >= p.minConfidence
    /\ ~e.confounded

\* A conflict evaluate_conflict builds candidates for.
Evaluable(p, evidence, c) ==
    /\ CurrentPositions(evidence, c) # {}
    /\ c.degradation >= p.actionability
    /\ c.associated # {}
    /\ DestructiveOk(p, Primary(evidence, c))

-----------------------------------------------------------------------------
(* evaluate_conflict, steps 5 and 6: candidates and their ranking. *)

\* default_effect, in percent; cost is a tenth of the neighbor degradation.
DefaultEffect(cls) ==
    LET effect(reduction, neighbor, reversibility) ==
            [reduction |-> reduction, neighbor |-> neighbor,
             reversibility |-> reversibility]
    IN  CASE cls = "THROTTLE"                       -> effect(50, 15, 90)
          [] cls = "REDUCE_CONCURRENCY"             -> effect(40, 20, 85)
          [] cls = "REDUCE_BATCH"                   -> effect(35, 12, 90)
          [] cls = "SERIALIZE"                      -> effect(55, 25, 90)
          [] cls = "TIME_SLICE"                     -> effect(30, 10, 95)
          [] cls = "REQUEST_PREEMPTION"             -> effect(80, 50, 10)
          [] cls = "REQUEST_MIGRATION"              -> effect(85,  5, 30)
          [] cls = "CHANGE_PLACEMENT"               -> effect(70, 10, 30)
          [] cls = "REQUEST_BANDWIDTH_REALLOCATION" -> effect(60,  8, 80)
          [] cls = "REQUEST_COMMUNICATION_REPLAN"   -> effect(50,  5, 40)
          [] cls = "REQUEST_COLLECTIVE_RESCHEDULE"  -> effect(55,  5, 50)
          [] cls = "RELEASE_OPTIONAL_RESIDENCY"     -> effect(20,  5, 60)
          [] cls = "REDUCE_MEMORY_PRESSURE"         -> effect(40, 10, 80)
          [] cls = "DEFER_NEW_WORK"                 -> effect(30,  2, 90)
          [] cls = "SHED_LOW_VALUE_WORK"            -> effect(45, 35, 10)
          [] cls = "PROTECT_HIGH_VALUE_WORK"        -> effect(35, 10, 80)
          [] OTHER                                  -> effect( 0,  0, 50)

Candidate == [cls : InterventionClass, target : Workloads]

\* class_index: the position of a class in class_order().
ClassIndex(cls) == CHOOSE k \in 1..21 : ClassOrder[k] = cls

\* The ranking keys, most significant first; less is better.  The expected
\* cost is a fixed multiple of the neighbor degradation above it.
RankKey(p, cand) ==
    LET effect == DefaultEffect(cand.cls)
    IN  << -effect.reduction, effect.neighbor,
           p.workloads[cand.target].value, effect.neighbor,
           -effect.reversibility, ClassIndex(cand.cls), cand.target >>

BetterButTies(p, a, b) ==
    \E i \in 1..5 : /\ RankKey(p, a)[i] < RankKey(p, b)[i]
                    /\ \A j \in 1..(i - 1) : RankKey(p, a)[j] = RankKey(p, b)[j]

\* a comes before b in the sorted list of candidates.
Better(p, a, b) ==
    \E i \in 1..7 : /\ RankKey(p, a)[i] < RankKey(p, b)[i]
                    /\ \A j \in 1..(i - 1) : RankKey(p, a)[j] = RankKey(p, b)[j]

\* Every interferer crossed with every class the policy has switched on.
Candidates(p, c) ==
    { cand \in Candidate :
        /\ cand.target \in c.associated
        /\ cand.cls \notin Passive
        /\ ClassEligible(p, cand.cls) }

FeasibleCandidates(p, authority, fairness, c) ==
    { cand \in Candidates(p, c) :
        Feasible(p, authority, fairness, cand.target, cand.cls,
                 MakeFence(authority, cand.target)) }

\* The front of the sorted list of feasible candidates.
Best(p, feasible) ==
    { cand \in feasible :
        \A other \in feasible \ {cand} : Better(p, cand, other) }

\* The decision of evaluate_conflict, as a set of at most one candidate; it is
\* empty when the gate is closed or nothing is feasible.
Decisions(p, authority, evidence, fairness, c) ==
    IF Evaluable(p, evidence, c)
    THEN Best(p, FeasibleCandidates(p, authority, fairness, c))
    ELSE {}
=============================================================================
