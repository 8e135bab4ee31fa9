------------------------------- MODULE Policy -------------------------------
(***************************************************************************)
(* The vocabulary of the governor and its policy: intervention classes,    *)
(* evidence reports, the hard constraints a ContentionPolicy states, and   *)
(* the validation both inputs go through before they reach the state.      *)
(*                                                                         *)
(* Fractions of the code (degradations, confidences, floors, effects) are  *)
(* integer percentages here.  A set of allowed mechanisms stands for the   *)
(* boolean toggles of ContentionPolicy and WorkloadPolicy.                 *)
(***************************************************************************)
EXTENDS Integers, Sequences, FiniteSets

CONSTANTS
    Workloads,      \* workload ids; 0 is the id validate_evidence refuses
    Domains         \* the resource domains in play

ASSUME WorkloadsAssumption == Workloads \subseteq Nat \ {0}

-----------------------------------------------------------------------------
(* The enumerations the control depends on. *)

\* class_order(): the tie-break order of the ranking, every class once.
ClassOrder ==
    << "THROTTLE", "REDUCE_CONCURRENCY", "REDUCE_BATCH", "SERIALIZE",
       "TIME_SLICE", "REQUEST_PREEMPTION", "REQUEST_MIGRATION",
       "REQUEST_REPLACEMENT", "CHANGE_PLACEMENT",
       "REQUEST_BANDWIDTH_REALLOCATION", "REQUEST_COMMUNICATION_REPLAN",
       "REQUEST_COLLECTIVE_RESCHEDULE", "RELEASE_OPTIONAL_RESIDENCY",
       "REDUCE_MEMORY_PRESSURE", "SHED_LOW_VALUE_WORK",
       "PROTECT_HIGH_VALUE_WORK", "DEFER_NEW_WORK", "ESCALATE", "NO_ACTION",
       "OBSERVE_MORE", "MANUAL_INTERVENTION_REQUIRED" >>

InterventionClass == { ClassOrder[k] : k \in 1..21 }

\* Classes that never become a candidate of evaluate_conflict.
Passive == {"NO_ACTION", "OBSERVE_MORE", "ESCALATE",
            "MANUAL_INTERVENTION_REQUIRED"}

\* The classes the throttle adapter performs.
ThrottleFamily == {"THROTTLE", "REDUCE_CONCURRENCY", "REDUCE_BATCH",
                   "SERIALIZE", "TIME_SLICE", "REDUCE_MEMORY_PRESSURE"}

\* is_disruptive_class: the classes the cooldown holds back.
Disruptive == InterventionClass \ (Passive \cup {"PROTECT_HIGH_VALUE_WORK"})

EvidenceStatus == {"CURRENT", "STALE", "EXPIRED", "REVALIDATION_REQUIRED",
                   "UNSUPPORTED", "UNKNOWN", "CONFOUNDED",
                   "INSUFFICIENT_EVIDENCE"}

\* AttributionStrength in its declared order, from UNKNOWN = 0 through
\* CORRELATED = 2 and CONTROLLED_COMPARISON = 3 to DIRECT_RESOURCE_EVIDENCE = 5.
AttributionStrength == 0..5

MetricDirection == {"HIGHER_IS_BETTER", "LOWER_IS_BETTER"}

Mechanism == {"throttle", "preemption", "migration", "placementChange",
              "bandwidthRequest", "collectiveScheduling",
              "admissionRestriction", "deferral"}

-----------------------------------------------------------------------------
(* Evidence reports: what the observatory hands to the governor. *)

\* id 0 asks the governor for an id of its own.
Report == [id : Nat, victim : Nat, neighbors : SUBSET Workloads,
           domain : Domains, metric : MetricDirection, baseline : Int,
           observation : Int, degradation : Int, confidence : Int,
           samples : Nat, attribution : AttributionStrength,
           confounded : BOOLEAN, status : EvidenceStatus]

\* compute_degradation: how far the observation fell short of the isolated
\* baseline, never negative, in percent of the baseline (it may exceed 100).
Degradation(metric, baseline, observation) ==
    LET loss == IF metric = "HIGHER_IS_BETTER" THEN baseline - observation
                                               ELSE observation - baseline
    IN  IF baseline <= 0 \/ loss <= 0 THEN 0 ELSE (100 * loss) \div baseline

StructurallyValid(e) ==
    /\ e.baseline > 0
    /\ e.confidence \in 0..100
    /\ e.degradation >= 0
    /\ e.samples > 0

ValidEvidence(e) == e.victim # 0 /\ StructurallyValid(e)

-----------------------------------------------------------------------------
(* Policies. *)

WorkloadPolicy == [nonPreemptible : BOOLEAN, value : Int,
                   hardSloFloor : Int, allows : SUBSET Mechanism]

\* The counters of ActionBudgetStats; "all" counts every authorization.
Capped == {"preemptions", "migrations", "placementChanges", "throttles",
           "collectiveReschedules"}
Counter == Capped \cup {"all"}

ActionBudget == [max : [Counter -> Nat], windowMs : Nat, windowStart : Nat,
                 used : [Counter -> Nat]]

\* workloads: what workload_policy_for returns for each workload.
ContentionPolicy ==
    [generation : Nat, actionability : Int, release : Int, hysteresis : Nat,
     minAttribution : AttributionStrength, minConfidence : Int,
     maxConsecutive : Nat, cooldownMs : Nat, budget : ActionBudget,
     workloads : [Workloads -> WorkloadPolicy],
     allows : SUBSET Mechanism]

NoneUsed == [k \in Counter |-> 0]

\* workload_policy_for, for a workload that has no policy of its own.
PermissiveWorkload == [nonPreemptible |-> FALSE, value |-> 0,
                       hardSloFloor |-> 0, allows |-> Mechanism]

\* The policy of a freshly constructed governor.
DefaultPolicy ==
    [generation |-> 0, actionability |-> 20, release |-> 10, hysteresis |-> 2,
     minAttribution |-> 3, minConfidence |-> 60, maxConsecutive |-> 3,
     cooldownMs |-> 5000,
     budget |-> [max |-> [k \in Counter |->
                            CASE k = "preemptions" -> 3
                              [] k = "throttles"   -> 8
                              [] k = "all"         -> 32
                              [] OTHER             -> 2],
                 windowMs |-> 60000, windowStart |-> 0, used |-> NoneUsed],
     workloads |-> [w \in Workloads |-> PermissiveWorkload],
     allows |-> Mechanism \ {"deferral"}]

ValidPolicy(p) ==
    /\ p.actionability \in 0..100
    /\ p.release \in 0..100
    /\ p.release < p.actionability
    /\ p.hysteresis > 0
    /\ p.minConfidence \in 0..100
    /\ p.maxConsecutive > 0
    /\ \A k \in {"preemptions", "migrations", "throttles", "all"} :
          p.budget.max[k] > 0
    /\ \A w \in Workloads : p.workloads[w].hardSloFloor \in 0..100

\* class_eligible: the policy-wide toggles, before any target is considered.
ClassEligible(p, cls) ==
    \/ cls \in Passive \cup {"RELEASE_OPTIONAL_RESIDENCY",
                             "SHED_LOW_VALUE_WORK", "PROTECT_HIGH_VALUE_WORK"}
    \/ cls \in ThrottleFamily /\ "throttle" \in p.allows
    \/ cls = "DEFER_NEW_WORK" /\ "admissionRestriction" \in p.allows
    \/ cls = "REQUEST_PREEMPTION" /\ "preemption" \in p.allows
    \/ cls \in {"REQUEST_MIGRATION", "REQUEST_REPLACEMENT"}
       /\ "migration" \in p.allows
    \/ cls = "CHANGE_PLACEMENT" /\ "placementChange" \in p.allows
    \/ /\ cls \in {"REQUEST_BANDWIDTH_REALLOCATION",
                   "REQUEST_COMMUNICATION_REPLAN",
                   "REQUEST_COLLECTIVE_RESCHEDULE"}
       /\ p.allows \cap {"bandwidthRequest", "collectiveScheduling"} # {}
=============================================================================
