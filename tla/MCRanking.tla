----------------------------- MODULE MCRanking -----------------------------
(***************************************************************************)
(* Inputs for Ranking: two interferers that may tie in everything but      *)
(* their ids, under every combination of three mechanisms, with and        *)
(* without hard constraints on one of them.                                *)
(***************************************************************************)
EXTENDS Ranking

Guarded(kind) ==
    CASE kind = "open"     -> PermissiveWorkload
      [] kind = "pinned"   -> [PermissiveWorkload EXCEPT !.nonPreemptible = TRUE]
      [] kind = "critical" -> [PermissiveWorkload EXCEPT !.hardSloFloor = 100,
                                                         !.value = 5]

PolicyOf(kind, mechanisms) ==
    [DefaultPolicy EXCEPT !.allows = mechanisms,
                          !.workloads[2] = Guarded(kind)]

Toggled == { PolicyOf(kind, mechanisms) :
               kind \in {"open", "pinned", "critical"},
               mechanisms \in { {}, {"preemption"}, {"bandwidthRequest"},
                                {"preemption", "migration"} } }
Throttling == { PolicyOf(kind, {"throttle"}) : kind \in {"open", "critical"} }

ConflictOn(targets) ==
    [victim |-> 1, domain |-> "COMPUTE", associated |-> targets,
     degradation |-> 40, evidenceIds |-> <<1>>, selectedIds |-> << >>,
     state |-> "ACTIONABLE"]

Burden(n) == [w \in Workloads |->
                [interventionCount |-> IF w = 2 THEN n ELSE 0,
                 consecutive |-> IF w = 2 THEN n ELSE 0,
                 lastInterventionAt |-> 0]]
Evaluations(policies, targets, burdens) ==
    [policy : policies, conflict : {ConflictOn(targets)},
     fairness : { Burden(n) : n \in burdens }]

\* The six throttling classes are ranked on one target only.
EvaluationsUnderTest == Evaluations(Toggled, {2, 3}, {0, 3})
                          \cup Evaluations(Throttling, {2}, {0, 3})

Everywhere == [epoch |-> 1, policyGeneration |-> 0, stamp |-> 1,
               generations |-> [w \in Workloads |-> 1],
               boots |-> [w \in Workloads |-> 1]]
=============================================================================
