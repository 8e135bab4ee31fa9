----------------------------- MODULE MCGovernor -----------------------------
(***************************************************************************)
(* Values for the constants of Governor: the reports, policies and         *)
(* authority contexts of the small instances the .cfg files choose from.   *)
(* Workload 1 is the one that complains; 2 and 3 are its neighbors.        *)
(***************************************************************************)
EXTENDS Replay, GovernorLeases

\* A throughput report with baseline 100, so that the degradation of the
\* victim is exactly 100 - observation percent.
Throughput(id, victim, neighbors, domain, observation, attribution, status) ==
    [id |-> id, victim |-> victim, neighbors |-> neighbors, domain |-> domain,
     metric |-> "HIGHER_IS_BETTER", baseline |-> 100,
     observation |-> observation, degradation |-> 0, confidence |-> 90,
     samples |-> 10, attribution |-> attribution, confounded |-> FALSE,
     status |-> status]

None == {}

-----------------------------------------------------------------------------
(* Reports.  The workers of the repository report under fixed ids (1001 and *)
(* 2001 there, 7 and 8 here) and republish under the same id.               *)

Severe == Throughput(7, 1, {2}, "COMPUTE", 60, 3, "CURRENT")
Confounded == [Severe EXCEPT !.status = "CONFOUNDED"]
Awaiting == [Severe EXCEPT !.status = "REVALIDATION_REQUIRED"]
Mild == [Severe EXCEPT !.observation = 90]

\* Numbered by the governor, and measured as a latency off the scale.
SevereLatency == [Severe EXCEPT !.id = 0, !.metric = "LOWER_IS_BETTER",
                                !.observation = 230]

\* Neighbor 2 turns out to be a victim itself, on another resource.
Shifted == Throughput(9, 2, {1}, "PCIE", 20, 3, "CURRENT")

LifecycleReports == {SevereLatency}
ConfoundedReports == {Severe, Confounded}
SevereReports == {Severe}
RestartReports == {Severe, Awaiting}
VerificationReports == {Severe, Mild, Shifted}

\* Observations after an action: cured, better, unchanged, worse; under the
\* id the worker uses for them, and numbered by the governor.
Cured == Throughput(8, 1, {}, "COMPUTE", 95, 3, "CURRENT")
Improved == [Cured EXCEPT !.observation = 70]
Unchanged == [Cured EXCEPT !.observation = 60]
Worsened == [Cured EXCEPT !.observation = 40]

LifecyclePost == {[Cured EXCEPT !.id = 0], Unchanged}
CuredPost == {Cured}
VerificationPost == {Cured, Improved, Worsened}

-----------------------------------------------------------------------------
(* Policies and contexts. *)

\* Only throttling and preemption, no cooldown.
Prompt == [DefaultPolicy EXCEPT !.generation = 1, !.cooldownMs = 0,
                                !.allows = {"throttle", "preemption"}]
PromptPolicies == {Prompt}
RestartPolicies == {[Prompt EXCEPT !.generation = 2]}

\* Small limits, a short window and a cooldown shorter than that.
Tight == [Prompt EXCEPT !.cooldownMs = 3, !.maxConsecutive = 2,
                        !.budget.max = [DefaultPolicy.budget.max EXCEPT
                                          !["throttles"] = 2,
                                          !["preemptions"] = 1],
                        !.budget.windowMs = 6]
TightPolicies == {Tight}

\* Workload 2 has to keep 30% of its service.
Floor == [Prompt EXCEPT !.workloads[2].hardSloFloor = 30]
FloorPolicies == {Floor}

Known == [epoch |-> 1, policyGeneration |-> 0, stamp |-> 1,
          generations |-> [w \in Workloads |-> 1],
          boots |-> [w \in Workloads |-> 1]]
KnownAuthorities == {Known}

\* An SLO revision that brings an older policy generation, after workload 2 was
\* started again.
ChangedAuthorities == {[Known EXCEPT !.stamp = 2, !.policyGeneration = 1,
                                     !.generations[2] = 2]}
=============================================================================
