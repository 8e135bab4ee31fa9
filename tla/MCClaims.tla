------------------------------ MODULE MCClaims ------------------------------
(***************************************************************************)
(* Instances in which each documented claim meets the case it misses.      *)
(***************************************************************************)
EXTENDS MCGovernor, DocumentedClaims

\* A controlled comparison that names 2, then a correlation that names 3.
Correlated == [Severe EXCEPT !.id = 0, !.attribution = 2, !.neighbors = {3}]
CorrelationReports == {Severe, Correlated}

\* One throttle per window.
OneThrottle == [Tight EXCEPT !.budget.max["throttles"] = 1]
OneThrottlePolicies == {OneThrottle}
=============================================================================
