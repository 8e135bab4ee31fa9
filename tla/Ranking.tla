------------------------------ MODULE Ranking ------------------------------
(***************************************************************************)
(* The candidate loop of evaluate_conflict and the selection it feeds.     *)
(* The code visits targets and classes in one fixed order and takes the    *)
(* front of the sorted list; here candidates are visited in every order    *)
(* and the front is kept as the loop goes, so that the outcome is shown to *)
(* be the property of the set of candidates, not of their enumeration.     *)
(***************************************************************************)
EXTENDS Engine

CONSTANTS
    Cases,               \* the evaluations: policy, conflict and fairness
    Context              \* the authority context

ASSUME RankingAssumption ==
    /\ Cases \subseteq [policy : ContentionPolicy, conflict : ContentionConflict,
                        fairness : [Workloads -> FairnessRecord]]
    /\ Context \in AuthorityContext

VARIABLES
    p, c, fairness,      \* the input of the evaluation
    pending,             \* candidates not visited yet
    front                \* the best feasible one so far, if any, as a set

rankingVars == <<p, c, fairness, pending, front>>

Init ==
    /\ \E case \in Cases : /\ p = case.policy
                          /\ c = case.conflict
                          /\ fairness = case.fairness
    /\ pending = Candidates(p, c)
    /\ front = {}

\* A visit: an infeasible candidate is dropped, a feasible one takes the front
\* if it is better than what is there.
Visit(cand) ==
    /\ pending' = pending \ {cand}
    /\ front' = IF /\ Feasible(p, Context, fairness, cand.target, cand.cls,
                               MakeFence(Context, cand.target))
                   /\ \A best \in front : Better(p, cand, best)
                THEN {cand}
                ELSE front
    /\ UNCHANGED <<p, c, fairness>>

Next == \E cand \in pending : Visit(cand)

Spec == Init /\ [][Next]_rankingVars

-----------------------------------------------------------------------------
\* "Candidate enumeration order never changes the result": whatever has been
\* visited, in whatever order, the front is the one best feasible candidate of
\* it, and there is one as soon as anything visited was feasible.
OrderIrrelevant ==
    LET seen == FeasibleCandidates(p, Context, fairness, c) \ pending
    IN  /\ front = Best(p, seen)
        /\ seen # {} => \E best \in seen : front = {best}
=============================================================================
