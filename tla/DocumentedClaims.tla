-------------------------- MODULE DocumentedClaims --------------------------
(***************************************************************************)
(* What the repository's README, comments and tests say of the governor    *)
(* and its code does not keep.  Each claim is checked in a run of its own  *)
(* that ends in a counterexample.                                          *)
(***************************************************************************)
EXTENDS Governor

\* The conflict of the intervention a step has just recorded.
ActedOn == conflicts[Last(interventions').conflictId]

\* enums.hpp: "Terminals stay terminal."  on_action_failed() accepts every
\* state and the second section of dispatch() overwrites every state.
TerminalStaysTerminal ==
    [][\A i \in DOMAIN interventions :
          interventions[i].state \in Terminal
              => interventions'[i].state = interventions[i].state]_vars

\* README: "Correlation alone must not authorize destructive action."  The
\* gate reads the first CURRENT report, the targets come from the newest one.
CorrelationNeverDisrupts ==
    [][Authorizes /\ Last(interventions').cls \in Disruptive =>
          \E n \in DOMAIN ActedOn.evidenceIds :
             LET e == evidence[ActedOn.evidenceIds[n]]
             IN  /\ e.attribution >= policy.minAttribution
                 /\ Last(interventions').target \in e.neighbors]_vars

\* README: "Before dispatch the governor revalidates that [...] evidence is
\* still current".  dispatch() compares authority generations only.
DispatchOnCurrentEvidence ==
    [][\A i \in calls' \ calls :
          LET c == conflicts[interventions[i].conflictId]
          IN  \E n \in DOMAIN c.evidenceIds :
                 evidence[c.evidenceIds[n]].status = "CURRENT"]_vars

\* README: "Action budgets place exact [...] caps on [...] throttles [...] per
\* window".  So what budget_exhausted refuses is exhausted in the window that
\* consume_budget would charge now.  An exhausted class is refused before the
\* window is looked at, and so stays exhausted after it.
ExhaustionEndsWithWindow ==
    \A cls \in InterventionClass :
        BudgetExhausted(policy.budget, cls)
            => BudgetExhausted(RolledWindow(policy.budget, now), cls)
=============================================================================
