-------------------------------- MODULE Replay --------------------------------
(***************************************************************************)
(* replay: the conflicts of a state are evaluated again and each decision  *)
(* is compared with the interventions recorded as selected for it.         *)
(***************************************************************************)
EXTENDS Governor

\* Nothing was ever selected, or the decision of today is among what was.
Reproduced(k) ==
    \/ conflicts[k].selectedIds = << >>
    \/ \E pick \in Decisions(policy, authority, evidence, fairness,
                             conflicts[k]) :
       \E n \in DOMAIN conflicts[k].selectedIds :
          LET i == conflicts[k].selectedIds[n]
          IN  /\ i \in DOMAIN interventions
              /\ interventions[i].cls = pick.cls
              /\ interventions[i].target = pick.target

Diverged == { k \in DOMAIN conflicts : ~Reproduced(k) }

-----------------------------------------------------------------------------
\* replay() confirms an authorization that followed the evaluation at once: the
\* intervention on record is the one the evaluation finds again, although the
\* authorization changed burden, budget and conflict.  Only a target that has
\* thereby reached its limit of consecutive interventions makes it diverge.
ReplayConfirms ==
    [][\A i \in DOMAIN interventions' \ DOMAIN interventions :
          LET iv == interventions'[i]
              evaluated == [cls |-> iv.cls, target |-> iv.target]
          IN  evaluated \in Decisions(policy, authority, evidence, fairness,
                                      conflicts[iv.conflictId])
              => \/ iv.conflictId \notin Diverged'
                 \/ fairness'[iv.target].consecutive
                       >= policy.maxConsecutive]_vars
=============================================================================
