--------------------------- MODULE DurableGovernor ---------------------------
(***************************************************************************)
(* The governor with its state file: what save() writes, what load() and   *)
(* open() accept and install, and what a restart makes of it.              *)
(***************************************************************************)
EXTENDS Governor, Persistence

CONSTANT MaxCollectionLen       \* 2^20 in the code

\* GovernorState, as save_to_bytes encodes it.
Memory ==
    [policy |-> policy, authority |-> authority, evidence |-> evidence,
     nextEvidenceId |-> nextEvidenceId, conflicts |-> conflicts,
     interventions |-> interventions, fairness |-> fairness]

\* GovernorState of a governor that was just constructed.
BlankMemory ==
    [policy         |-> DefaultPolicy,
     authority      |-> [epoch |-> 0, policyGeneration |-> 0, stamp |-> 0,
                         generations |-> [w \in Workloads |-> 0],
                         boots |-> [w \in Workloads |-> 0]],
     evidence       |-> << >>,
     nextEvidenceId |-> 1,
     conflicts      |-> << >>,
     interventions  |-> << >>,
     fairness       |-> [w \in Workloads |-> [interventionCount |-> 0,
                                              consecutive |-> 0,
                                              lastInterventionAt |-> 0]]]

InstallWithoutFairness(m) ==
    /\ policy' = m.policy
    /\ authority' = m.authority
    /\ evidence' = m.evidence
    /\ nextEvidenceId' = m.nextEvidenceId
    /\ conflicts' = m.conflicts
    /\ interventions' = m.interventions
    /\ fairness' = BlankMemory.fairness
    /\ calls' = {}
    /\ handed' = [i \in DOMAIN m.interventions |-> 0]

\* The governor's state becomes m, in a process that has dispatched nothing.
Install(m) ==
    /\ policy' = m.policy
    /\ authority' = m.authority
    /\ evidence' = m.evidence
    /\ nextEvidenceId' = m.nextEvidenceId
    /\ conflicts' = m.conflicts
    /\ interventions' = m.interventions
    /\ fairness' = m.fairness
    /\ calls' = {}
    /\ handed' = [i \in DOMAIN m.interventions |-> 0]

-----------------------------------------------------------------------------
(* Decoding gives back every field as it was encoded, but it has limits     *)
(* that encoding does not: collections that grew beyond them make a file    *)
(* that was saved without complaint and cannot be loaded.                   *)

BoundedShort(n) == n < MaxCollectionLen
Bounded(n) == n <= MaxCollectionLen

DecodableEvidence(e) == Bounded(Cardinality(e.neighbors))

DecodableConflict(c) ==
    /\ Bounded(Cardinality(c.associated))
    /\ Bounded(Len(c.evidenceIds))
    /\ Bounded(Len(c.selectedIds))

Decodable(m) ==
    /\ Bounded(Cardinality(DOMAIN m.evidence))
    /\ Bounded(Len(m.conflicts))
    /\ Bounded(Len(m.interventions))
    /\ \A id \in DOMAIN m.evidence : DecodableEvidence(m.evidence[id])
    /\ \A k \in DOMAIN m.conflicts : DecodableConflict(m.conflicts[k])
    /\ ValidPolicy(m.policy)

\* load() succeeds: a file that is there, intact and within the limits.
Loadable ==
    /\ Content(path) # NoSnapshot
    /\ Decodable(Content(path))

Reinstated(m) == m

\* What advance_epoch() makes of a state that was loaded.
Restarted(m) ==
    [m EXCEPT
        !.authority.epoch = @ + 1,
        !.evidence = [id \in DOMAIN @ |-> SuspendedEvidence(@[id])],
        !.conflicts = [k \in DOMAIN @ |-> SuspendedConflict(@[k])],
        !.interventions = [i \in DOMAIN @ |-> OrphanedIntervention(@[i])],
        !.fairness = [w \in Workloads |-> ForgivenBurden(@[w])]]

\* load() followed by advance_epoch(): how a coordinator resumes.
Resume ==
    /\ Loadable
    /\ Install(Restarted(Content(path)))
=============================================================================
