---------------------------- MODULE GovernorLeases ----------------------------
(***************************************************************************)
(* The governor implements ActionLeases.                                   *)
(***************************************************************************)
EXTENDS Governor

\* An intervention is held as long as it is AUTHORIZED, redeemed while its
\* dispatch() is at the adapter, and spent in every other state: whatever is
\* written to the state field after that does not bring it back.
PhaseOf(i) ==
    IF i \in calls THEN "redeemed"
    ELSE IF interventions[i].state = "AUTHORIZED" THEN "held"
    ELSE "spent"

LeasesOf == [i \in DOMAIN interventions |->
               [cls |-> interventions[i].cls, target |-> interventions[i].target,
                fence |-> interventions[i].fence, phase |-> PhaseOf(i)]]

Promise == INSTANCE ActionLeases WITH leases <- LeasesOf

\* Every step of the governor is a step of the leases or none of theirs: late
\* answers, failures, verifications, refused dispatches, replaced contexts and
\* restarts included, no intervention is handed out twice, under generations
\* that are not in force, or after it was withdrawn, and its class, target and
\* fence are what was authorized.
ImplementsLeases == Promise!LeaseSpec
=============================================================================
