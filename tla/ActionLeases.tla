----------------------------- MODULE ActionLeases -----------------------------
(***************************************************************************)
(* What the governor promises to those who act for it: an intervention is  *)
(* a lease on one action.  It is granted under the generations in force,   *)
(* can be redeemed once, and only while they are all still in force, and   *)
(* may be withdrawn at any time before that.  A redeemed lease is spent    *)
(* when the action returns; what is spent stays spent.                     *)
(***************************************************************************)
EXTENDS Engine

VARIABLES
    authority,      \* the generations in force
    leases          \* all leases ever granted

leaseVars == <<authority, leases>>

Phase == {"held", "redeemed", "spent"}

Lease == [cls : InterventionClass, target : Workloads, fence : Fence,
          phase : Phase]

LeaseTypeOK == authority \in AuthorityContext /\ leases \in Seq(Lease)

LeaseInit == authority \in AuthorityContext /\ leases = << >>

Grant ==
    /\ \E cls \in InterventionClass, target \in Workloads :
          leases' = Append(leases,
                           [cls |-> cls, target |-> target,
                            fence |-> MakeFence(authority, target),
                            phase |-> "held"])
    /\ UNCHANGED authority

Redeem(i) ==
    /\ leases[i].phase = "held"
    /\ leases[i].fence = MakeFence(authority, leases[i].target)
    /\ leases' = [leases EXCEPT ![i].phase = "redeemed"]
    /\ UNCHANGED authority

Withdraw(i) ==
    /\ leases[i].phase = "held"
    /\ leases' = [leases EXCEPT ![i].phase = "spent"]
    /\ UNCHANGED authority

Return(i) ==
    /\ leases[i].phase = "redeemed"
    /\ leases' = [leases EXCEPT ![i].phase = "spent"]
    /\ UNCHANGED authority

\* The generations change; leases granted under others cannot be redeemed until
\* they are in force again.
ChangeAuthority ==
    /\ authority' \in AuthorityContext
    /\ UNCHANGED leases

\* A new epoch withdraws every lease that is still held.
NewEpoch ==
    /\ authority' = [authority EXCEPT !.epoch = @ + 1]
    /\ leases' = [i \in DOMAIN leases |->
                    IF leases[i].phase = "held"
                    THEN [leases[i] EXCEPT !.phase = "spent"]
                    ELSE leases[i]]

LeaseNext ==
    \/ Grant
    \/ \E i \in DOMAIN leases : Redeem(i) \/ Withdraw(i) \/ Return(i)
    \/ ChangeAuthority
    \/ NewEpoch

LeaseSpec == LeaseInit /\ [][LeaseNext]_leaseVars
=============================================================================
