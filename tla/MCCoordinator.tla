---------------------------- MODULE MCCoordinator ----------------------------
(***************************************************************************)
(* Values for the constants of Coordinator: two workers as the distributed *)
(* tests start them, with a second slot for worker 2.                      *)
(***************************************************************************)
EXTENDS Coordinator, TLC

CONSTANTS p1, p2, p3

SlotWorker == (p1 :> 1) @@ (p2 :> 2) @@ (p3 :> 2)

Configured(role, victim, neighbor) ==
    [role |-> role, victim |-> victim, neighbor |-> neighbor]

\* Both workers report that one of them is slowed down by the other: by worker
\* 2, which acknowledges at once, or by worker 1, which publishes a measurement
\* before it does.
TestSetups ==
    { (1 :> Configured("A", victim, 3 - victim))
      @@ (2 :> Configured("B", victim, 3 - victim)) : victim \in {1, 2} }

BlankAuthorities == {BlankMemory.authority}
DefaultPolicies == {DefaultPolicy}
None == {}
=============================================================================
