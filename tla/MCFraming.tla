------------------------------ MODULE MCFraming ------------------------------
(***************************************************************************)
(* Values for the constants of Framing: an empty frame, one of the largest *)
(* size, and one with each defect.                                         *)
(***************************************************************************)
EXTENDS Framing

Legal(len) == [len |-> len, defect |-> "none"]

TestFrames == {Legal(0), Legal(MaxPayload)}
              \cup { [len |-> 0, defect |-> d] : d \in Defect \ {"none"} }
=============================================================================
