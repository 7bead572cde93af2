------------------------- MODULE MCSubmissionQueue -------------------------
(***************************************************************************)
(* Instances of SubmissionQueue for TLC. The cfg files choose the ring     *)
(* size, the counter width and the kind of ring.                           *)
(***************************************************************************)
EXTENDS SubmissionQueue, TLC

(* Operations are interchangeable: no action looks inside one. Used by the *)
(* runs that check no liveness.                                            *)
OpSymmetry == Permutations(Ops)
=============================================================================
