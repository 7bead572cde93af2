------------------------- MODULE MCCompletionQueue -------------------------
(***************************************************************************)
(* Instances of CompletionQueue for TLC. Two slots and three requests let  *)
(* the ring overflow; a modulus of four lets the counters wrap.            *)
(***************************************************************************)
EXTENDS CompletionQueue, TLC

(* Requests are interchangeable. Used by the runs that check no liveness.  *)
RequestSymmetry == Permutations(Requests)
=============================================================================
