---------------------------- MODULE MCOperations ----------------------------
(***************************************************************************)
(* Instances of Operations for TLC.                                        *)
(***************************************************************************)
EXTENDS Operations, TLC

(* Operation objects and slices are interchangeable.                       *)
ObjectSymmetry == Permutations(Ops) \cup Permutations(Buffers)
=============================================================================
