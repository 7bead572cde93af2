----------------------------- MODULE MCRegistry -----------------------------
(***************************************************************************)
(* Instances of Registry for TLC.                                          *)
(***************************************************************************)
EXTENDS Registry, TLC

(* Goroutines and callbacks are interchangeable. *)
Symmetry == Permutations(Goroutines) \cup Permutations(Callbacks)
=============================================================================
