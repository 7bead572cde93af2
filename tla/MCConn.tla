------------------------------- MODULE MCConn -------------------------------
(***************************************************************************)
(* Instances of Conn for TLC.                                              *)
(***************************************************************************)
EXTENDS Conn, TLC

(* Goroutines are interchangeable. Used by the runs that check no liveness. *)
GoroutineSymmetry == Permutations(Goroutines)
=============================================================================
