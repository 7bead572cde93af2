-------------------------- MODULE MCEchoHandlers --------------------------
(***************************************************************************)
(* Instances of EchoHandlers for TLC.                                      *)
(***************************************************************************)
EXTENDS EchoHandlers, TLC

(* Acceptors and peers are interchangeable. For runs that check no         *)
(* liveness.                                                               *)
Symmetry == Permutations(Acceptors) \cup Permutations(Peers)
=============================================================================
