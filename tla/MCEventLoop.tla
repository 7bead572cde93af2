---------------------------- MODULE MCEventLoop ----------------------------
(***************************************************************************)
(* Instances of EventLoop for TLC.                                         *)
(***************************************************************************)
EXTENDS EventLoop, TLC

(* Clients are interchangeable. For runs that check no liveness.           *)
ClientSymmetry == Permutations(Clients)
=============================================================================
