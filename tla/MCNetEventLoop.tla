--------------------------- MODULE MCNetEventLoop ---------------------------
(***************************************************************************)
(* Instances of NetEventLoop for TLC.                                      *)
(***************************************************************************)
EXTENDS NetEventLoop, TLC

(* Clients are interchangeable. For runs that check no liveness.           *)
ClientSymmetry == Permutations(Clients)
=============================================================================
