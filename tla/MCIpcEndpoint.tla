--------------------------- MODULE MCIpcEndpoint ----------------------------
(* A small instance of IpcEndpoint for TLC. *)
EXTENDS IpcEndpoint, TLC

BodySymmetry == Permutations(Body)
=============================================================================
