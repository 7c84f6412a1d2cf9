-------------------------- MODULE MCBridgeExtension --------------------------
(* Instances of BridgeExtension for TLC. *)
EXTENDS BridgeExtension, TLC

Symmetry == Permutations(Socket)
=============================================================================
