---------------------------- MODULE MCHelperDaemon ----------------------------
(* Instances of HelperDaemon for TLC. *)
EXTENDS HelperDaemon, TLC

Symmetry == Permutations(Request \ Oversized)
=============================================================================
