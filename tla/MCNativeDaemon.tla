---------------------------- MODULE MCNativeDaemon ----------------------------
(* Instances of NativeDaemon for TLC. *)
EXTENDS NativeDaemon
=============================================================================
