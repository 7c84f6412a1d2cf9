--------------------------- MODULE MCBrowserDaemon ---------------------------
(* Instances of BrowserDaemon for TLC. *)
EXTENDS BrowserDaemon, TLC

Symmetry == Permutations(Conn) \cup Permutations(Request \ (Malformed \cup Oversized))
=============================================================================
