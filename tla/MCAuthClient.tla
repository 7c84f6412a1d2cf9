---------------------------- MODULE MCAuthClient ----------------------------
\* The specification as it is: its progress properties forbid symmetry.
EXTENDS AuthClient
=============================================================================
