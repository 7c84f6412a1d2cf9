---------------------------- MODULE MCHostSetup ----------------------------
EXTENDS HostSetup, TLC

CONSTANTS c1, c2, d1, d2

\* Two installs and two daemons on one port; an install and an uninstall, and two
\* daemons on ports of their own.
Jobs(first, second)  == (c1 :> first) @@ (c2 :> second)
Ports(first, second) == (d1 :> first) @@ (d2 :> second)
MCSetups == {
    [job |-> Jobs("install", "install"),   port |-> Ports(10000, 10000)],
    [job |-> Jobs("install", "uninstall"), port |-> Ports(10000, 10001)]}
=============================================================================
