SPECIFICATION FairSpec
CONSTANTS
    c1 = c1
    c2 = c2
    d1 = d1
    d2 = d2
    Command = {c1, c2}
    Daemon = {d1, d2}
    Setups <- MCSetups
    None = none
    MaxFaults = 1
INVARIANTS HostInv InstallHeals
PROPERTY HostReturns
CHECK_DEADLOCK FALSE
