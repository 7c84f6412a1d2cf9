SPECIFICATION FairSpec
CONSTANTS
    c1 = c1
    c2 = c2
    c3 = c3
    Command = {c1, c2, c3}
    Kinds <- MCKinds
    Broker = {b1, b2}
    NoBroker = none
    Probe = probe
    ConnectRetries = 2
    Backlog = 1
    MaxFaults = 1
INVARIANTS BrokerInv OneBroker
PROPERTIES ApprovalSpec CommandsEnd
CHECK_DEADLOCK FALSE
