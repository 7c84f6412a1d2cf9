\* Two commands, a daemon that is started again on either of two ports.
SPECIFICATION FairSpec
CONSTANTS
    Process = {p1, p2}
    Earlier = Earlier
    None = None
    Port = {10000, 10001}
    DefaultPort = 10000
    MaxChallenges = 2
    MaxStarts = 1
INVARIANTS ClientInv KeyAgreed OwnAnswerInStep
PROPERTIES NoOldSession  CommandsEnd
CHECK_DEADLOCK FALSE
