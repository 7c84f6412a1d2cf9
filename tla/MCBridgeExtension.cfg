\* Three sockets at a time, two requests, one connection lost, and any number of saved settings.
SPECIFICATION FairSpec
CONSTANTS
    Socket = {s1, s2, s3}
    None = None
    MaxRequest = 2
    MaxDrops = 1
INVARIANTS ExtensionInv ResponsesInOrder AnswerToCome NeverStranded OwnAnswerWhileConnected
PROPERTIES SettlesUnlessSaved RequestsDrain
CHECK_DEADLOCK FALSE
