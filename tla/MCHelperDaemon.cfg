\* Two requests the helper gets and one too long for it.
SPECIFICATION FairSpec
CONSTANTS
    Request = {r1, r2, long}
    Oversized = {long}
    NoRequest = NoRequest
    Unreachable = {long}
    PipeSize = 1
INVARIANTS HelperInv FailedStartUndone GoneIsRecorded OwnAnswerInStep
PROPERTIES PipeSpec AnsweredOrStuck
CHECK_DEADLOCK FALSE
