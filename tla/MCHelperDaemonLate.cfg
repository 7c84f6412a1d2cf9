\* Two requests: the answer to the first comes after its timeout.
SPECIFICATION Spec
CONSTANTS
    Request = {r1, r2}
    Oversized = {}
    NoRequest = NoRequest
    Unreachable = {}
    PipeSize = 1
SYMMETRY Symmetry
INVARIANTS OwnAnswer
CHECK_DEADLOCK FALSE
