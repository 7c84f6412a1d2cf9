SPECIFICATION Spec
CONSTANTS
    Conn = {c1, c2}
    Request = {r1, r2}
    Oversized = {}
    Malformed = {}
    NoConn = NoConn
    NoRequest = NoRequest
    DiskFailures = {}
    Unreachable = {}
SYMMETRY Symmetry
INVARIANT TransportIsLive
CHECK_DEADLOCK FALSE
