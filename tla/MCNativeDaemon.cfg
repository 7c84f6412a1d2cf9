\* Two hosts one after the other, writes that fail while the first is connected, two
\* requests, one of a client that may not be reached, another process that clears and
\* rewrites config.json; the refinement of RequestService.
SPECIFICATION NativeFairSpec
CONSTANTS
    Conn = {c1, c2}
    Request = {r1, r2}
    Oversized = {}
    Malformed = {}
    NoConn = NoConn
    NoRequest = NoRequest
    DiskFailures = {c1}
    Unreachable = {r1}
INVARIANTS
    NativeInv
    HostTransportIsLive
    RoutingAgrees
PROPERTIES
    ServiceSpec
    AnsweredOrAborted
CHECK_DEADLOCK FALSE
