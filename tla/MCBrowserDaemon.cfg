\* Two connections that overlap, two good requests and one that is not JSON: every
\* interleaving of attach, replacement, late answers and timeouts, and the refinement
\* of RequestService.
SPECIFICATION Spec
CONSTANTS
    Conn = {c1, c2}
    Request = {r1, r2, junk}
    Oversized = {}
    Malformed = {junk}
    NoConn = NoConn
    NoRequest = NoRequest
    DiskFailures = {}
    Unreachable = {junk}
SYMMETRY Symmetry
INVARIANTS
    BridgeInv
    NoLostWaiter
    OwnAnswer
PROPERTIES
    OnlyOwnerDetaches
    ServiceSpec
CHECK_DEADLOCK FALSE
