\* Two clients and a daemon on macOS, a session left by an earlier release.
SPECIFICATION Spec
CONSTANTS
    Client = {c1, c2}
    Daemon = {d}
    Key = {k1, k2}
    None = None
    KeychainSupported = TRUE
    Faults = FALSE
    LegacyFile = TRUE
    MaxAge = 0
    MaxTime = 1
SYMMETRY Symmetry
INVARIANTS WholeSession
PROPERTIES NeverExtended
CHECK_DEADLOCK FALSE
