\* Two clients and a daemon on a system without a keychain.
SPECIFICATION Spec
CONSTANTS
    Client = {c1, c2}
    Daemon = {d}
    Key = {k1, k2}
    None = None
    KeychainSupported = FALSE
    Faults = TRUE
    LegacyFile = TRUE
    MaxAge = 0
    MaxTime = 1
SYMMETRY Symmetry
INVARIANTS StoreInv
PROPERTIES MetadataKeepsSession
CHECK_DEADLOCK FALSE
