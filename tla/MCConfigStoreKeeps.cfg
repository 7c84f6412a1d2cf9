\* One client and a daemon on macOS: a metadata write deletes the secret.
SPECIFICATION Spec
CONSTANTS
    Client = {c1}
    Daemon = {d}
    Key = {k1, k2}
    None = None
    KeychainSupported = TRUE
    Faults = FALSE
    LegacyFile = FALSE
    MaxAge = 0
    MaxTime = 1
SYMMETRY Symmetry
PROPERTIES MetadataKeepsSession
CHECK_DEADLOCK FALSE
