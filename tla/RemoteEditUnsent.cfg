SPECIFICATION Spec
CONSTANTS
    MaxVersions = 2
    MaxStamps = 3
    MaxKeys = 1
    MaxEvents = 2
    None = None
INVARIANTS
    WatchingIsSent
CHECK_DEADLOCK FALSE
