SPECIFICATION FairSpec
CONSTANTS
    Tunnels <- BothKinds
    RemoteTunnels <- OnlyRemote
    MaxRuns = 1
    MaxAttempts = 2
    None = None
    Free = Free
    Stale = Stale
INVARIANTS
    TypeOK
    PromptsAttended
    
    NothingLeftBehind
PROPERTIES
    ImplementsReports
    StopEnds
    
CHECK_DEADLOCK FALSE
