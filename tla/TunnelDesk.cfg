SPECIFICATION FairDeskSpec
CONSTANTS
    Tunnels <- One
    RemoteTunnels <- Empty
    SessionTunnels <- One
    MaxRuns = 2
    MaxAttempts = 1
    MaxEvents = 3
    None = None
    Free = Free
    Stale = Stale
INVARIANTS
    NoOrphanRun
    DeletedSessionIsSilent
    
    
PROPERTIES
    StoppedRunEnds
CHECK_DEADLOCK FALSE
