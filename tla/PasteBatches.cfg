SPECIFICATION FairSpec
CONSTANTS
    NumJobs = 2
    BatchOf <- TwoInOneBatch
    Tabs <- OneTab
    Owner <- BothOfShell
    Limit = 1
INVARIANTS
    PasteTypeOK
    
    RunningWithinLimit
    NoHalfFile
    FilledBatchLanded
PROPERTIES
    OverwriteChosen
    
    BatchSettles
CHECK_DEADLOCK FALSE
