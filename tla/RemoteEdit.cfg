SPECIFICATION FairSpec
CONSTANTS
    MaxVersions = 3
    MaxStamps = 3
    MaxKeys = 2
    MaxEvents = 1
    None = None
INVARIANTS
    TypeOK
    OneUploadPerEntry
PROPERTIES
    OverwritesOnlySeen
    ConflictIsNews
    UploadSettles
CHECK_DEADLOCK FALSE
