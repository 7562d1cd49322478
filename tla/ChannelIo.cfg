SPECIFICATION FairSpec
CONSTANTS
  Channels = {c1, c2}
  CmdMax = 2
  InMax = 1
INVARIANTS
  TypeOK
  
PROPERTIES
  ReleasedTaskEnds
  InputServed
\* All channels may have ended.
CHECK_DEADLOCK FALSE
