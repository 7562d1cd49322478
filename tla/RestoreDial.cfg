SPECIFICATION FairSpec
CONSTANTS
  Tabs <- MCTabs
  Records <- MCRecords
  ProjectTabs <- MCProjectTabs
  FilesTabs <- MCFilesTabs
  FarLeaves <- MCFarLeaves
  BadLeaves <- MCBadLeaves
  None = 0
  MaxDials = 2
  MaxDemotions = 1
  MaxDeletions = 1
INVARIANTS
  TypeOK
  DialingHoldsGate
  DialsAccountedFor
  QueuesWaitForSomething

  
\* All tabs may be connected, or closed.
CHECK_DEADLOCK FALSE
