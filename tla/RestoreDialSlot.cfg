SPECIFICATION Spec
CONSTANTS
  Tabs <- MCTabs
  Records <- MCRecords
  ProjectTabs <- MCProjectTabs
  FilesTabs <- MCFilesTabs
  FarLeaves <- MCFarLeaves
  BadLeaves <- MCBadLeaves
  None = 0
  MaxDials = 2
  MaxDemotions = 1
  MaxDeletions = 1
PROPERTIES
  PlaceholderGetsItsDial
CHECK_DEADLOCK FALSE
