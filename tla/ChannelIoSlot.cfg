SPECIFICATION Spec
CONSTANTS
  Channels = {c1, c2}
  CmdMax = 1
  InMax = 1
INVARIANTS
  ClosedPaneFreesSlot
CHECK_DEADLOCK FALSE
