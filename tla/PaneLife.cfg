SPECIFICATION FairSpec
CONSTANTS
  Panes = {1, 2}
  FirstPanes = {1}
  Machines = {home, away}
  Home = home
  MaxHosts = 2
  MaxRehosts = 1
  MaxAttempts = 2
INVARIANTS
  TypeOK
  OneRedialPerHost
  
  
PROPERTIES
  ClosedStaysClosed
  
\* Every shell may have been left for good.
CHECK_DEADLOCK FALSE
