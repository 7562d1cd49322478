SPECIFICATION FairSpec
CONSTANTS
  Panes = {1, 2}
  FirstPanes = {1, 2}
  Machines = {home}
  Home = home
  MaxHosts = 1
  MaxRehosts = 1
  MaxAttempts = 1
PROPERTIES
  RedialsComeToRest
CHECK_DEADLOCK FALSE
