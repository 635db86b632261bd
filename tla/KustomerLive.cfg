SPECIFICATION FairSpec
CONSTANTS
  MaxInit = 1
  MaxVersion = 2
  MaxFaults = 2
PROPERTIES
  Converges
  ReadyWithoutAutoRefresh
  RefreshEnds
CHECK_DEADLOCK FALSE
