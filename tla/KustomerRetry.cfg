SPECIFICATION FairSpec
CONSTANTS
  MaxInit = 1
  MaxVersion = 1
  MaxFaults = 1
PROPERTIES
  FailedFetchIsRetried
CHECK_DEADLOCK FALSE
