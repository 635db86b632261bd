SPECIFICATION FairDumpSpec
CONSTANTS
  MaxInit = 1
  MaxVersion = 2
  MaxUpdates = 3
INVARIANTS
  DumpTypeOK
  ShownInOrder
PROPERTY
  UpdatesAreShown
CHECK_DEADLOCK FALSE
