SPECIFICATION FairSpec
CONSTANTS
  MaxInstances = 2
  MaxPublish = 2
  MaxRegistrations = 1
  EventCap = 1
  Callers = {c1}
INVARIANTS
  LibTypeOK
  InstancesOwned
  ResultsHaveClaims
  SlotNotStale
  EventsBacked
PROPERTIES
  NotifyEnded
  WaitStops
  UpdateReachesCallback
CHECK_DEADLOCK FALSE
