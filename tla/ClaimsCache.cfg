SPECIFICATION FairCacheSpec
CONSTANTS
  MaxInit = 1
  MaxVersion = 2
  MaxFaults = 0
  Callers = {c1, c2}
  NoCaller = NoCaller
  MaxCalls = 3
INVARIANTS
  CacheTypeOK
  FollowersHaveLeader
PROPERTIES
  CachedUntilReset
  MonotoneReads
  CallsReturn
CHECK_DEADLOCK FALSE
