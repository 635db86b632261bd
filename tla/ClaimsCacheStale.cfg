SPECIFICATION CacheSpec
CONSTANTS
  MaxInit = 1
  MaxVersion = 2
  MaxFaults = 0
  Callers = {c1, c2}
  NoCaller = NoCaller
  MaxCalls = 2
INVARIANTS
  CacheFresh
CHECK_DEADLOCK FALSE
