SPECIFICATION Spec
CONSTANTS
  MaxInit = 2
  MaxVersion = 2
  MaxFaults = 1
INVARIANTS
  TypeOK
  ReadyHasClaims
  ReadyClosedOnce
  NoUpdateMissed
  NoDoubleFetch
PROPERTIES
  SameGenMonotone
  ImplementsInstance
CHECK_DEADLOCK FALSE
