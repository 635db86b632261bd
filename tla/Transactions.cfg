SPECIFICATION Spec
CONSTANTS
  nil = nil
  true = true
  false = false
  kopano = kopano
  mail = mail
  Clients = {c1, c2}
  Addresses = {a1, a2}
  Instances = {k1, k2, k3}
  IntLimit = 32
  Second = 10
  Seconds = {0, 3, 4, 63}
  Responses <- MCResponses
  NewClaims <- MCNewClaims
  Calls <- MCCalls
SYMMETRY Symmetry
INVARIANTS
  TransTypeOK
  OwnTransaction
  StoreExact
  TimeoutsKept
  ErrorOrder
  SuccessIsEarned
PROPERTIES
  ImplementsSessions
CHECK_DEADLOCK FALSE
