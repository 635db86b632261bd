SPECIFICATION Spec
CONSTANTS
  MaxInstances = 1
  MaxPublish = 2
  MaxRegistrations = 2
  EventCap = 4
  Callers = {c1}
INVARIANT
  CanBeUnset
CHECK_DEADLOCK FALSE
