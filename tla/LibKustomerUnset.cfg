SPECIFICATION Spec
CONSTANTS
  MaxInstances = 1
  MaxPublish = 2
  MaxRegistrations = 1
  EventCap = 4
  Callers = {c1}
INVARIANT
  UnsetDoesNotPanic
CHECK_DEADLOCK FALSE
