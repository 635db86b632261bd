SPECIFICATION Spec
CONSTANTS
  MaxInit = 2
  MaxVersion = 2
  MaxFaults = 0
PROPERTIES
  LaterGenerationStays
CHECK_DEADLOCK FALSE
