CONSTANTS
  DebugAssertions = FALSE
  MaxWakers = 3
  Client <- DropsEarly
SPECIFICATION Spec
PROPERTIES
  DroppedNeverPolled
CHECK_DEADLOCK FALSE
