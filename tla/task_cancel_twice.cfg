CONSTANTS
  DebugAssertions = FALSE
  MaxWakers = 3
  Client <- CancelOnly
SPECIFICATION Spec
INVARIANTS
  AtMostOneTask
CHECK_DEADLOCK FALSE
