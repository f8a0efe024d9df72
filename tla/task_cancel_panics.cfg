CONSTANTS
  DebugAssertions = FALSE
  MaxWakers = 3
  Client <- CancelOnly
SPECIFICATION Spec
INVARIANTS
  CancelNeverPanics
CHECK_DEADLOCK FALSE
