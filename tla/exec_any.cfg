CONSTANTS
  DebugAssertions = FALSE
  a = a
  b = b
  c = c
  Root = root
  None = none
  Tasks <- Chain
  Owner <- OwnerOfTwo
  Client <- AnyClient
  MaxYields = 1
SPECIFICATION FairSpec
INVARIANTS
  TypeOK
  NoDeadlock
  OnlyCancelledFail
PROPERTIES
  TasksAreTasks
CHECK_DEADLOCK FALSE
