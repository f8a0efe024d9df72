CONSTANTS
  DebugAssertions = TRUE
  a = a
  b = b
  c = c
  Root = root
  None = none
  Tasks <- ChainAndLeaf
  Owner <- OwnerOfThree
  Client <- YieldsOn
  MaxYields = 0
SPECIFICATION FairSpec
INVARIANTS
  NothingLeft
PROPERTIES
  TasksAreTasks
  Returns
  EveryoneServed
CHECK_DEADLOCK FALSE
