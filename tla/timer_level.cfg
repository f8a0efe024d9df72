CONSTANTS
  Nodes = {n1, n2, n3}
  Nil = nil
  Lists = {0, 1, 2, 3, 4}
  LEVEL_MULT = 4
  NUM_LEVELS = 2
  MaxTime = 6
  FullRotation = FALSE
SPECIFICATION Spec
INVARIANTS
  TypeOK
  ListsLinked
  OccupiedExact
  NoPanic
  NextIsEarliest
  ExpiresInSlot
CHECK_DEADLOCK FALSE
