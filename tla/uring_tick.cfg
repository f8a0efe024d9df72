CONSTANTS
  NumOps = 2
  w1 = w1
  w2 = w2
  Wakers <- TwoWakers
  NoWaker = none
  SqCapacity = 2
  MaxTimeouts = 1
  ReversedTest = TRUE
SPECIFICATION Spec
INVARIANT PassesOverReserved
CHECK_DEADLOCK FALSE
