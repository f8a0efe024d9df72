CONSTANTS
  NumOps = 2
  w1 = w1
  w2 = w2
  Wakers <- TwoWakers
  NoWaker = none
  SqCapacity = 2
  MaxTimeouts = 0
  ReversedTest = TRUE
SPECIFICATION Spec
PROPERTY ParkWaits
CHECK_DEADLOCK FALSE
