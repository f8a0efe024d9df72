CONSTANTS
  NumOps = 2
  w1 = w1
  w2 = w2
  Wakers <- TwoWakers
  NoWaker = none
  SqCapacity = 2
  MaxTimeouts = 1
  ReversedTest = FALSE
SPECIFICATION FairSpec
INVARIANTS
  TypeOK
  NoPanic
  CompletionWakes
  OneCompletion
  WaitIsTimed
PROPERTIES
  Resolves
CHECK_DEADLOCK FALSE
