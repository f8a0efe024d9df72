CONSTANTS
  DebugAssertions = FALSE
  MaxWakers = 4
  Client <- AnyClient
SPECIFICATION FairSpec
INVARIANTS
  TypeOK
  NoUseAfterFree
  NeverPollDropped
  OutputOwned
  NoLostWakeup
  AwaiterNotStranded
  AssertionsHold
  NoFault
  OneRunnable
  FutureDroppedOnce
  NoLeak
PROPERTIES
  CancelledNeverPolled
  NoneAfterDrop
  KeepsContract
  WokenIsPolled
  FinishedResolves
CHECK_DEADLOCK FALSE
