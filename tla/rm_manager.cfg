SPECIFICATION ThreadSpec
CONSTANTS
  Requests = {r1, r2, r3, r4}
  AddCanFail = TRUE
  InitCanFail = TRUE
  DrainSteps = 2
INVARIANTS
  TypeOK
  OwnedOnce
  CurlHoldsExecuting
  NothingSkipped
  NothingSurvivesShutdown
PROPERTIES
  ShutdownReturns
  AnsweredOrDroppedOnce
  EventuallyResolved
