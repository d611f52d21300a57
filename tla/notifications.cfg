CONSTANTS
  N = 2
  Capacity = 1
SPECIFICATION Spec
INVARIANTS
  TypeOK
  WaitTellsTruth
  DeliveredInOrder
  EveryDeathIsTold
  AbandonedUnheard
  ErrorIsLastAndTrue
PROPERTIES
  WaitForReturns
  EventsReachReader
  ReachesResult
