SPECIFICATION FairSpec
CONSTANTS
  Orders <- MCOrders
  MaxRetries = 1
  MaxCalls <- MCMaxCalls
  Capacity = 1
  Parts = 2
  Refill = 1
  Window = 1
INVARIANTS
  TypeOK
  AtMostOneOrder
  RefusedMeansAbsent
  BudgetRespected
PROPERTIES
  ImplementsIdempotentOrder
  CallReturns
CHECK_DEADLOCK FALSE
