SPECIFICATION Spec
CONSTANTS
  Symbols = {1, 2}
  OrderIds = {o1, o2, o3, o4}
  DayBars <- MCDayBars
  NoBar = NoBar
  Qtys = {2}
  StopPrices = {2}
  InitialCash = 100
  Denom = 10
  SlippageBps = 1
  FeeBps = 1
  MaxDay = 3
  NoPosition = NoPosition
  NoOrder = NoOrder
SYMMETRY OrderIdSymmetry
INVARIANTS
  TypeOK
  LiveOrdersMatchPositions
  OrdersAccountForTrades
  CashMatchesTrades
PROPERTIES
  StopsHonoured
  NoOptimisticExit
  ImplementsPositionBook
CHECK_DEADLOCK FALSE
