CONSTANTS
  NoBar = NoBar
  NoPosition = NoPosition
  Symbols = {1, 2}
  InitialCash = 1000
  MaxPositions = 2
  MaxExposurePct = 80
  CooldownDays = 1
  RiskPct = 5
  MaxPositionPct = 30
  Step = 1
  MinNotional = 10
  TrendPeriods = {1}
  ReturnPeriods = {1}
  LevelPeriods = {1}
  StopMult = 2
  TopN = 1
  ExitRank = 1
  Week = 2
  Weekday = 0
  ScoringFloor = 1
  MinAge = 2
  LiquidityDays = 1
  QualityDays = 1
  MarginDays = 2
  MinVolume = 3
  MaxSymbols = 2
  DayBars <- MCDayBars
  QuietBar <- Quiet
  PriorDays = 3
  LastDay = 7
SPECIFICATION Spec
INVARIANTS TypeOK OneCodePath Protected
PROPERTIES StopOnlyRises ExitsAreNotGated
CHECK_DEADLOCK FALSE
