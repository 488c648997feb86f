CONSTANTS
  NoBar = NoBar
  NoPosition = NoPosition
  NoRecord = NoRecord
  Symbols = {1}
  Benchmark = 1
  InitialCash = 1000
  MaxPositions = 1
  MaxExposurePct = 80
  CooldownDays = 1
  RiskPct = 30
  MaxPositionPct = 70
  Step = 1
  MinNotional = 10
  Day = 1
  MaxDrawdown = 25
  MaxConsecutiveLosses = 2
  MaxDailyLoss = 30
  MaxOrderErrors = 5
  Histories <- MCHistories
  LockedStart = 10
  TrainDays = 4
  TestDays = 2
  StepDays = 2
  MarginDays = 3
  Configured <- MCConfigured
  AxesChoices <- MCAxes
  MinTradesChoices = {1, 2}
  BullReturn = 200
  BearReturn = 200
  PlateauDrop = 350
  OtherBars <- MCOtherBars
  MaxCommands = 3
SPECIFICATION Spec
INVARIANTS TypeOK NoPeek OneCurve LookedOnce
CHECK_DEADLOCK FALSE
