SPECIFICATION Spec
CONSTANTS
  Day = 2
  MaxDrawdown = 15
  MaxConsecutiveLosses = 2
  MaxDailyLoss = 5
  MaxOrderErrors = 2
  Outcomes <- MCOutcomes
  MaxClock = 9
  MaxFailures = 3
  MaxResets = 1
  Faults = TRUE
INVARIANTS
  TypeOK
  ReplayFindsFirstTrip
  GateMissesNothing
PROPERTIES
  OneAlertPerTrip
  StatusClosedByResetOnly
CHECK_DEADLOCK FALSE
