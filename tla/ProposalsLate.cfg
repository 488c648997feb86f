SPECIFICATION Spec
CONSTANTS
  s1 = s1
  s2 = s2
  Symbols = {s1, s2}
  Ids = {1, 2}
  Signals <- MCSignals
  DayCandles <- MCDayCandles
  Day = 2
  ApprovalTTL = 1
  ChannelCap = 1
  MaxClock = 9
  MaxTaps = 2
  Faults = FALSE
  NoProposal = NoProposal
PROPERTY NoLateApproval
CHECK_DEADLOCK FALSE
