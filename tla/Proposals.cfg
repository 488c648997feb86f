SPECIFICATION Spec
CONSTANTS
  s1 = s1
  s2 = s2
  Symbols = {s1, s2}
  Ids = {1, 2, 3}
  Signals <- MCSignals
  DayCandles <- MCDayCandles
  Day = 2
  ApprovalTTL = 1
  ChannelCap = 1
  MaxClock = 9
  MaxTaps = 2
  Faults = TRUE
  NoProposal = NoProposal
INVARIANTS
  TypeOK
  NoProposalForgotten
  BookSurvivesRestart
  FilledMeansFilled
  ReplayIsStable
PROPERTIES
  ImplementsProposalLife
  AwaitEnds
CHECK_DEADLOCK FALSE
