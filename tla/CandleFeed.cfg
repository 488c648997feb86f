SPECIFICATION FairSpec
CONSTANTS
  Symbols = {1}
  Runners <- MCRunners
  Jobs <- MCJobs
  Rewind = 2
  PageSize = 2
  Horizon = 4
  LastBar = 4
  MaxRuns = 3
  MaxFaults = 1
INVARIANTS
  TypeOK
  NoUnexplainedHole
  UpdateCatchesUp
  VerifyPasses
PROPERTIES
  UpdateIsIdempotent
  RunEnds
CHECK_DEADLOCK FALSE
