SPECIFICATION FairSpec
CONSTANTS
  Cases = 3
  TimeLimitMs = 1000
  MemoryLimitMb = 16
  Cpus = {999, 1000}
  Walls = {2400}
  Rss = {14745, 14746}
  CaseOverheadMs = 50
  MaxFaults = 2
INVARIANTS TypeOK CaseStartsClean ReleasedIsQuiet VerdictIsEarned FailureHasCause
PROPERTIES RunReturns
CHECK_DEADLOCK FALSE
