SPECIFICATION Spec
CONSTANTS
  Cases = 1
  TimeLimitMs = 5000
  MemoryLimitMb = 16
  Cpus = {10, 5000}
  Walls = {20, 5100}
  Rss = {1000}
  CaseOverheadMs = 50
  MaxFaults = 2
INVARIANTS BlockedIsJudged
CHECK_DEADLOCK FALSE
