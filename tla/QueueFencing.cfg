CONSTANTS
  v1 = v1
  v2 = v2
  w1 = w1
  w2 = w2
  Submissions = {a}
  Servers = {v1, v2}
  Workers = {w1, w2}
  ServerOf <- TwoServers
  LeaseDuration = 2
  MaxAttempts = 2
  MaxQueued = 1
  MaxStops = 1
SPECIFICATION FairSpec
CHECK_DEADLOCK FALSE
INVARIANTS TypeOK ResultFromCurrentAttempt ExclusiveAttempt RunningIsLeased RecoveryReadsAreCurrent
PROPERTIES TerminalIsFinal NoEarlyTakeover EverySubmissionSettles
