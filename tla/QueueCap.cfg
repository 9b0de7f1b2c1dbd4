CONSTANTS
  v1 = v1
  v2 = v2
  w1 = w1
  w2 = w2
  Submissions = {a, b}
  Servers = {v1, v2}
  Workers = {w1, w2}
  ServerOf <- TwoServers
  LeaseDuration = 1
  MaxAttempts = 2
  MaxQueued = 1
  MaxStops = 0
SPECIFICATION Spec
CHECK_DEADLOCK FALSE
INVARIANT QueuedWithinCap
