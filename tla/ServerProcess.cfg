CONSTANTS
  Servers = {v1, v2}
  Requests = {r1}
  Versions = 2
  PoolSize = 2
  MaxAttempts = 2
  MaxFaults = 2
  MaxSignals = 1
  MaxBoots = 3
SPECIFICATION FairSpec
CHECK_DEADLOCK FALSE
INVARIANTS TypeOK MigrationsAreSerial AnswerStands AcknowledgedIsStored
PROPERTIES LifecycleSpec RequestsEnd ShutdownEnds
