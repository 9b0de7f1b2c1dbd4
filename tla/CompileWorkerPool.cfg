CONSTANTS
  Requests = {r1, r2}
  CompileWorkers = {c1}
SPECIFICATION FairSpec
CHECK_DEADLOCK FALSE
INVARIANTS TypeOK DeliveryHasRoom RecordMatchesCompiler
PROPERTIES EveryCallReturns AbandonedCompileStops CloseReturns
