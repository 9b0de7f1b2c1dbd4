CONSTANTS
  Capacity = 1
  Borrowers = {b1, b2}
  MaxFaults = 2
  MaxContainers = 3
SPECIFICATION FairSpec
CHECK_DEADLOCK FALSE
INVARIANTS TypeOK NoSharedSandbox SlotsConserved AvailableIsClean NothingForgotten
PROPERTIES CloseRemovesAll CapacityComesBack
