CONSTANTS
  Capacity = 1
  Borrowers = {b1}
  MaxFaults = 1
  MaxContainers = 2
SPECIFICATION Spec
CHECK_DEADLOCK FALSE
INVARIANT ExitLeavesNoContainer
