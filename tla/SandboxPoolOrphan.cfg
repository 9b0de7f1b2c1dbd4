CONSTANTS
  Capacity = 1
  Borrowers = {b1}
  MaxFaults = 2
  MaxContainers = 3
SPECIFICATION Spec
CHECK_DEADLOCK FALSE
INVARIANT ProvisionedIsRemoved
