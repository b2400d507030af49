SPECIFICATION Spec
CONSTANTS
  MaxRequests = 1
  MaxUnits = 1
  MaxInterim = 1
  Capacity = 1
INVARIANTS
  DeliveredIsWhole
CHECK_DEADLOCK FALSE
