SPECIFICATION Spec
CONSTANTS
  Requests <- AllRequests
  Fragile = {"exit"}
PROPERTIES EndsWhole
CHECK_DEADLOCK FALSE
