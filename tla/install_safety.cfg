SPECIFICATION Spec
CONSTANTS
  Requests <- AllRequests
  Fragile = {"install", "exit", "recover"}
INVARIANTS TypeOK CommitRestorable
PROPERTIES EndsDecided
CHECK_DEADLOCK FALSE
