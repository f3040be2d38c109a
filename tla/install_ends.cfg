SPECIFICATION FairSpec
CONSTANTS
  Requests <- Settled
  Fragile = {"install"}
PROPERTIES RunsInstalled RecoveryEnds
CHECK_DEADLOCK FALSE
