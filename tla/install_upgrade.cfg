SPECIFICATION FairSpec
CONSTANTS
  Requests <- Upgrades
  Fragile = {"install"}
PROPERTIES RecoveryEnds
CHECK_DEADLOCK FALSE
