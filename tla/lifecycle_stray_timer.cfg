SPECIFICATION FairSpec
CONSTANTS
  BackoffCap = 1
  MaxStrays = 1
PROPERTIES CommittedStaysUp
