\* No bound on connections or messages; two executions of collect() could be
\* suspended at once if the code let them.
SPECIFICATION TelemetryFairSpec
CONSTANTS
  BackoffCap = 2
  MaxStrays = 2
  Jobs = {j1, j2}
INVARIANTS
  AlwaysReconnecting TimersOwned SessionEarned MarkerTruthful
  TelemetryTypeOK
  CollectionsShared
PROPERTIES
  BackoffHolds
  OpenedIsDecided SilentPeerDropped EventuallyReady SessionCollects
