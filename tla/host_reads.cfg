SPECIFICATION MCSpec
CONSTANTS
  r1 = r1
  r2 = r2
  Reads <- MCReads
  Kinds <- MCKinds
  Candidates = 3
  Batch = 2
  Sections = 4
  Limit = 2
  Matching <- MCMatching
  Fixed = 4
  MaxBytes = 11
  Headroom = 2
  Envelope = 2
  Records = {0, 1, 2, 4}
  MaxRecords = 4
  PageLimit = 2
  ByteLimit = 3
  Results <- MCResults
  Target = 16
  Loose <- MCLoose
  Tight <- MCTight
  MaxDepth = 2
  MaxOmissions = 4
  Limits <- MCLimits
  Bounds <- MCBounds
  Unit <- MCUnit
  Compiled = {"query_logs"}
  Environments <- MCEnvironments
  Remotes <- MCRemotes
INVARIANTS
  ReadsCounted
  TrimExact
  PagesTrue
  ContextTrue
  CeilingHolds
PROPERTIES
  MachinesEnd
CHECK_DEADLOCK FALSE
