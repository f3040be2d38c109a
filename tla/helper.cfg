\* Two connections, two operations, one retained record: prune always bites.
SPECIFICATION FairSpec
CONSTANTS
  Conns = {c1, c2}
  o1 = o1
  o2 = o2
  Ops = {o1, o2}
  MaxInvocation = 1
  Invocations <- MCInvocations
  Requests <- MCRequests
  LedgerLimit = 1
INVARIANTS TypeOK Serialized WriteAhead ExecutedOnce DefiniteOutcome
PROPERTIES KeepsPromise HelperRecovers
