\* One operation sent with two argument sets over two connections: an attempt
\* given up may be at work in the helper while the next is sent.
SPECIFICATION PathSpec
CONSTANTS
  Conns = {c1, c2}
  o1 = o1
  Ops = {o1}
  MaxInvocation = 1
  Invocations <- MCInvocations
  Requests <- MCPathRequests
  LedgerLimit = 1
INVARIANTS PathTypeOK NotStartedIsExact
PROPERTIES CallEnds
