\* Four calls, one slot per gate and two shared places in the queues.
SPECIFICATION Spec
CONSTANTS
  Calls = {c1, c2, c3, c4}
  Concurrency <- MCConcurrency
  QueueLimit = 2
  MaxGeneration = 2
  Generations <- MCGenerations
  Results <- MCResults
INVARIANTS TypeOK SlotsAccounted BudgetAccounted RevokedWorkStopped WritesReported
PROPERTIES KeepsSessionPromise
SYMMETRY Symmetry
