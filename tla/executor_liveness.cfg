SPECIFICATION FairSpec
CONSTANTS
  Calls = {c1, c2, c3}
  Concurrency <- MCConcurrency
  QueueLimit = 2
  MaxGeneration = 2
  Generations <- MCGenerations
  Results <- MCFewResults
PROPERTIES CallsEnd
