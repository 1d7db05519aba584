SPECIFICATION FairSpec
CONSTANTS
  k1 = k1
  c1 = c1
  NServers = 1
  Clerks = {k1}
  Calls = {c1}
  MaxStarts = 2
INVARIANTS
  PositiveIsSaved
PROPERTIES
  OldInstanceIsolated
  CallReturns
CHECK_DEADLOCK FALSE
