SPECIFICATION FairSpec
CONSTANTS
  NPartitions = 3
INVARIANTS
  VerdictSound
PROPERTIES
  CheckEnds
CHECK_DEADLOCK FALSE
