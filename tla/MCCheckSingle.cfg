SPECIFICATION FairSpec
CONSTANTS
  W = 2
  N = 3
  Inputs <- MCInputs
  MaxTime = 3
INVARIANTS
  VerdictRight
  LargestIsLongest
  PartialsReplay
PROPERTIES
  SearchEnds
