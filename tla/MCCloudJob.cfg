SPECIFICATION FairJobSpec
CONSTANTS
  w1 = w1
  w2 = w2
  Workers = {w1, w2}
  Pid <- MCPid
  NMap = 2
  NReduce = 1
  FileNames = {"pg"}
  Position = "cloud"
  Location = "cloud"
  Trials <- MCTrials
INVARIANTS
  OutputIsSequential
  CompletedMapsReturn
PROPERTIES
  ServerEndsOnOverlap
  JobIsFetched
CHECK_DEADLOCK FALSE
