SPECIFICATION FairSpec
CONSTANTS
  w1 = w1
  w2 = w2
  w3 = w3
  Workers = {w1, w2, w3}
  Pid <- MCPid
  NMap = 2
  NReduce = 1
  FileNames = {"pg"}
  Position = "cloud"
  Location = "cloud"
INVARIANTS
  CountersExact
  OneTimerPerAttempt
  ReduceAfterMaps
  LeaveOnlyWhenFinished
PROPERTIES
  CompletedIsFinal
  ImplementsJob
  JobEnds
CHECK_DEADLOCK FALSE
