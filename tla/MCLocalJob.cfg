SPECIFICATION JobSpec
CONSTANTS
  w1 = w1
  w2 = w2
  Workers = {w1, w2}
  Pid <- MCPid
  NMap = 2
  NReduce = 2
  FileNames = {"pg", "gone", ""}
  Readable = {"pg"}
  StaleDir = FALSE
  Position = "local"
  Location = "local"
INVARIANTS
  OutputIsSequential
  CompletedMapsAreWhole
PROPERTIES
  OutputFrozen
CHECK_DEADLOCK FALSE
