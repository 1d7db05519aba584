SPECIFICATION RoutingSpec
CONSTANTS
  n1 = n1
  n2 = n2
  n3 = n3
  t0 = t0
  t3 = t3
  t8 = t8
  t12 = t12
  Nodes = {n1, n2, n3}
  HashMod = 6
  Id <- MCId
  fingerTableSize = 1
  InitPtr <- MCPtr
  MaxChanges = 0
  TableNodes = {t0, t3, t8, t12}
  self = t12
  TableMod = 16
  TableId <- MCTableId
  TableSize = 4
  Threads = {1}
  TableChanges = 2
INVARIANT FoundIsNode
CHECK_DEADLOCK FALSE
