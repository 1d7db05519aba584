SPECIFICATION Spec
CONSTANTS
  cmdA = cmdA
  cmdB = cmdB
  None = None
  Null = Null
  N = 2
  Cmds = {cmdA, cmdB}
  MaxIndex = 4
  SnapShotInterval = 2
  MaxStarts = 1
  Setups <- MCSetups
  Forged <- MCForged
  expectedServers = 2
SYMMETRY Sym
INVARIANTS DisagreementReported OneIsCommitted NoFalseAlarm
CHECK_DEADLOCK FALSE
