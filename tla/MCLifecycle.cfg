SPECIFICATION Spec
CONSTANTS
  MaxStreams = 4
  Rx = {r1}
  Commands = 1
  Flows = {f1}
  QueueSize = 1
  MaxRecords = 1
  Stats = TRUE
  Actives <- MCActives
INVARIANTS LifeInv LeavesNothing
PROPERTIES EndsUnlessLate
CHECK_DEADLOCK FALSE
