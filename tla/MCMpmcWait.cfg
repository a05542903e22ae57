SPECIFICATION Spec
CONSTANTS
  Pusher = {p1, p2}
  Puller = {program}
  Capacity = 2
  MaxSpin = 1
  Budget = 2
  StatsTimer = TRUE
CHECK_DEADLOCK FALSE
INVARIANTS
  WaitInv
PROPERTIES
  SleeperHearsNewWork
  WakersReturn
  SleeperHearsShutdown
