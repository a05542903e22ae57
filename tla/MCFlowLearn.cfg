SPECIFICATION Spec
CONSTANTS
  Flow = {f1, f2}
  Null = Null
  Interval = 2
  QueueSize = 2
  CommandSize = 1
  ReportSize = 2
  LearnMayFail = FALSE
  WriteMayFail = TRUE
  EarlyTimeout = FALSE
  Prompt = TRUE
  Pid = 1
  EarlierPid = 2
  TagSize = 4
INVARIANTS
  ListInv
  References
CHECK_DEADLOCK FALSE
PROPERTY EveryFlowPolled
