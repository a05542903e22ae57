SPECIFICATION Spec
CONSTANTS
  Flow = {f1, f2, f3}
  Null = Null
  Interval = 1
  QueueSize = 1
  CommandSize = 1
  ReportSize = 1
  LearnMayFail = TRUE
  WriteMayFail = FALSE
  EarlyTimeout = FALSE
  Prompt = TRUE
  Pid = 1
  EarlierPid = 2
  TagSize = 4
CONSTRAINT CounterBound
CHECK_DEADLOCK FALSE
SYMMETRY Symmetry
INVARIANTS  LinksLead
