SPECIFICATION Spec
CONSTANTS
  Second = 4
  Boundary = 2
  CounterMod = 8
  DefaultMod = 3
  Options <- MCOptions
  Captures <- MCCaptures
  NoValue = NoValue
  None = NoValue
  MaxClock = 15
  MaxIter = 6
INVARIANTS ReplayInv InOwnBoundary
PROPERTIES BeginsAhead FirstIterationLeaves Ends
CHECK_DEADLOCK FALSE
