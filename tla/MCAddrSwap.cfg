SPECIFICATION Spec
CONSTANTS
  Half = 4
  Tables <- MCTables
  Captures <- MCCaptures
  Headroom = 2
  MaxClock = 4
INVARIANTS SwapInv Swapped
PROPERTIES WaitsForPackets EndsOnceReady
CHECK_DEADLOCK FALSE
