SPECIFICATION MonitorSpec
CONSTANTS
  MaxStreams = 2
  NumEntries = 2
  Layouts <- MCLayouts
  MaxChanges = 2
  MaxDrops = 1
  MaxSamples = 3
  MaxStarts = 1
INVARIANTS WrittenInOrder
PROPERTIES Window RowsAreStreams InBounds
CHECK_DEADLOCK FALSE
