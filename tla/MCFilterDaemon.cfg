SPECIFICATION Spec
CONSTANTS
  Lines <- MCLines
  Texts <- MCTexts
  Statics = {"macro"}
  Absent = Absent
  NoAddr = "none"
  MaxTime = 2
  MaxWrites = 2
  MaxId = 7
  MaxRefused = 1
  MaxStarts = 1
INVARIANTS DaemonInv
PROPERTIES KeptUntouched StopsOnSignal Converges
CHECK_DEADLOCK FALSE
