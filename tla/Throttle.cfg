CONSTANTS
  Signals = {"KILL", "TERM"}
  U64Max = 60
  MaxTimer = 50
  Percent = 70
  Interval = 2
  Cores = 2
  MaxLate = 1
  MaxTime = 22
SPECIFICATION Spec
INVARIANTS
  ShareBounded
  NoStarvation
CHECK_DEADLOCK FALSE
