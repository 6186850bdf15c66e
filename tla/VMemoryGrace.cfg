CONSTANTS
  U64Max = 20
  MaxTimer = 18
  Signals = {"KILL", "TERM", "INT"}
  Caught = {"TERM", "INT"}
  UserSignals = {"INT"}
  MaxSignals = 1
  MaxTime = 8
  MaxLate = 0
  Faults = {}
  Configs <- MemoryConfigs
SPECIFICATION Spec
INVARIANTS
  GraceHonoured
