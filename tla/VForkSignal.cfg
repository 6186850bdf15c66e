CONSTANTS
  U64Max = 20
  MaxTimer = 18
  Signals = {"KILL", "TERM", "INT"}
  Caught = {"TERM", "INT"}
  UserSignals = {"INT"}
  MaxSignals = 0
  MaxTime = 8
  MaxLate = 0
  Faults = {}
  Configs <- ForkConfigs
SPECIFICATION Spec
INVARIANTS
  ForwardedMeansReceived
