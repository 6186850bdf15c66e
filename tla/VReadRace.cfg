CONSTANTS
  U64Max = 20
  MaxTimer = 18
  Signals = {"KILL", "TERM", "INT"}
  Caught = {"TERM", "INT"}
  UserSignals = {"INT"}
  MaxSignals = 0
  MaxTime = 9
  MaxLate = 0
  Faults = {}
  Configs <- SharedStdin
SPECIFICATION FairSpec
PROPERTIES
  KillAfterEnds
