CONSTANTS
  U64Max = 20
  MaxTimer = 18
  Signals = {"KILL", "TERM", "INT"}
  Caught = {"TERM", "INT"}
  UserSignals = {"INT"}
  MaxSignals = 2
  MaxTime = 8
  MaxLate = 1
  Faults = {"kqueue", "eperm", "reaper", "nonblock"}
  Configs <- RunConfigs
SPECIFICATION FairSpec
INVARIANTS
  TypeOK
  NoStraySignal
  FreeOnceSignalled
  ReleasedOnReturn
  OkMeansReaped
  ResultTellsSignals
  ResultHasStatus
  KillWaitsForGrace
  NotEarly
  NoOverrun
  SignalsConserved
PROPERTIES
  ContractHolds
  KillAfterEnds
