CONSTANTS
  U64Max = 26
  MaxTimer = 18
  RetryConfigs <- BaseConfigs
  MAX_RETRIES = 3
  MaxDelayMs = 2
  PerMs = 2
  UserSignals = {"INT"}
  MaxSignals = 2
  MaxLate = 1
  DelayFaults = TRUE
SPECIFICATION Spec
INVARIANTS
  TypeOK
  RecordsEveryAttempt
  BackoffGrows
  NoSignalLost
PROPERTIES
  DelayHonoured
  OneCommandAtATime
