CONSTANTS
  U64Max = 40
  MaxTimer = 38
  Timeouts <- AnyTimeout
  INITIAL_POLL_MS = 1
  MAX_POLL_MS = 4
  PerMs = 2
  StatErrors = TRUE
  MaxTime = 20
  MaxLate = 2
SPECIFICATION FairSpec
INVARIANTS
  TypeOK
  FoundInTime
  NoOvershoot
PROPERTIES
  SleepsAWhile
  WaitEnds
