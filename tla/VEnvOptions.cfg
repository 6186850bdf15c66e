CONSTANTS
  FracDigits = 2
  Multiplier <- UnitsOf
  MemMultiplier <- MemUnits
  U32Max = 299
  U64Max = 25000
  U128Max = 2600000
  CommandLines <- Lines
  Environments <- Envs
  RunStatuses <- Ended
  RunSignals = {2, 15}
SPECIFICATION Spec
INVARIANTS
  EnvCommandVerbatim
CHECK_DEADLOCK FALSE
