CONSTANTS
  Threads = {t1, t2}
  Values = {v1, v2, v3}
  NoValue = NoValue
  Torn = Torn
SPECIFICATION FairSpec
INVARIANTS
  ReadsWhole
  OneWriter
PROPERTIES
  WriteOnce
  OnceHolds
  CallsReturn
