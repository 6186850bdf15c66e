CONSTANTS
  Threads = {1, 2}
  Scenes <- SafeScenes
  SigOrder <- TwoSignals
  Fds = {3, 4, 5, 6}
  PipeSize = 2
  MaxPipes = 3
  MaxSignals = 3
SPECIFICATION Spec
INVARIANTS
  HandlerHasPipe
  NoFdLeak
  SignalsAccounted
  SetupReady
