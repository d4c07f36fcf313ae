SPECIFICATION Spec
CONSTANTS
  debug = debug
  debug2 = debug2
  Procs = {debug, debug2}
  Names = {debug, debug2}
  NameOf <- OwnNames
  Topics = {1}
  BatchSize = 2
  MaxLen = 3
  MaxUpsets = 3
  LossyReads = TRUE
INVARIANTS
  TypeOK SettledWasHandled HandlesOnlyPending NewLoopOwesItsBatch GracefulExitDrained
PROPERTIES
  HandledInOrder KeepsPromise
