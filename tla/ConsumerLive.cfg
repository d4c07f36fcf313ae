SPECIFICATION FairSpec
CONSTANTS
  debug = debug
  debug2 = debug2
  Procs = {debug, debug2}
  Names = {debug}
  NameOf <- SharedName
  Topics = {1, 2}
  BatchSize = 2
  MaxLen = 1
  MaxUpsets = 1
  LossyReads = FALSE
PROPERTIES
  KeepsPromiseFairly StopsAfterSignal
