SPECIFICATION Spec
CONSTANTS
  debug = debug
  debug2 = debug2
  Procs = {debug}
  Names = {debug}
  NameOf <- OwnNames
  Topics = {1}
  BatchSize = 2
  MaxLen = 2
  MaxUpsets = 2
  LossyReads = FALSE
INVARIANT
  DrainHasDeadline
