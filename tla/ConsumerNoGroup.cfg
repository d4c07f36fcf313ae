SPECIFICATION FairSpec
CONSTANTS
  debug = debug
  debug2 = debug2
  Procs = {debug}
  Names = {debug}
  NameOf <- OwnNames
  Topics = {1}
  BatchSize = 2
  MaxLen = 2
  MaxUpsets = 1
  LossyReads = FALSE
PROPERTY
  GroupsGetCreated
