SPECIFICATION FairSpec
CONSTANTS
  c1 = c1
  c2 = c2
  c3 = c3
  NoCaller = NoCaller
  Callers = {c1, c2, c3}
  Process <- TwoProcesses
  MaxVersion = 2
  MaxUpsets = 2
INVARIANTS
  TypeOK OneFlight StaleOnlyForAReason
PROPERTIES
  EventuallyFresh RememberReturns
