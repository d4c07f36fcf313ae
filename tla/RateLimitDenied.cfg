SPECIFICATION Spec
CONSTANTS
  Clients = {c1, c2}
  NoLimiter = NoLimiter
  Burst = 1
  Per = 2
  MaxDebt = 4
  MaxTime = 3
INVARIANT
  DeniedCostsNothing
