SPECIFICATION Spec
CONSTANTS
  Clients = {c1, c2, c3}
  NoLimiter = NoLimiter
  Burst = 2
  Per = 2
  MaxDebt = 6
  MaxTime = 3
SYMMETRY ClientSymmetry
INVARIANTS
  TypeOK OneLimiter AdmittedBound
