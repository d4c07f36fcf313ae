SPECIFICATION Spec
CONSTANTS
  Procs = {p1, p2}
  Nobody = Nobody
  TTL = 2
  MaxUpsets = 0
INVARIANT
  NoLeaseLeftBehind
