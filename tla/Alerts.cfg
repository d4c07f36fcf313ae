SPECIFICATION Spec
CONSTANTS
  Alerts = {a1, a2}
  Keys = {k1, k2}
  Sinks = {s1, s2}
  Window = 2
  MaxTime = 5
SYMMETRY AlertSymmetry
INVARIANTS
  TypeOK CleanupKeepsWindow
PROPERTIES
  ThrottledForASuccess CooldownHolds
