SPECIFICATION FairSpec
CONSTANTS
  Kinds <- AllKinds
  Writers <- BothWriters
  Requests = {r1, r2}
  MaxDay = 2
  MaxUpsets = 1
INVARIANTS
  TypeOK RolledBack GracefulExitIsClean InUseIsOpen OneResponse AccessLineForAnswer AuditAgreesWithStream
PROPERTIES
  ServerStops
CHECK_DEADLOCK FALSE
