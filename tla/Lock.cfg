SPECIFICATION FairSpec
CONSTANTS
  Procs = {p1, p2, p3}
  Nobody = Nobody
  TTL = 3
  MaxUpsets = 3
INVARIANTS
  TypeOK MutualExclusionInLease
PROPERTIES
  OthersLeaveTheKey KeepsLease KeyIsFreedAgain
