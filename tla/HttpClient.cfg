SPECIFICATION FairSpec
CONSTANTS
  RetryCounts = {0, 2}
  MaxAttempts = 3
  Bodies <- ShortBodies
  MaxBytes = 4
INVARIANTS
  TypeOK AcceptedTwiceOnlyAfterTimeout SuccessIsTheLastAnswer ErrorTextIsLongestPrefix
PROPERTIES
  CallReturns
CHECK_DEADLOCK FALSE
