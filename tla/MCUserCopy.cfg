SPECIFICATION Spec
CONSTANTS
  PageSize = 8
  MaxCalls = 2
  Lengths = {0, 1, 4, 5}
  Pointers <- MCPointers
CHECK_DEADLOCK FALSE
INVARIANTS
  ReturnsMeetContract
  OwnCallsVerified
