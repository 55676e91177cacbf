SPECIFICATION FairSpec
CONSTANTS
  Calls = {"call1", "call2"}
  Users = {"anna", "ben"}
  UserOf <- MCUserOf
  None = None
  AppOnProvider = TRUE
  MaxRequests = 3
INVARIANTS
  OwnTokens
  OneAttempt
  KeepsToProvider
PROPERTY LoginEnds
CHECK_DEADLOCK FALSE
