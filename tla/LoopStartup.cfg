SPECIFICATION FairSpec
CONSTANTS
  Debounce = TRUE
  MaxChanges = 1
  MaxFailures = 0
PROPERTY FallbackSync
CHECK_DEADLOCK FALSE
