SPECIFICATION WakeSpec
CONSTANTS
  Debounce = TRUE
  MaxChanges = 3
  MaxFailures = 2
INVARIANTS
  WakeupKept
PROPERTIES
  ChangeIsSynced
  EveryChangeSynced
  ShutsDown
CHECK_DEADLOCK FALSE
