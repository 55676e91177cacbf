SPECIFICATION Spec
CONSTANTS
  News = {1, 2}
  InitialNews = {1}
  Cores = {"c1", "c2"}
  Flags = {FALSE}
  Details = {"d1"}
  FirstVersion <- MCFirstVersion
  None = None
  ForwardExisting = FALSE
  MaxAttempts = 2
  RetryGrace = 1
  PageSize = 1
  MaxPages = 3
  Paging = "size"
  Oversized = {}
  Deletable = {1}
  MaxEdits = 1
  MaxFaults = 1
INVARIANTS
  TypeOK
  AttemptsBounded
  DeliveredWasSeen
  OldestFirst
  AtMostOnce
  ArchiveNotForwarded
PROPERTIES
  LedgerSpec
  GraceKept
  DeliveredNeverResent
