SPECIFICATION Spec
CONSTANTS
  News = {1}
  InitialNews = {1}
  Cores = {"c1", "c2"}
  Flags = {FALSE}
  Details = {"d1"}
  FirstVersion <- MCFirstVersion
  None = None
  ForwardExisting = TRUE
  MaxAttempts = 1
  RetryGrace = 1
  PageSize = 2
  MaxPages = 1
  Paging = "count"
  Oversized = {}
  Deletable = {}
  MaxEdits = 1
  MaxFaults = 0
INVARIANT AttemptsPerRevision
