SPECIFICATION FairSpec
CONSTANTS
  News = {1, 2}
  InitialNews = {1, 2}
  Cores = {"c1"}
  Flags = {FALSE}
  Details = {"d1", "d2"}
  FirstVersion <- MCFirstVersion
  None = None
  ForwardExisting = TRUE
  MaxAttempts = 2
  RetryGrace = 1
  PageSize = 2
  MaxPages = 1
  Paging = "count"
  Oversized <- MCOversized
  Deletable = {1, 2}
  MaxEdits = 1
  MaxFaults = 0
PROPERTY EventuallySettled
