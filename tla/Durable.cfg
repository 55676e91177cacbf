SPECIFICATION DeliverySpec
CONSTANTS
  Processes = {p1, p2}
  Clients = {p1, p2}
  NoOne = NoOne
  MaxVersion = 4
  ScanLimit = 1
  MaxMails = 2
  MaxAttempts = 2
  MaxTries = 3
  MaxSlow = 1
INVARIANTS
  AlwaysDecodes
  HeldIsCurrent
  LookIsRight
  CopiesAccounted
  TriesBounded
  DeliveredInMailbox
  GivenUpAfterLook
PROPERTIES StoreSpec DurableLedgerSpec
SYMMETRY Alike
