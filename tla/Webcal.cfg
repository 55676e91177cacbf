SPECIFICATION FairSpec
CONSTANTS
  Requests = {r1, r2}
  NoOne = NoOne
  MaxEdits = 2
  MaxDeploys = 1
INVARIANTS
  DiscoveredOnce
  LiveAnswer
CHECK_DEADLOCK FALSE
PROPERTY EveryRequestEnds
