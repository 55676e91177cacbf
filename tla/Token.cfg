SPECIFICATION FairSpec
CONSTANTS
  Lives = {0, 2, 6}
  RefreshBefore = 4
  CallTimeout = 2
  MaxTokens = 4
  MaxFaults = 1
INVARIANTS
  NewestServed
  NoInheritedToken
  RefreshTaken
  ValidWhileServed
  RefreshesPaced
PROPERTY ExpiredTokenGoes
