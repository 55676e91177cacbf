SPECIFICATION RenderingSpec
CONSTANTS
  IDs = {0, 1, 2}
  Stamps = {1, 2}
  Starts = {1, 2}
  MaxEvents = 3
  Char <- MCChar
  Space = " "
  Octets <- MCOctets
  Values <- MCValues
  Limit = 6
  Texts = {1, 2}
  Names <- MCNames
  Trimmed <- MCTrimmed
  Folded <- MCFolded
  SortOrder <- MCSortOrder
  FileIDs <- MCFileIDs
  Rank <- MCRank
  FileStates = {1, 2}
  MaxGroups = 3
  MaxFiles = 2
INVARIANTS
  RenderedOnce
  FitsLimit
  TextSurvives
  FoundAgain
CHECK_DEADLOCK FALSE
