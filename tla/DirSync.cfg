SPECIFICATION Spec
CONSTANTS
  Processes = {p1, p2}
  NoOne = NoOne
  MaxVersion = 2
INVARIANT SavedIsDurable
