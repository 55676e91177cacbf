SPECIFICATION Spec
CONSTANTS
  Requests = {r1, r2}
  NoOne = NoOne
  MaxEdits = 0
  MaxDeploys = 0
INVARIANT RequestsDrained
CHECK_DEADLOCK FALSE
