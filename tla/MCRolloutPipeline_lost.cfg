SPECIFICATION Spec
CONSTANTS
  n1 = n1
  n2 = n2
  s1 = s1
  s2 = s2
  None = None
  Nodes = {n1, n2}
  Sessions = {s1}
  Loads <- MCLoads
  Limit = 4
  PostLimit = 2
  MaxFaults = 2
  MaxDrains = 1
CHECK_DEADLOCK FALSE
INVARIANTS
  ResultsAreReal
  StraysAreUnsure
PROPERTIES
  TaskEnds
