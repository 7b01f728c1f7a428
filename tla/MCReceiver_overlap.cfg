SPECIFICATION Spec
CONSTANTS
  r1 = r1
  r2 = r2
  r3 = r3
  s1 = s1
  s2 = s2
  None = None
  Empty = Empty
  Mixed = Mixed
  Requests = {r1, r2}
  Sessions = {s1, s2}
  Bodies <- TwoEach
  Missing = Missing
  NaN = NaN
  Pins <- Approved
  Policy <- Armed
  MaxTurns = 3
  Overlapping = TRUE
  MaxStops = 0
  MaxFaults = 0
CHECK_DEADLOCK FALSE
INVARIANTS
  RefusedLandsNothing
