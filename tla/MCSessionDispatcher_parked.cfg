SPECIFICATION Spec
CONSTANTS
  s1 = s1
  s2 = s2
  s3 = s3
  i1 = i1
  i2 = i2
  w1 = w1
  p1 = p1
  p2 = p2
  None = None
  Sessions = {s1, s2, s3}
  InitWorkers = {i1, i2}
  RunWorkers = {w1}
  PostWorkers = {p1}
CHECK_DEADLOCK FALSE
INVARIANTS
  RunSlotsBounded
