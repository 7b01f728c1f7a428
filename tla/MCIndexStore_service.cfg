SPECIFICATION Spec
CONSTANTS
  c1 = c1
  c2 = c2
  dec = dec
  v1 = v1
  v2 = v2
  synth = synth
  m1 = m1
  m2 = m2
  t1 = t1
  t2 = t2
  None = None
  Repos = {c1}
  Decisions = dec
  Versions = {v1, v2, synth}
  Synth = synth
  Models = {m1, m2}
  Legacy = m1
  Threads = {t1}
  Size <- OneBatch
  Dim <- SameWidth
  MaxStops = 1
  MaxPushes = 1
  MaxReindex = 1
  MaxWipes = 0
  MaxCopies = 0
  MaxFailures = 1
CHECK_DEADLOCK FALSE
PROPERTIES
  ImplementsService
  StartConverges
