SPECIFICATION Spec
CONSTANTS
  r1 = r1
  r2 = r2
  r3 = r3
  s1 = s1
  s2 = s2
  None = None
  Empty = Empty
  Mixed = Mixed
  Requests = {r1, r2, r3}
  Sessions = {s1, s2}
  Bodies <- Envelopes
  Missing = Missing
  NaN = NaN
  Pins <- Approved
  Policy <- Armed
  MaxTurns = 3
  Overlapping = FALSE
  MaxStops = 1
  MaxFaults = 2
CHECK_DEADLOCK FALSE
INVARIANTS
  TypeOK
  LandedWhole
  OneDisposition
  RefusedLandsNothing
  NoOrphanStage
  AcceptedTrainsWhatWasSampled
  AcceptedSawItsTimestep
  AnswersAreTheBest
PROPERTIES
  AnsweredLanded
  Answered
