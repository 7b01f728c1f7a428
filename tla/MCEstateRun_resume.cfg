SPECIFICATION Spec
CONSTANTS
  m1 = m1
  m2 = m2
  w1 = w1
  w2 = w2
  None = None
  Torn = Torn
  Asks <- SomeAsks
  Models = {m1, m2}
  Windows = {w1, w2}
  MaxCommands = 3
  MaxCuts = 2
  MaxRestarts = 1
CHECK_DEADLOCK FALSE
INVARIANTS
  TypeOK
  CompletedWorks
  NeverStuck
PROPERTIES
  StoreMovesOnlyWhenCleared
  OwedUntilDone
