SPECIFICATION Spec
CONSTANTS
  a = a
  b = b
  x = x
  y = y
  q = q
  train = train
  eval = eval
  None = None
  Torn = Torn
  Foreign <- ForeignHeads
  Cases = {a, b}
  Trees <- SomeTrees
  MaxCommands = 2
  MaxCuts = 1
  MaxEdits = 2
  MaxForeign = 1
  MaxTroubles = 3
CHECK_DEADLOCK FALSE
INVARIANTS
  TypeOK
  Settled
  IndexFresh
  AnswersAreTrue
PROPERTIES
  NoPushOver
