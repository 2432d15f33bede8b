CONSTANTS
  Users = 2
  LoopBound = 1
  a = a
  b = b
  Names = {a, b}
  Scenarios <- MCTwoWorkersShort
SPECIFICATION Spec
PROPERTIES
  EveryRunConcludes
  KeepsContract
  WorkersFinish
