CONSTANTS
  Users = 1
  LoopBound = 1
  a = a
  b = b
  Names = {a, b}
  Scenarios <- MCRegression
SPECIFICATION Spec
INVARIANTS
  ErrorsFailTheRun
