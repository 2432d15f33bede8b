CONSTANTS
  Users = 2
  LoopBound = 2
  a = a
  b = b
  Names = {a, b}
  Scenarios <- MCTwoWorkers
SPECIFICATION Spec
INVARIANTS
  ReportIsExact
  PassMeansNoFailure
  WorkersKeepOrder
  ReportedVarsAreFinal
