SPECIFICATION Spec
CONSTANTS
  Keys <- MCKeys
  Companion <- MCCompanion
  Nested <- MCNested
  Dotted <- MCDotted
  MaxPasses = 10
  Words <- MCWords
  Vars <- MCVars
  Batches <- MCBatches
INVARIANTS
  TestsLeaveWhatTheRunLeaves
  BlockedMeansUnreached
  PreviewsAreQuiet
  PreviewShowsWhatTheRunSends
  ExpansionIsConsistent
  TestCallsWhatTheRunCalls
  NothingRendersBlank
