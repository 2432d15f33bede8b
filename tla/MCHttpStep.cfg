CONSTANTS
  MaxRedirects = 2
  Steps <- MCSteps
SPECIFICATION Spec
INVARIANTS
  PassesOnTheLastAnswer
  SavedFromTheLastAnswer
  RequestsStayHome
PROPERTIES
  EveryStepEnds
