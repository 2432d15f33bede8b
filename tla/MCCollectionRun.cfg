CONSTANTS
  user = user
  mail = mail
  Vars = {user, mail}
  Plans <- MCPlans
SPECIFICATION Spec
INVARIANTS
  NoValueFromAFailedMember
  CompletedMeansClean
PROPERTIES
  KeepsContract
