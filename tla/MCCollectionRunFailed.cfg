CONSTANTS
  user = user
  mail = mail
  Vars = {user, mail}
  Plans <- MCRegression
SPECIFICATION Spec
INVARIANTS
  FailedMemberFailsTheSuite
