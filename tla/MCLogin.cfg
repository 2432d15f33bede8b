SPECIFICATION Spec
CONSTANTS
  b1 = b1
  b2 = b2
  s1 = s1
  s2 = s2
  Browsers <- MCBrowsers
  Subjects <- MCSubjects
  MaxRequests <- MCMaxRequests
  MaxLosses <- MCMaxLosses
SYMMETRY Symmetry
INVARIANTS UsersAreDistinct SignedInWhereBegun LogoutAloneIsFinal LoginsComplete ReturningUsersGetIn
CHECK_DEADLOCK FALSE
