CONSTANTS
  f1 = f1
  f2 = f2
  f3 = f3
  k1 = k1
  none = none
  Clients = {1, 2}
  Folders = {f1, f2, f3}
  Collections = {k1}
  Names <- MCNames
  Slug <- MCSlug
  Loads <- MCLoads
SPECIFICATION Spec
INVARIANTS
  TreeIsWhole
  FoldersAreAddressable
PROPERTIES
  ContentsStayTogether
CHECK_DEADLOCK FALSE
