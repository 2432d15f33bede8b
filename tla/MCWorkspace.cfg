CONSTANTS
  o = o
  r = r
  e = e
  k1 = k1
  k2 = k2
  blank = 1
  none = none
  Users = {o, r, e}
  Collections = {k1, k2}
  Names <- MCNames
  collectionFile = "collection"
  Reserved = {"collection"}
  Fold <- MCFold
  Candidates <- MCCandidates
  Docs = {1, 2}
  Values = {1, 2}
  Loads <- MCLoads
SPECIFICATION Spec
INVARIANTS
  TypeOK
  FilesAreDistinct
  ServedAlone
PROPERTIES
  OnlyThoseAllowedChange
  ValuesStay
  PullsEverything
