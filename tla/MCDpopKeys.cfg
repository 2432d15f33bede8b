CONSTANTS
  a = a
  b = b
  k = k
  l = l
  Clients = {a, b}
  Names = {k, l}
  Programs <- MCPrograms
SPECIFICATION Spec
INVARIANTS
  RefusedOnlyAfterForeignReset
