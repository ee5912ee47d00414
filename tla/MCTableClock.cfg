SPECIFICATION Spec
CONSTANTS
  Ids = {j1, j2}
  NoId = NoId
  Owners = {o1, o2}
  Keys = {k}
  NoKey = NoKey
  NoTime = NoTime
  Capacity = 2
  ResultCapacity = 2
  OwnerCapacity = 2
  Retention = 1
  MaxTime = 3
  MaxSkew = 1
INVARIANTS RowsCoverMemory NotFromTheFuture NamesAgree
SYMMETRY Symmetry
