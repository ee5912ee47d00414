SPECIFICATION Spec
CONSTANTS
  Ids = {j1, j2, j3}
  NoId = NoId
  Owners = {o1, o2, o3}
  Keys = {k}
  NoKey = NoKey
  NoTime = NoTime
  Capacity = 2
  ResultCapacity = 1
  OwnerCapacity = 1
  Retention = 2
  MaxTime = 3
  MaxSkew = 0
INVARIANTS WithinLimits EndsAreKept KeptForRetention NoDuplicateWork ForgottenStays
SYMMETRY Symmetry
