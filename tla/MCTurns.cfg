SPECIFICATION Spec
CONSTANTS
  Owners = {o1, o2, o3}
  NoOwner = NoOwner
  MaxJobs = 4
  Children = 2
INVARIANTS TakesTurns
SYMMETRY Symmetry
