SPECIFICATION Spec
CONSTANTS
  Builds = {old, new, third}
  New = new
  Third = third
  Part = Part
  None = None
  Calls = {c1, c2}
  Models <- MCModels
  ModelOf <- MCModelOf
  NoModel = NoModel
CONSTRAINT Orderly
ACTION_CONSTRAINT First
SYMMETRY Symmetry
INVARIANTS GotIsCurrent OneIndexInMemory OneModel
PROPERTY BuildsReplaceWhole
