SPECIFICATION Spec
CONSTANTS
  N = 8
  Q = 17
  Root = 2
  Bits = 2
  Scale = 13
  Inputs <- MCInputs
INVARIANTS
  ChunksAreResidues
  ProductIsSchoolbook
CHECK_DEADLOCK FALSE
