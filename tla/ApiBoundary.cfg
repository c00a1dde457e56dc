SPECIFICATION Spec
CONSTANTS
  Seeds = {d1, d2}
  MaxMade = 3
INVARIANTS
  SetsKeptApart
  PartsComeBack
CHECK_DEADLOCK FALSE
