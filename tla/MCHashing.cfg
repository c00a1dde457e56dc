SPECIFICATION HashingSpec
CONSTANTS
  Lane = 2
  StateBytes = 5
  Rates = {0, 2, 3, 4, 6}
  Inputs <- MCInputs
  Suffixes <- MCSuffixes
  Lengths = {0, 1, 2, 5}
  Blocks <- MCBlocks
INVARIANTS
  PaddingIsReversible
  OutputIsPrefix
  RoundsFollowFips202
CHECK_DEADLOCK FALSE
