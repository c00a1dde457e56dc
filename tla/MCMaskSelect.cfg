SPECIFICATION ComparisonSpec
CONSTANTS
  ByteBits = 2
  WordBits = 4
  SecretBytes = 2
  Strings <- MCStrings
  Secrets <- MCSecrets
INVARIANTS
  NoEarlyExit
PROPERTIES
  Implements
CHECK_DEADLOCK FALSE
