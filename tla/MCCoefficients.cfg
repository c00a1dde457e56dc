SPECIFICATION CoefficientsSpec
CONSTANTS
  Q = 3329
  ByteBits = 2
  Length = 2
  MaxWidth = 4
  CodecQ = 13
  Arrays <- MCArrays
  Strings <- MCStrings
  CalledWidths <- MCCalledWidths
  CodeWidths <- MCCodeWidths
  RoundingSets <- MCRoundingSets
  RoundingSamples <- MCRoundingSamples
INVARIANTS
  ArraysRoundTrip
  OnlyCanonicalStringsRoundTrip
  SmallError
  CodesSurvive
  HintRecovers
  Recomposes
  SmallChangesKeepHighBits
CHECK_DEADLOCK FALSE
