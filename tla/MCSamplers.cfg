SPECIFICATION SamplersSpec
CONSTANTS
  N = 4
  Q = 17
  ByteBits = 2
  SignBytes = 2
  MaxTau = 4
  Taus = {0, 1, 2, 3, 5}
  Streams <- MCStreams
  KemQ = 5
  Nibble = 2
  NttStreams <- MCNttStreams
  BoundedEtas = {2, 3, 4}
  BoundedStreams <- MCBoundedStreams
  BinomialDegree = 2
  BinomialQ = 17
  BinomialEtas = {1, 2, 3}
  BitLengths = {7, 8, 12}
INVARIANTS
  ChallengeWeight
  SignsFollowBits
  ExhaustedOnlyWhenShort
  UniformChallenge
  EvenlySpread
  EachBitCountsOnce
PROPERTIES
  NttImplementsSampler
  BoundedImplementsSampler
CHECK_DEADLOCK FALSE
