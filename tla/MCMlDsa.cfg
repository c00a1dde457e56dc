SPECIFICATION Spec
CONSTANTS
  ParameterSets <- MCParameterSets
  Seeds = {s1, s2}
  Randoms = {r1}
  Messages <- MCMessages
  Contexts <- MCContexts
  MaxContext = 1
  Attempts = 8
  MaxSigned = 2
  MaxAltered = 1
  MaxVerified = 2
INVARIANTS
  SignedIsAccepted
  ChallengeFixesTheCall
  MasksNotShared
