SPECIFICATION Spec
CONSTANTS
  N = 4
  Q = 3329
  Eta1 = 3
  Eta2 = 2
  Du = 10
  Dv = 4
  Stream <- MCStream
  KeygenSeeds = {0, 1, 2, 3}
  Coins = {0, 1, 5, 6}
  Messages <- MCMessages
  MaxKeys = 2
  MaxSent = 1
  MaxDecrypted = 1
INVARIANTS
  DecryptionFindsMessage
  NoStreamReused
CHECK_DEADLOCK FALSE
