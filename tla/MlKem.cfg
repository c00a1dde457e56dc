SPECIFICATION Spec
CONSTANTS
  Seeds = {d1, d2}
  Rejections = {z1, z2}
  Messages = {m1, m2}
  ForgedCoins = {r1}
  MaxKeys = 2
  MaxSent = 2
  MaxErrors = 1
  MaxTampered = 1
  MaxOpened = 2
INVARIANTS
  Agreement
  OnlyTheCiphertextOpens
  SecretsBoundToKey
  OpeningsDistinct
CHECK_DEADLOCK FALSE
