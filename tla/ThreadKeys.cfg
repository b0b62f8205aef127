CONSTANTS
  Threads = {t1, t2}
  NoOne = noone
  Nb = 3
  MaxKeys = 3
  Starts <- Both
SPECIFICATION FairKeysSpec
INVARIANTS KeysCoherent
PROPERTIES NeverHalfDone SuccessIsEverywhere CallsReturn
