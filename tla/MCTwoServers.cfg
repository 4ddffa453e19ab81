\* Two processes booting, writing and dying on one file; one user, one pair.
SPECIFICATION Spec
CONSTANTS
  Token = {t1, t2}
  User = {u1}
  Pair = {p1}
  NoUser = NoUser
  NoChain = NoChain
  NoPair = NoPair
  NoFile = NoFile
  WriteAttempts = 1
  MaxQueue = 1
  MaxRevision = 3
SYMMETRY Symmetry
INVARIANTS
  StaleServerIsRefused
PROPERTIES
  NoSilentOverwrite
