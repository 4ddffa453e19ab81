SPECIFICATION Spec
CONSTANTS
  Token = {t1, t2}
  User = {u1}
  Pair = {p1, p2, p3, p4}
  Request = {r1, r2}
  Playback = {}
  NoUser = NoUser
  NoChain = NoChain
  NoPair = NoPair
  MaxWrites = 3
SYMMETRY Symmetry
VIEW View
PROPERTY NoDeathOverStaleNews
