SPECIFICATION SpecUnrefused
CONSTANTS
  Token = {t1, t2}
  User = {u1}
  Pair = {p1, p2, p3, p4}
  Request = {r1}
  Playback = {}
  NoUser = NoUser
  NoChain = NoChain
  NoPair = NoPair
  MaxWrites = 2
SYMMETRY Symmetry
VIEW View
INVARIANTS TypeOK SpentPairsAreAccountedFor NoIdleSession
PROPERTIES NoDeathOverStaleNews OnlySignInsChangeSession
