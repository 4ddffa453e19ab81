SPECIFICATION FairSpec
CONSTANTS
  Token = {t1}
  User = {u1}
  Pair = {p1, p2}
  Request = {r1, r2}
  Playback = {r2}
  NoUser = NoUser
  NoChain = NoChain
  NoPair = NoPair
  MaxWrites = 1
INVARIANTS SpentPairsAreAccountedFor
PROPERTIES RefreshesSettle
