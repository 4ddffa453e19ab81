\* The store with its details under fairness: two devices of one user, from an
\* empty volume or a file of an older release; no symmetry, for liveness.
SPECIFICATION DetailsSpec
CONSTANTS
  Token = {t1, t2}
  User = {u1}
  Pair = {p1}
  NoUser = NoUser
  NoChain = NoChain
  NoPair = NoPair
  NoFile = NoFile
  NoEntry = NoEntry
  WriteAttempts = 2
  MaxQueue = 2
  MaxRevision = 2
  Interval = 1
  MaxTime = 3
INVARIANTS
  DetailsTypeOK
  CrashLosesAtMostTheInterval
  NothingKeptOfTheDeparted
PROPERTIES
  WritesSettle
  CleanStopLosesNothing
  ListedIdsStayValid
  UpgradeChangesNobodysStanding
