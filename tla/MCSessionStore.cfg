\* Three sign-ins of two users, two writes queued at once, a crash anywhere.
SPECIFICATION Spec
CONSTANTS
  Token = {t1, t2, t3}
  User = {u1, u2}
  Pair = {p1, p2}
  NoUser = NoUser
  NoChain = NoChain
  NoPair = NoPair
  NoFile = NoFile
  WriteAttempts = 3
  MaxQueue = 2
  MaxRevision = 5
SYMMETRY Symmetry
INVARIANTS
  TypeOK
  MemoryNeverAheadOfFile
  ChainsMatchDevices
PROPERTIES
  SignedInUntilSignOut
  DeadBearerNeverRearmed
  ImplementsDeviceSessions
