\* One book moved between two speakers; two operations waiting at once.
SPECIFICATION Spec
CONSTANTS
  Book = {b1}
  Speaker = {s1, s2}
  Foreign = Foreign
  Cleared = Cleared
  NoSession = NoSession
  Length = 1
  Threshold = 1
  Backoff = 0
  Rewind = 0
  EndTolerance = 0
  MaxOps = 2
  MaxGeneration = 10000
SYMMETRY Symmetry
VIEW View
INVARIANTS
  OnePollChain
  NoOrphanedSpeaker
PROPERTIES
  LoopAndTeardownWriteTheBooksPositions
  ImplementsPlaybackSession
