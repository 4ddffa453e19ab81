\* The same under fairness: one speaker, no symmetry, no view; a longer book.
SPECIFICATION FairSpec
CONSTANTS
  Book = {b1}
  Speaker = {s1}
  Foreign = Foreign
  Cleared = Cleared
  NoSession = NoSession
  Length = 2
  Threshold = 1
  Backoff = 0
  Rewind = 1
  EndTolerance = 0
  MaxOps = 2
  MaxGeneration = 6
INVARIANTS
  TypeOK
PROPERTIES
  OperationsFinish
  StoppedSpeakerEndsSession
