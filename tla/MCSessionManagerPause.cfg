\* A pause while the household plays something of its own.
SPECIFICATION Spec
CONSTANTS
  Book = {b1}
  Speaker = {s1}
  Foreign = Foreign
  Cleared = Cleared
  NoSession = NoSession
  Length = 2
  Threshold = 1
  Backoff = 1
  Rewind = 1
  EndTolerance = 0
  MaxOps = 1
  MaxGeneration = 10000
VIEW View
PROPERTY OnlyTheBooksPositions
