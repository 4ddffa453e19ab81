\* Two retries, as configured by default; a tolerance of one second.  Pages of
\* one to three books, from two libraries of up to four books between them, two
\* of which come or go during a walk.
SPECIFICATION MCSpec
CONSTANTS
  Scale = 2
  Books <- MCBooks
  Beyond = 2
  Tolerance = 2
  Retries = 2
  Item = {1, 2, 3, 4}
  Libraries = 2
  Limits = {1, 2, 3}
  MaxChanges = 2
INVARIANTS
  TypeOK
  ReturnsOnlyOnItsTrack
  SettlesNearItsTarget
  MappingIsHalfOpenAndInvertible
  ReportsStayInTheirTrack
  WalksAreComplete
  AChangeCostsOneBook
