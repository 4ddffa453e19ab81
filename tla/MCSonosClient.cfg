\* The probe and two requests, and a manager for each and one to spare.
SPECIFICATION FairSpec
CONSTANTS
  Reader = {probe, r1, r2}
  Probe = probe
  Manager = {m1, m2, m3, m4}
  NoManager = NoManager
INVARIANTS
  TypeOK
  NothingDeadIsCached
  ClosedForGood
PROPERTIES
  ProbesComeToAnEnd
