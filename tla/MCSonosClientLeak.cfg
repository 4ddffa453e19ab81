\* A read that fails late, beside an initialization that has begun since.
SPECIFICATION Spec
CONSTANTS
  Reader = {probe, r1, r2}
  Probe = probe
  Manager = {m1, m2, m3, m4}
  NoManager = NoManager
SYMMETRY Symmetry
INVARIANT NoLeakedManager
