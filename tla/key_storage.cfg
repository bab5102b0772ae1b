\* Room for two states side by side and a few bytes to spare, at an odd
\* address; two threads and two keys.
SPECIFICATION Spec
CONSTANTS
  Base = 1
  Length = 11
  Align = 2
  AesSize = 4
  PowersSize = 2
  Wide = 4
  Threads = {t1, t2}
  Keys = {k1, k2}
  PowersMayFail = TRUE
SYMMETRY Interchangeable
INVARIANT TypeOK
INVARIANT NoResidue
INVARIANT StateIntact
PROPERTY OnlyBorrowed
