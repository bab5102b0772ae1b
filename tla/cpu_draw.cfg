\* Draws of four words from five values, each tried three times.
SPECIFICATION DrawSpec
CONSTANTS
  Words = 4
  RETRIES = 3
  Values = {0, 1, 2, 3, 4}
  Wiped = 0
INVARIANT DrawTypeOK
PROPERTY KeepsPromise
PROPERTY DrawEnds
