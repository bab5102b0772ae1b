\* Every operation on messages of 0 bytes to past the limit, in blocks of
\* two bytes: a batch, single blocks, a partial block, and every counter word.
SPECIFICATION Spec
CONSTANTS
  BlockSize = 2
  CtrMod = 13
  TagSize = 1
  NonceSize = 1
  NoTag = NoTag
  TagWord <- WordOf
  TagTop <- TopOf
  Lengths = {0, 1, 3, 25, 26, 27}
  AadLengths = {0, 5, 26, 27}
  Requests <- AllRequests
INVARIANT TypeOK
INVARIANT KeystreamFresh
INVARIANT Inductive
INVARIANT PassInPlace
PROPERTY KeepsPromise
