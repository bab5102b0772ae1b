\* Every operation on messages of 0 bytes to past the limit, in blocks of
\* two bytes: two batches, a quad, single blocks and a partial block.
SPECIFICATION Spec
CONSTANTS
  BlockSize = 2
  CtrMod = 25
  TagSize = 1
  NonceSize = 1
  MaxAadLen = 27
  NoTag = NoTag
  Lengths = {0, 1, 29, 46, 49}
  AadLengths = {0, 27, 28}
  Requests <- AllRequests
INVARIANT TypeOK
INVARIANT KeystreamFresh
INVARIANT Inductive
INVARIANT HashKeepsUp
PROPERTY KeepsPromise
