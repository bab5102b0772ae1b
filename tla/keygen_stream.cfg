\* One process, calls of many lengths against a quota that is no multiple of
\* the block, or an interval of 0, which counts as 1; every call returns.
SPECIFICATION FairSpec
CONSTANTS
  Proc = {p1}
  Pid = {1}
  AtforkOutcome = {"installed", "refused"}
  PidReuse = FALSE
  OsSeed = {s1, s2}
  CpuEntropy = {e1}
  ForkInCall = {}
  MaxBlends = 2
  BlockSize = 4
  CtrMod = 16
  FirstCtr = 14
  Intervals = {0, 10}
  Length = {0, 1, 3, 5, 13}
  Zero = Zero
  NoRng = NoRng
INVARIANT NoByteTwice
INVARIANT BufferUnspent
INVARIANT KeyQuota
INVARIANT Contiguous
PROPERTY CallsReturn
CHECK_DEADLOCK FALSE
