\* Three processes fork with a generator of a 3-byte quota; the CPU's random
\* number instruction is stuck at one value, and OS entropy may fail. A call
\* may fork from within up to the check of its guard.
SPECIFICATION Spec
CONSTANTS
  Proc = {p1, p2, p3}
  Pid = {1, 2, 3}
  AtforkOutcome = {"installed", "refused"}
  PidReuse = FALSE
  OsSeed = {s1}
  CpuEntropy = {e1}
  ForkInCall = {"seed", "check"}
  MaxBlends = 2
  BlockSize = 2
  CtrMod = 8
  FirstCtr = 7
  Intervals = {3}
  Length = {4}
  Zero = Zero
  NoRng = NoRng
SYMMETRY ProcSymmetry
INVARIANT TypeOK
INVARIANT NoByteTwice
INVARIANT OneOwner
INVARIANT Inductive
INVARIANT SeedBytesSecret
PROPERTY StaleForEver
PROPERTY OwnerUndisturbed
CHECK_DEADLOCK FALSE
