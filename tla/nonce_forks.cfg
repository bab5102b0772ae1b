\* Three processes, one handle each, the handler installed or refused
\* (process-id guards), a counter of two values (every second nonce wraps),
\* OS entropy that may fail at every draw.
SPECIFICATION Spec
CONSTANTS
  Proc = {p1, p2, p3}
  Pid = {1, 2, 3}
  AtforkOutcome = {"installed", "refused"}
  PidReuse = FALSE
  Handle = {h1}
  Salt = {15, 3}
  NonceMod = 16
  CounterMod = 2
  NoGen = NoGen
  NoHandle = NoHandle
  ForkInCall = FALSE
SYMMETRY ProcSymmetry
INVARIANT TypeOK
INVARIANT Inductive
INVARIANT NoRepeat
INVARIANT ReservationsDisjoint
PROPERTY ParentUndisturbed
CHECK_DEADLOCK FALSE
