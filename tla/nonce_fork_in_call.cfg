\* A signal handler forks inside next_nonce, after its check: parent and child
\* both go on with the call.
SPECIFICATION Spec
CONSTANTS
  Proc = {p1, p2}
  Pid = {1, 2}
  AtforkOutcome = {"installed"}
  PidReuse = FALSE
  Handle = {h1}
  Salt = {7}
  NonceMod = 8
  CounterMod = 2
  NoGen = NoGen
  NoHandle = NoHandle
  ForkInCall = TRUE
INVARIANT NoRepeat
CHECK_DEADLOCK FALSE
