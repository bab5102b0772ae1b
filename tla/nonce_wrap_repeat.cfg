\* The counter wraps and the re-salt fails: the base is used a second time.
SPECIFICATION Spec
CONSTANTS
  Proc = {p1}
  Pid = {1}
  AtforkOutcome = {"installed"}
  PidReuse = FALSE
  Handle = {h1}
  Salt = {7}
  NonceMod = 8
  CounterMod = 2
  NoGen = NoGen
  NoHandle = NoHandle
  ForkInCall = FALSE
INVARIANT NeverRepeats
CHECK_DEADLOCK FALSE
