\* Liveness: two threads of a process race for the OnceLock while the process
\* forks; one salt, then OS entropy fails for good.
SPECIFICATION FairSpec
CONSTANTS
  Proc = {p1, p2}
  Pid = {1, 2}
  AtforkOutcome = {"installed", "refused"}
  PidReuse = FALSE
  Handle = {h1, h2}
  Salt = {7}
  NonceMod = 8
  CounterMod = 2
  NoGen = NoGen
  NoHandle = NoHandle
  ForkInCall = FALSE
PROPERTY CallsReturn
CHECK_DEADLOCK FALSE
