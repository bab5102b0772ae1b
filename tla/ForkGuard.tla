------------------------------ MODULE ForkGuard ------------------------------
(***************************************************************************)
(* Process fork detection, as src/aes_gcm/fork.rs (nonce generators) and   *)
(* src/random/{fork,mod}.rs (key generators) implement it: a               *)
(* pthread_atfork child handler, installed once per process through a      *)
(* OnceLock, bumps a generation counter in the child; a guard is a         *)
(* snapshot of that counter, or of the process id when the handler could   *)
(* not be installed.                                                       *)
(*                                                                         *)
(* A process slot stands for one process from its birth to its exit.       *)
(* Everything a process keeps in memory is a function of its slot, and     *)
(* fork copies it.  The kernel (fork, exit, process ids) is external.      *)
(***************************************************************************)
EXTENDS Naturals

CONSTANTS
  Proc,           (* Process slots.                                          *)
  Pid,            (* Process ids the kernel can assign.                      *)
  AtforkOutcome,  (* What pthread_atfork may answer on this system.          *)
  PidReuse        (* May the id of an exited process be assigned again?      *)

ASSUME ForkGuardAssumption ==
  /\ Pid \subseteq Nat
  /\ AtforkOutcome \subseteq {"installed", "refused"}
  /\ PidReuse \in BOOLEAN

VARIABLES
  status,      (* "unborn", "running" or "exited", for each slot.            *)
  pid,         (* Process id of each slot.                                   *)
  generation,  (* FORK_GENERATION in each process's memory.                  *)
  once         (* INSTALLED, the OnceLock: unset, being initialised, or set. *)

forkVars == <<status, pid, generation, once>>

Guard == [kind : {"none", "generation", "pid"}, seen : Nat]

(* A generator whose guard has not been captured yet.                       *)
NoGuard == [kind |-> "none", seen |-> 0]

ForkTypeOK ==
  /\ status \in [Proc -> {"unborn", "running", "exited"}]
  /\ pid \in [Proc -> Nat]
  /\ generation \in [Proc -> Nat]
  /\ once \in [Proc -> {"unset", "running", "installed", "refused"}]

-----------------------------------------------------------------------------
(* Guards. `Capture` is evaluated only once the OnceLock is set.            *)

Capture(p) ==
  IF once[p] = "installed"
    THEN [kind |-> "generation", seen |-> generation[p]]
    ELSE [kind |-> "pid", seen |-> pid[p]]

Unchanged(g, p) ==
  \/ g.kind = "generation" /\ once[p] = "installed" /\ g.seen = generation[p]
  \/ g.kind = "pid" /\ g.seen = pid[p]

(* What the proofs need to know of a guard: it is a snapshot of what its    *)
(* process, or an ancestor, once was.                                       *)
GuardOfPast(g, p) ==
  \/ /\ g.kind = "generation"
     /\ once[p] = "installed" /\ g.seen <= generation[p]
  \/ /\ g.kind = "pid"
     /\ once[p] = "refused" /\ \E x \in Proc : status[x] # "unborn" /\ pid[x] = g.seen

(* get_or_init on the OnceLock: one thread claims it, runs pthread_atfork   *)
(* and publishes the answer; the others wait until it is set.               *)
OnceIsSet(p) == once[p] \in {"installed", "refused"}

BeginInstall(p) ==
  /\ once[p] = "unset"
  /\ once' = [once EXCEPT ![p] = "running"]
  /\ UNCHANGED <<status, pid, generation>>

(* A refused handler is not remembered: every capture tries again.          *)
MutRetryInstall(p) ==
  /\ once[p] = "running"
  /\ \E answer \in AtforkOutcome :
       once' = [once EXCEPT ![p] = IF answer = "refused" THEN "unset" ELSE answer]
  /\ UNCHANGED <<status, pid, generation>>

EndInstall(p) ==
  /\ once[p] = "running"
  /\ \E answer \in AtforkOutcome : once' = [once EXCEPT ![p] = answer]
  /\ UNCHANGED <<status, pid, generation>>

-----------------------------------------------------------------------------
(* The kernel. *)

InUse(x) == IF PidReuse THEN status[x] = "running" ELSE status[x] # "unborn"

Assignable(i) == \A x \in Proc : InUse(x) => pid[x] # i

(* The handler is missing in the child: nothing bumps the counter.          *)
MutGenerationNotBumped(p) == generation[p]

(* bump_generation_in_child runs in the child before fork returns there,    *)
(* if the parent had installed it.                                          *)
ChildGeneration(p) ==
  IF once[p] = "installed" THEN generation[p] + 1 ELSE generation[p]

(* The handler is registered for the parent as well as for the child.       *)
MutParentBumped(p) == generation[p] + 1

(* FORK_GENERATION of the parent after the fork.                            *)
ParentGeneration(p) == generation[p]

ForkProcess(p, q, i) ==
  /\ status[p] = "running"
  /\ status[q] = "unborn"
  /\ Assignable(i)
  /\ status' = [status EXCEPT ![q] = "running"]
  /\ pid' = [pid EXCEPT ![q] = i]
  /\ generation' = [generation EXCEPT ![q] = ChildGeneration(p),
                                      ![p] = ParentGeneration(p)]
  /\ once' = [once EXCEPT ![q] = once[p]]

(* A process with no inherited memory: a restart, or another host.          *)
StartProcess(p, i) ==
  /\ status[p] = "unborn"
  /\ Assignable(i)
  /\ status' = [status EXCEPT ![p] = "running"]
  /\ pid' = [pid EXCEPT ![p] = i]
  /\ UNCHANGED <<generation, once>>

(* The process dies and its memory with it; the kernel remembers its id.    *)
ExitProcess(p) ==
  /\ status[p] = "running"
  /\ status' = [status EXCEPT ![p] = "exited"]
  /\ generation' = [generation EXCEPT ![p] = 0]
  /\ once' = [once EXCEPT ![p] = "unset"]
  /\ UNCHANGED pid

ForkInit ==
  /\ status = [p \in Proc |-> "unborn"]
  /\ pid = [p \in Proc |-> 0]
  /\ generation = [p \in Proc |-> 0]
  /\ once = [p \in Proc |-> "unset"]
=============================================================================
