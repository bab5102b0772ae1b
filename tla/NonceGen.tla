------------------------------ MODULE NonceGen ------------------------------
(***************************************************************************)
(* The generated-nonce path: NonceGen of src/aes_gcm/nonce.rs behind the   *)
(* next_nonce of the AEAD handles, in a tree of processes that fork.       *)
(*                                                                         *)
(* All the handles modelled hold the same AES key, the case where a        *)
(* repeated nonce is fatal: handles of one process, the copies fork makes  *)
(* of them, and handles of processes started afresh.  A handle is          *)
(* borrowed mutably while next_nonce runs, so one call is in progress per  *)
(* handle; other threads may run other handles, or fork, between any two   *)
(* of its steps.                                                           *)
(***************************************************************************)
EXTENDS ForkGuard

CONSTANTS
  Handle,      (* Handles of one process that hold the key.                  *)
  Salt,        (* The bases the OS entropy source can return.                *)
  NonceMod,    (* 2^96 in the code.                                          *)
  CounterMod,  (* 2^64 in the code.                                          *)
  NoGen,       (* nonce_gen is None.                                         *)
  NoHandle,
  ForkInCall   (* May the thread inside next_nonce itself fork (from a       *)
               (* signal handler), so that the child goes on with the call?  *)

nonce_value(base, counter) == (base + counter) % NonceMod

Counters == 0 .. CounterMod - 1
Nonces == 0 .. NonceMod - 1

(* Two draws of the OS give ranges [salt, salt + 2^64) that do not overlap: *)
(* the event the code's comment puts at about M^2 * n / 2^96.               *)
ASSUME NonceAssumption ==
  /\ NonceMod \in Nat \ {0}
  /\ CounterMod \in Nat \ {0}
  /\ CounterMod <= NonceMod
  /\ Salt \subseteq Nonces
  /\ \A s, t \in Salt : \A i, j \in Counters :
       nonce_value(s, i) = nonce_value(t, j) => s = t
  /\ ForkInCall \in BOOLEAN
  /\ NoHandle \notin Handle
  /\ NoGen \notin [base : Nat, counter : Nat, guard : Guard]

VARIABLES
  gen,        (* nonce_gen of each handle in each process.                   *)
  pc,         (* Where the handle's call of next_nonce stands.               *)
  why,        (* What a salt is being drawn for: "new", "fork" or "wrap".    *)
  nonce,      (* The local of next() that holds the nonce to return.         *)
  drawn,      (* History: the salts the OS has returned so far.              *)
  issued,     (* History: every nonce a call has returned, in any process.   *)
  repeated,   (* History: those returned more than once.                     *)
  exhausted   (* History: has the re-salt after a counter wrap ever failed?  *)

callVars == <<gen, pc, why, nonce>>
history == <<drawn, issued, repeated, exhausted>>
vars == <<forkVars, callVars, history>>

NonceGenState == [base : Nonces, counter : Counters, guard : Guard]

TypeOK ==
  /\ ForkTypeOK
  /\ gen \in [Proc -> [Handle -> NonceGenState \cup {NoGen}]]
  /\ pc \in [Proc -> [Handle -> {"idle", "check", "salt", "capture", "install",
                                 "take", "return", "orphaned"}]]
  /\ why \in [Proc -> [Handle -> {"new", "fork", "wrap"}]]
  /\ nonce \in [Proc -> [Handle -> Nonces]]
  /\ drawn \subseteq Salt
  /\ issued \subseteq Nonces
  /\ repeated \subseteq Nonces
  /\ exhausted \in BOOLEAN

-----------------------------------------------------------------------------
Init ==
  /\ ForkInit
  /\ gen = [p \in Proc |-> [h \in Handle |-> NoGen]]
  /\ pc = [p \in Proc |-> [h \in Handle |-> "idle"]]
  /\ why = [p \in Proc |-> [h \in Handle |-> "new"]]
  /\ nonce = [p \in Proc |-> [h \in Handle |-> 0]]
  /\ drawn = {}
  /\ issued = {}
  /\ repeated = {}
  /\ exhausted = FALSE

At(p, h, l) == status[p] = "running" /\ pc[p][h] = l

Goto(p, h, l) == pc' = [pc EXCEPT ![p][h] = l]

(* The call returns to its caller and its locals go out of scope.           *)
Return(p, h) ==
  /\ Goto(p, h, "idle")
  /\ why' = [why EXCEPT ![p][h] = "new"]
  /\ nonce' = [nonce EXCEPT ![p][h] = 0]

-----------------------------------------------------------------------------
(* next_nonce and NonceGen::next, one step per access to shared state.      *)

(* A handle makes its generator on its first generated-nonce encryption.    *)
Call(p, h) ==
  /\ At(p, h, "idle")
  /\ IF gen[p][h] = NoGen
       THEN Goto(p, h, "salt") /\ why' = [why EXCEPT ![p][h] = "new"]
       ELSE Goto(p, h, "check") /\ UNCHANGED why
  /\ UNCHANGED <<forkVars, gen, nonce, history>>

(* A generator that never looks at its guard again.                         *)
MutNoForkCheck(p, h) ==
  /\ At(p, h, "check")
  /\ Goto(p, h, "take")
  /\ UNCHANGED <<forkVars, gen, why, nonce, history>>

(* if !fork_guard.unchanged() *)
CheckGuard(p, h) ==
  /\ At(p, h, "check")
  /\ IF Unchanged(gen[p][h].guard, p)
       THEN Goto(p, h, "take") /\ UNCHANGED why
       ELSE Goto(p, h, "salt") /\ why' = [why EXCEPT ![p][h] = "fork"]
  /\ UNCHANGED <<forkVars, gen, nonce, history>>

(* os_salt succeeds: a base never returned before, and the counter at 0.    *)
DrawSalt(p, h) ==
  /\ At(p, h, "salt")
  /\ \E s \in Salt \ drawn :
       /\ drawn' = drawn \cup {s}
       /\ gen' = [gen EXCEPT ![p][h] =
                    [base |-> s, counter |-> 0,
                     guard |-> IF gen[p][h] = NoGen THEN NoGuard ELSE gen[p][h].guard]]
  /\ Goto(p, h, "capture")
  /\ UNCHANGED <<forkVars, why, nonce, issued, repeated, exhausted>>

(* os_salt fails: the call returns Error::OsEntropy and the generator keeps *)
(* the state it had (None when it was being made).                          *)
SaltFails(p, h) ==
  /\ At(p, h, "salt")
  /\ Return(p, h)
  /\ exhausted' = (exhausted \/ why[p][h] = "wrap")
  /\ UNCHANGED <<forkVars, gen, drawn, issued, repeated>>

ClaimInstall(p, h) ==
  /\ At(p, h, "capture")
  /\ BeginInstall(p)
  /\ Goto(p, h, "install")
  /\ UNCHANGED <<gen, why, nonce, history>>

FinishInstall(p, h) ==
  /\ At(p, h, "install")
  /\ EndInstall(p)
  /\ Goto(p, h, "capture")
  /\ UNCHANGED <<gen, why, nonce, history>>

(* Where the call goes on once the generator has been salted.               *)
AfterSalt(w) == CASE w = "new" -> "check" [] w = "fork" -> "take" [] w = "wrap" -> "return"

(* resalt leaves the old guard in place.                                    *)
MutGuardNotRecaptured(p, h) ==
  /\ At(p, h, "capture")
  /\ OnceIsSet(p)
  /\ gen' = [gen EXCEPT ![p][h].guard = IF @.kind = "none" THEN Capture(p) ELSE @]
  /\ Goto(p, h, AfterSalt(why[p][h]))
  /\ UNCHANGED <<forkVars, why, nonce, history>>

CaptureGuard(p, h) ==
  /\ At(p, h, "capture")
  /\ OnceIsSet(p)
  /\ gen' = [gen EXCEPT ![p][h].guard = Capture(p)]
  /\ Goto(p, h, AfterSalt(why[p][h]))
  /\ UNCHANGED <<forkVars, why, nonce, history>>

(* The wrap of the counter goes unnoticed.                                  *)
MutNoWrapResalt(p, h) ==
  /\ At(p, h, "take")
  /\ nonce' = [nonce EXCEPT ![p][h] = nonce_value(gen[p][h].base, gen[p][h].counter)]
  /\ gen' = [gen EXCEPT ![p][h].counter = (@ + 1) % CounterMod]
  /\ Goto(p, h, "return")
  /\ UNCHANGED <<forkVars, why, history>>

(* The counter is wider than the code's 64 bits and never wraps.            *)
MutCounterNotWrapped(p, h) ==
  /\ At(p, h, "take")
  /\ nonce' = [nonce EXCEPT ![p][h] = nonce_value(gen[p][h].base, gen[p][h].counter)]
  /\ gen' = [gen EXCEPT ![p][h].counter = @ + 1]
  /\ Goto(p, h, "return")
  /\ UNCHANGED <<forkVars, why, history>>

(* nonce_value, then wrapping_add; a counter back at 0 calls for a re-salt  *)
(* before the nonce is returned.                                            *)
TakeNonce(p, h) ==
  LET counter == (gen[p][h].counter + 1) % CounterMod IN
  /\ At(p, h, "take")
  /\ nonce' = [nonce EXCEPT ![p][h] = nonce_value(gen[p][h].base, gen[p][h].counter)]
  /\ gen' = [gen EXCEPT ![p][h].counter = counter]
  /\ IF counter = 0
       THEN Goto(p, h, "salt") /\ why' = [why EXCEPT ![p][h] = "wrap"]
       ELSE Goto(p, h, "return") /\ UNCHANGED why
  /\ UNCHANGED <<forkVars, history>>

ReturnNonce(p, h) ==
  /\ At(p, h, "return")
  /\ issued' = issued \cup {nonce[p][h]}
  /\ repeated' = repeated \cup (issued \cap {nonce[p][h]})
  /\ Return(p, h)
  /\ UNCHANGED <<forkVars, gen, drawn, exhausted>>

-----------------------------------------------------------------------------
(* Processes. *)

InCall(p, h) == pc[p][h] \notin {"idle", "orphaned"}

(* In the child only the forking thread exists: a call another thread was   *)
(* in never resumes, and its handle stays borrowed by it, out of reach of   *)
(* the rest of the child. The forking thread is itself inside a call only   *)
(* when ForkInCall allows it (t # NoHandle).                                *)
Orphans(p, t) == {h \in Handle : h # t /\ pc[p][h] # "idle"}

Fork(p, q, i, t) ==
  /\ ForkProcess(p, q, i)
  /\ t # NoHandle => ForkInCall /\ InCall(p, t)
  /\ gen' = [gen EXCEPT ![q] = [h \in Handle |->
                IF h \in Orphans(p, t) THEN NoGen ELSE gen[p][h]]]
  /\ pc' = [pc EXCEPT ![q] = [h \in Handle |->
                IF h \in Orphans(p, t) THEN "orphaned" ELSE pc[p][h]]]
  /\ why' = [why EXCEPT ![q] = [h \in Handle |-> IF h = t THEN why[p][h] ELSE "new"]]
  /\ nonce' = [nonce EXCEPT ![q] = [h \in Handle |-> IF h = t THEN nonce[p][h] ELSE 0]]
  /\ UNCHANGED history

Start(p, i) ==
  /\ StartProcess(p, i)
  /\ UNCHANGED <<callVars, history>>

(* The process may die at any point of any call.                            *)
Exit(p) ==
  /\ ExitProcess(p)
  /\ gen' = [gen EXCEPT ![p] = [h \in Handle |-> NoGen]]
  /\ pc' = [pc EXCEPT ![p] = [h \in Handle |-> "idle"]]
  /\ why' = [why EXCEPT ![p] = [h \in Handle |-> "new"]]
  /\ nonce' = [nonce EXCEPT ![p] = [h \in Handle |-> 0]]
  /\ UNCHANGED history

ThreadStep(p, h) ==
  \/ CheckGuard(p, h)
  \/ DrawSalt(p, h)
  \/ SaltFails(p, h)
  \/ ClaimInstall(p, h)
  \/ FinishInstall(p, h)
  \/ CaptureGuard(p, h)
  \/ TakeNonce(p, h)
  \/ ReturnNonce(p, h)

Next ==
  \/ \E p \in Proc, h \in Handle : Call(p, h) \/ ThreadStep(p, h)
  \/ \E p, q \in Proc, i \in Pid, t \in Handle \cup {NoHandle} : Fork(p, q, i, t)
  \/ \E p \in Proc, i \in Pid : Start(p, i)
  \/ \E p \in Proc : Exit(p)

Spec == Init /\ [][Next]_vars

(* A thread inside next_nonce is scheduled; nobody has to call, fork, start *)
(* or exit.                                                                 *)
Fairness == \A p \in Proc, h \in Handle : WF_vars(ThreadStep(p, h))

FairSpec == Spec /\ Fairness

-----------------------------------------------------------------------------
(* Reservations: the nonces a handle may still return without drawing       *)
(* another salt.                                                            *)

SpentBase(p, h) == pc[p][h] = "salt" /\ why[p][h] = "wrap"

Holds(p, h) ==
  /\ gen[p][h] # NoGen
  /\ pc[p][h] # "orphaned"
  /\ ~SpentBase(p, h)
  /\ pc[p][h] \in {"capture", "install"} \/ Unchanged(gen[p][h].guard, p)

Pending(p, h) ==
  \/ pc[p][h] = "return"
  \/ pc[p][h] \in {"salt", "capture", "install"} /\ why[p][h] = "wrap"

TailOf(p, h) ==
  IF Holds(p, h)
    THEN {nonce_value(gen[p][h].base, i) : i \in gen[p][h].counter .. CounterMod - 1}
    ELSE {}

PendingOf(p, h) == IF Pending(p, h) THEN {nonce[p][h]} ELSE {}

Reserved(p, h) == TailOf(p, h) \cup PendingOf(p, h)

(* The claim of nonce.rs, "so a repeat is never produced", with no          *)
(* exception: no two calls, in any of the processes, return the same nonce. *)
NeverRepeats == repeated = {}

(* No two calls of next_nonce under one key return the same nonce, whatever *)
(* forks, exits, restarts and entropy failures happen in between, as long   *)
(* as no re-salt after a counter wrap has failed.                           *)
NoRepeat == ~exhausted => repeated = {}

(* No two handles, of any two processes, can ever be about to return the    *)
(* same nonce, nor one already returned: what each may return without a     *)
(* new salt is disjoint from the rest. This is what a fork, a stale guard   *)
(* or a counter put back at 0 would break first.                            *)
ReservationsDisjoint ==
  ~exhausted =>
    /\ \A p, q \in Proc, h, k \in Handle :
         <<p, h>> # <<q, k>> => Reserved(p, h) \cap Reserved(q, k) = {}
    /\ \A p \in Proc, h \in Handle : Reserved(p, h) \cap issued = {}
    /\ \A p \in Proc, h \in Handle : PendingOf(p, h) \cap TailOf(p, h) = {}

(* Forking does not disturb the parent: a generator a process may use stays *)
(* usable in it, without another draw of OS entropy, until the generator    *)
(* itself changes or the process ends.                                      *)
ParentUndisturbed ==
  [][\A p \in Proc, h \in Handle :
       Holds(p, h) /\ gen'[p][h] = gen[p][h] => Holds(p, h)' \/ SpentBase(p, h)']_vars

(* The thread that was initialising the OnceLock does not exist in this     *)
(* process: it was in the parent when the process was forked.               *)
InstallOrphaned(p) ==
  once[p] = "running" /\ \A h \in Handle : pc[p][h] # "install"

(* Every call of next_nonce returns, unless its process ends or was forked  *)
(* while another thread of its parent was inside the OnceLock's             *)
(* initialiser.                                                             *)
CallsReturn ==
  \A p \in Proc, h \in Handle :
    InCall(p, h) ~> (~InCall(p, h) \/ InstallOrphaned(p))
-----------------------------------------------------------------------------
(* The inductive invariant behind NoRepeat and ReservationsDisjoint. It     *)
(* holds when the thread inside next_nonce does not fork and process ids    *)
(* are not compared on a system that gives them out twice (SafeSetting).    *)

SafeSetting == ~ForkInCall /\ (PidReuse => "refused" \notin AtforkOutcome)

(* At which points of next_nonce the handle has a generator.                *)
Shape(p, h) ==
  /\ pc[p][h] = "orphaned" => gen[p][h] = NoGen
  /\ pc[p][h] = "salt" => (gen[p][h] = NoGen <=> why[p][h] = "new")
  /\ pc[p][h] \in {"check", "capture", "install", "take", "return"} => gen[p][h] # NoGen
  /\ status[p] # "running" => gen[p][h] = NoGen /\ pc[p][h] = "idle"

CallShape == \A p \in Proc, h \in Handle : Shape(p, h)

(* A guard is a snapshot of what its process, or an ancestor, once was.     *)
GuardsOfPast ==
  /\ \A p \in Proc : once[p] \in {"unset", "running"} \cup AtforkOutcome
  /\ \A p \in Proc, h \in Handle : gen[p][h] # NoGen =>
       \/ GuardOfPast(gen[p][h].guard, p)
       \/ gen[p][h].guard.kind = "none" /\ pc[p][h] \in {"capture", "install"}

(* A nonce is taken only under a guard that is still current.               *)
TakesAreCurrent ==
  \A p \in Proc, h \in Handle : pc[p][h] = "take" => Unchanged(gen[p][h].guard, p)

(* Every nonce reserved or issued comes from a salt that was drawn.         *)
Covered == {nonce_value(s, i) : s \in drawn, i \in Counters}

AllCovered ==
  /\ issued \subseteq Covered
  /\ \A p \in Proc, h \in Handle : Reserved(p, h) \subseteq Covered

Inductive ==
  /\ TypeOK
  /\ CallShape
  /\ GuardsOfPast
  /\ TakesAreCurrent
  /\ NoRepeat
  /\ ReservationsDisjoint
  /\ ~exhausted => AllCovered
=============================================================================
