---------------------------- MODULE KeyGenerator ----------------------------
(***************************************************************************)
(* AesCtrKeyGenerator of src/random/mod.rs: an AES-256-CTR generator with  *)
(* a one-block output buffer, a reseed interval and a fork guard, one per  *)
(* process of a tree of processes that fork.                               *)
(*                                                                         *)
(* A keystream byte is named by the key and block counter that produced it *)
(* and its offset in the block; a key by the OS seed it descends from and  *)
(* the reseed blends since.  Nothing at all is assumed of the CPU's random *)
(* number instruction: it may answer the same value for ever.              *)
(***************************************************************************)
EXTENDS ForkGuard, Sequences, FiniteSets

CONSTANTS
  OsSeed,          (* The seeds the OS entropy source can return.            *)
  CpuEntropy,      (* What cpu_rng_fill can return when it succeeds.         *)
  ForkInCall,      (* Where in a call its own thread may fork (from a signal *)
                   (* handler).                                              *)
  MaxBlends,       (* Bound: reseed blends in the descent of one OS seed.    *)
  BlockSize,       (* 16 in the code.                                        *)
  CtrMod,          (* 2^128 in the code.                                     *)
  FirstCtr,        (* The counter a seed starts at.                          *)
  Intervals,       (* 2^30 by default; the tests set other values, also 0.   *)
  Length,          (* The lengths of the buffers callers ask to fill.        *)
  Zero,            (* A wiped byte.                                          *)
  NoRng            (* The process holds no generator.                        *)

AtLeastOne(interval) == IF interval < 1 THEN 1 ELSE interval

Offset == 0 .. BlockSize - 1
Ctr == 0 .. CtrMod - 1
Key == [seed : OsSeed, blends : Seq(Ctr \X CpuEntropy)]
Keystream == Key \X Ctr \X Offset

Generator ==
  [key : Key, counter : Ctr, buffer : [Offset -> Keystream \cup {Zero}],
   buffer_pos : 0 .. BlockSize, generated_since_reseed : Nat, fork_guard : Guard]

(* A key's quota and the three blocks of a blend fit in one cycle of the    *)
(* counter, by far: 2^30 bytes against 2^132.                               *)
ASSUME KeyGeneratorAssumption ==
  /\ ForkInCall \subseteq {"seed", "check", "fill", "reseed", "capture", "install"}
  /\ MaxBlends \in Nat
  /\ BlockSize \in Nat \ {0} /\ CtrMod \in Nat \ {0}
  /\ FirstCtr \in 0 .. CtrMod - 1
  /\ Intervals \subseteq Nat
  /\ \A i \in Intervals : AtLeastOne(i) + 4 * BlockSize <= CtrMod * BlockSize
  /\ Length \subseteq Nat
  /\ Zero \notin Keystream /\ NoRng \notin Generator

Byte(key, ctr, offset) == <<key, ctr % CtrMod, offset>>

VARIABLES
  rng,        (* The generator of each process.                              *)
  pc,         (* Where its owner's call stands.                              *)
  left,       (* The length of `out` still to be filled.                     *)
  reseed_interval, (* The field of that name: set once for all.              *)
  seeded,     (* History: the seeds the OS has returned.                     *)
  emitted,    (* History: the keystream bytes written to callers' buffers.   *)
  repeated,   (* History: those written twice.                               *)
  blended,    (* History: the keystream bytes used to make a new seed.       *)
  retired     (* History: the keys that reseeds have replaced.               *)

callVars == <<rng, pc, left>>
history == <<seeded, emitted, repeated, blended, retired>>
vars == <<forkVars, callVars, reseed_interval, history>>

Quota == AtLeastOne(reseed_interval)

EmptyBuffer == [o \in Offset |-> Zero]

TypeOK ==
  /\ ForkTypeOK
  /\ rng \in [Proc -> Generator \cup {NoRng}]
  /\ \A p \in Proc : rng[p] # NoRng => rng[p].generated_since_reseed <= Quota
  /\ pc \in [Proc -> {"idle", "seed", "check", "fill", "reseed", "capture", "install"}]
  /\ left \in [Proc -> Nat]
  /\ reseed_interval \in Intervals
  /\ seeded \subseteq OsSeed
  /\ emitted \subseteq Keystream /\ blended \subseteq Keystream

-----------------------------------------------------------------------------
Init ==
  /\ ForkInit
  /\ rng = [p \in Proc |-> NoRng]
  /\ pc = [p \in Proc |-> "idle"]
  /\ left = [p \in Proc |-> 0]
  /\ reseed_interval \in Intervals
  /\ seeded = {}
  /\ emitted = {}
  /\ repeated = {}
  /\ blended = {}
  /\ retired = {}

At(p, l) == status[p] = "running" /\ pc[p] = l

Goto(p, l) == pc' = [pc EXCEPT ![p] = l]

Return(p) == Goto(p, "idle") /\ left' = [left EXCEPT ![p] = 0]

-----------------------------------------------------------------------------
(* Making and dropping a generator. *)

CallNew(p) ==
  /\ At(p, "idle") /\ rng[p] = NoRng
  /\ Goto(p, "seed")
  /\ UNCHANGED <<forkVars, reseed_interval, rng, left, history>>

(* from_os_entropy, from_seed_bytes.                                        *)
SeedFromOs(p) ==
  /\ At(p, "seed")
  /\ \E s \in OsSeed \ seeded :
       /\ seeded' = seeded \cup {s}
       /\ rng' = [rng EXCEPT ![p] =
            [key |-> [seed |-> s, blends |-> <<>>], counter |-> FirstCtr,
             buffer |-> EmptyBuffer, buffer_pos |-> BlockSize,
             generated_since_reseed |-> 0, fork_guard |-> NoGuard]]
  /\ Goto(p, "capture")
  /\ UNCHANGED <<forkVars, reseed_interval, left, emitted, repeated, blended, retired>>

SeedFails(p) ==
  /\ At(p, "seed")
  /\ Return(p)
  /\ UNCHANGED <<forkVars, reseed_interval, rng, history>>

Drop(p) ==
  /\ At(p, "idle") /\ rng[p] # NoRng
  /\ rng' = [rng EXCEPT ![p] = NoRng]
  /\ UNCHANGED <<forkVars, reseed_interval, pc, left, history>>

ClaimInstall(p) ==
  /\ At(p, "capture") /\ BeginInstall(p)
  /\ Goto(p, "install")
  /\ UNCHANGED <<reseed_interval, rng, left, history>>

FinishInstall(p) ==
  /\ At(p, "install") /\ EndInstall(p)
  /\ Goto(p, "capture")
  /\ UNCHANGED <<reseed_interval, rng, left, history>>

(* The guard is captured last, both by the constructor, which then returns, *)
(* and by reseed, after which the fill goes on.                             *)
CaptureGuard(p) ==
  /\ At(p, "capture") /\ OnceIsSet(p)
  /\ rng' = [rng EXCEPT ![p].fork_guard = Capture(p)]
  /\ Goto(p, IF left[p] = 0 THEN "idle" ELSE "fill")
  /\ UNCHANGED <<forkVars, reseed_interval, left, history>>

-----------------------------------------------------------------------------
(* fill_bytes. *)

CallFill(p, n) ==
  /\ At(p, "idle") /\ rng[p] # NoRng
  /\ Goto(p, "check")
  /\ left' = [left EXCEPT ![p] = n]
  /\ UNCHANGED <<forkVars, reseed_interval, rng, history>>

(* A generator that never checks its guard.                                 *)
MutNoForkCheck(p) ==
  /\ At(p, "check")
  /\ Goto(p, "fill")
  /\ UNCHANGED <<forkVars, reseed_interval, rng, left, history>>

(* ForkDetected is returned before anything is written.                     *)
CheckGuard(p) ==
  /\ At(p, "check")
  /\ IF Unchanged(rng[p].fork_guard, p) THEN Goto(p, "fill") /\ UNCHANGED left ELSE Return(p)
  /\ UNCHANGED <<forkVars, reseed_interval, rng, history>>

FillDone(p) ==
  /\ At(p, "fill") /\ left[p] = 0
  /\ Return(p)
  /\ UNCHANGED <<forkVars, reseed_interval, rng, history>>

(* How the n bytes of a chunk split: drained from the buffer, whole blocks, *)
(* and the head of one more block, whose tail stays in the buffer.          *)
MinOf(a, b) == IF a < b THEN a ELSE b
Drained(r, n) == MinOf(BlockSize - r.buffer_pos, n)
WholeBlocks(r, n) == (n - Drained(r, n)) \div BlockSize
Remainder(r, n) == (n - Drained(r, n)) % BlockSize

Produced(r, n) ==
  LET whole == WholeBlocks(r, n)
      rest == Remainder(r, n)
  IN {r.buffer[o] : o \in r.buffer_pos .. r.buffer_pos + Drained(r, n) - 1}
     \cup {Byte(r.key, r.counter + b, o) : b \in 0 .. whole - 1, o \in Offset}
     \cup {Byte(r.key, r.counter + whole, o) : o \in 0 .. rest - 1}

(* The remainder's bytes are not wiped from the buffer.                     *)
MutNoWipe(r, n) ==
  LET whole == WholeBlocks(r, n)
      rest == Remainder(r, n)
      end == r.buffer_pos + Drained(r, n)
  IN [r EXCEPT
        !.counter = (@ + whole + (IF rest = 0 THEN 0 ELSE 1)) % CtrMod,
        !.buffer = [o \in Offset |->
           IF rest # 0
             THEN Byte(r.key, r.counter + whole, o)
             ELSE IF o < end THEN Zero ELSE @[o]],
        !.buffer_pos = IF rest # 0 THEN rest ELSE end,
        !.generated_since_reseed = @ + n]

(* Every partial call starts a new block.                                   *)
MutBufferDropped(r, n) ==
  LET whole == WholeBlocks(r, n)
      rest == Remainder(r, n)
  IN [r EXCEPT
        !.counter = (@ + whole + (IF rest = 0 THEN 0 ELSE 1)) % CtrMod,
        !.buffer = EmptyBuffer,
        !.buffer_pos = BlockSize,
        !.generated_since_reseed = @ + n]

(* The block of a remainder does not advance the counter.                   *)
MutRemainderNotCounted(r, n) ==
  LET whole == WholeBlocks(r, n)
      rest == Remainder(r, n)
      end == r.buffer_pos + Drained(r, n)
  IN [r EXCEPT
        !.counter = (@ + whole) % CtrMod,
        !.buffer = [o \in Offset |->
           IF rest # 0
             THEN IF o < rest THEN Zero ELSE Byte(r.key, r.counter + whole, o)
             ELSE IF o < end THEN Zero ELSE @[o]],
        !.buffer_pos = IF rest # 0 THEN rest ELSE end,
        !.generated_since_reseed = @ + n]

(* fill_without_lifecycle_checks: emitted bytes are wiped from the buffer.  *)
AfterChunk(r, n) ==
  LET whole == WholeBlocks(r, n)
      rest == Remainder(r, n)
      end == r.buffer_pos + Drained(r, n)
  IN [r EXCEPT
        !.counter = (@ + whole + (IF rest = 0 THEN 0 ELSE 1)) % CtrMod,
        !.buffer = [o \in Offset |->
           IF rest # 0
             THEN IF o < rest THEN Zero ELSE Byte(r.key, r.counter + whole, o)
             ELSE IF o < end THEN Zero ELSE @[o]],
        !.buffer_pos = IF rest # 0 THEN rest ELSE end,
        !.generated_since_reseed = @ + n]

(* A chunk is not cut at the interval.                                      *)
MutChunkUncut(p) ==
  LET r == rng[p]
      take == left[p]
  IN /\ At(p, "fill") /\ left[p] > 0 /\ r.generated_since_reseed < Quota
     /\ rng' = [rng EXCEPT ![p] = AfterChunk(r, take)]
     /\ left' = [left EXCEPT ![p] = @ - take]
     /\ emitted' = emitted \cup Produced(r, take)
     /\ repeated' = repeated \cup (emitted \cap Produced(r, take))
     /\ UNCHANGED <<forkVars, reseed_interval, pc, seeded, blended, retired>>

(* An interval of 0 is not raised to 1: chunks of no bytes for ever.        *)
MutZeroInterval(p) ==
  LET r == rng[p]
      take == MinOf(left[p], reseed_interval - r.generated_since_reseed)
  IN /\ At(p, "fill") /\ left[p] > 0 /\ r.generated_since_reseed < Quota
     /\ rng' = [rng EXCEPT ![p] = AfterChunk(r, take)]
     /\ left' = [left EXCEPT ![p] = @ - take]
     /\ emitted' = emitted \cup Produced(r, take)
     /\ repeated' = repeated \cup (emitted \cap Produced(r, take))
     /\ UNCHANGED <<forkVars, reseed_interval, pc, seeded, blended, retired>>

(* One turn of the loop of fill_checked, up to the next reseed.             *)
FillChunk(p) ==
  LET r == rng[p]
      take == MinOf(left[p], Quota - r.generated_since_reseed)
  IN /\ At(p, "fill") /\ left[p] > 0 /\ r.generated_since_reseed < Quota
     /\ rng' = [rng EXCEPT ![p] = AfterChunk(r, take)]
     /\ left' = [left EXCEPT ![p] = @ - take]
     /\ emitted' = emitted \cup Produced(r, take)
     /\ repeated' = repeated \cup (emitted \cap Produced(r, take))
     /\ UNCHANGED <<forkVars, reseed_interval, pc, seeded, blended, retired>>

BeginReseed(p) ==
  /\ At(p, "fill") /\ left[p] > 0 /\ rng[p].generated_since_reseed >= Quota
  /\ Goto(p, "reseed")
  /\ UNCHANGED <<forkVars, reseed_interval, rng, left, history>>

(* reseed leaves the rest of the old key's block in the buffer.             *)
MutBufferKept(r, key) ==
  [r EXCEPT !.key = key, !.counter = FirstCtr, !.generated_since_reseed = 0]

(* The backend of the new seed is not put in place of the old one.          *)
MutNotRekeyed(r, key) ==
  [r EXCEPT !.buffer = EmptyBuffer, !.buffer_pos = BlockSize,
            !.generated_since_reseed = 0]

(* A new backend, an empty buffer, and the count of bytes from 0.           *)
Rekeyed(r, key) ==
  [r EXCEPT !.key = key, !.counter = FirstCtr,
            !.buffer = EmptyBuffer, !.buffer_pos = BlockSize,
            !.generated_since_reseed = 0]

BlendBlocks(r) == {Byte(r.key, r.counter + b, o) : b \in 0 .. 2, o \in Offset}

(* The blend is keyed by what the CPU returned alone.                       *)
MutRawEntropy(r, e) == [seed |-> r.key.seed, blends |-> <<<<0, e>>>>]

(* The new seed is a function of the old secret state and of what the CPU   *)
(* returned: keystream blocks XOR entropy.                                  *)
BlendedKey(r, e) == [r.key EXCEPT !.blends = Append(@, <<r.counter, e>>)]

(* cpu_rng_fill succeeded.                                                  *)
ReseedBlend(p) ==
  /\ At(p, "reseed")
  /\ Len(rng[p].key.blends) < MaxBlends
  /\ \E e \in CpuEntropy :
       rng' = [rng EXCEPT ![p] = Rekeyed(@, BlendedKey(@, e))]
  /\ blended' = blended \cup BlendBlocks(rng[p])
  /\ retired' = retired \cup {rng[p].key}
  /\ Goto(p, "capture")
  /\ UNCHANGED <<forkVars, reseed_interval, left, seeded, emitted, repeated>>

(* The CPU has no usable generator; the OS returns a fresh seed.            *)
ReseedFromOs(p) ==
  /\ At(p, "reseed")
  /\ \E s \in OsSeed \ seeded :
       /\ seeded' = seeded \cup {s}
       /\ rng' = [rng EXCEPT ![p] = Rekeyed(@, [seed |-> s, blends |-> <<>>])]
  /\ retired' = retired \cup {rng[p].key}
  /\ Goto(p, "capture")
  /\ UNCHANGED <<forkVars, reseed_interval, left, emitted, repeated, blended>>

(* Neither: the fill returns OsEntropy with part of `out` written.          *)
ReseedFails(p) ==
  /\ At(p, "reseed")
  /\ Return(p)
  /\ UNCHANGED <<forkVars, reseed_interval, rng, history>>

-----------------------------------------------------------------------------
(* Processes. A child keeps a copy of an idle generator; one that another   *)
(* thread was using is out of the child's reach, and it may make another.   *)

Fork(p, q, i) ==
  /\ ForkProcess(p, q, i)
  /\ rng' = [rng EXCEPT ![q] = IF pc[p] = "idle" THEN rng[p] ELSE NoRng]
  /\ UNCHANGED <<reseed_interval, pc, left, history>>

(* The thread inside a call forks: the child has its generator, and goes on *)
(* with the call where the parent stands.                                   *)
ForkInside(p, q, i) ==
  /\ pc[p] \in ForkInCall
  /\ ForkProcess(p, q, i)
  /\ rng' = [rng EXCEPT ![q] = rng[p]]
  /\ pc' = [pc EXCEPT ![q] = pc[p]]
  /\ left' = [left EXCEPT ![q] = left[p]]
  /\ UNCHANGED <<reseed_interval, history>>

Start(p, i) == StartProcess(p, i) /\ UNCHANGED <<reseed_interval, callVars, history>>

Exit(p) ==
  /\ ExitProcess(p)
  /\ rng' = [rng EXCEPT ![p] = NoRng]
  /\ pc' = [pc EXCEPT ![p] = "idle"]
  /\ left' = [left EXCEPT ![p] = 0]
  /\ UNCHANGED <<reseed_interval, history>>

ThreadStep(p) ==
  \/ SeedFromOs(p)
  \/ SeedFails(p)
  \/ ClaimInstall(p)
  \/ FinishInstall(p)
  \/ CaptureGuard(p)
  \/ CheckGuard(p)
  \/ FillChunk(p)
  \/ FillDone(p)
  \/ BeginReseed(p)
  \/ ReseedBlend(p)
  \/ ReseedFromOs(p)
  \/ ReseedFails(p)

Next ==
  \/ \E p \in Proc : CallNew(p) \/ Drop(p) \/ ThreadStep(p) \/ Exit(p)
  \/ \E p \in Proc, n \in Length : CallFill(p, n)
  \/ \E p, q \in Proc, i \in Pid : Fork(p, q, i) \/ ForkInside(p, q, i)
  \/ \E p \in Proc, i \in Pid : Start(p, i)

Spec == Init /\ [][Next]_vars

FairSpec == Spec /\ \A p \in Proc : WF_vars(ThreadStep(p))

-----------------------------------------------------------------------------
(* A generator its process may use: its guard is current, or is about to be *)
(* captured by the call that has just seeded it.                            *)
Usable(p) ==
  /\ rng[p] # NoRng
  /\ pc[p] \in {"capture", "install"} \/ Unchanged(rng[p].fork_guard, p)

(* A guard tells a child from its ancestors for sure when no call forks     *)
(* after the check of the guard, or after a seed was drawn and before the   *)
(* guard is captured; and, if it is a process id, when ids do not come back.*)
SafeSetting ==
  /\ ForkInCall \subseteq {"seed", "check"}
  /\ PidReuse => "refused" \notin AtforkOutcome

(* Where a byte stands in the stream of its key.                            *)
Position(b) == ((b[2] + CtrMod - FirstCtr) % CtrMod) * BlockSize + b[3]
EmittedUnder(key) == {b \in emitted : b[1] = key}

(* No keystream byte is handed out twice, by any process of the tree: a key *)
(* or nonce a child generates is never one of its parent's, and a reseed    *)
(* never leads back to a stream already used, even when the CPU's random    *)
(* number instruction is stuck.                                             *)
NoByteTwice == repeated = {}

(* At most one process may use the stream of a key.                         *)
OneOwner ==
  \A p, q \in Proc :
    p # q /\ Usable(p) /\ Usable(q) => rng[p].key # rng[q].key

(* Nothing a process tree does takes a generator away from the process that *)
(* may use it: a parent's guard stays current when it forks, whatever other *)
(* processes install, fork or exit.                                         *)
OwnerUndisturbed ==
  [][\A p \in Proc :
       rng[p] # NoRng /\ Usable(p) /\ rng'[p] = rng[p] => Usable(p)']_vars

(* A generator that its process may not use is lost to it for good: no fill *)
(* advances it, no reseed gives it a key, and no later fork or install      *)
(* makes its guard current. It can only be dropped.                         *)
StaleForEver ==
  [][\A p \in Proc :
       rng[p] # NoRng /\ ~Usable(p) => rng'[p] \in {rng[p], NoRng} /\ ~Usable(p)']_vars

(* The keystream that goes into a new seed is never output, neither before  *)
(* the reseed nor after it.                                                 *)
SeedBytesSecret == emitted \cap blended = {}

(* What a usable generator holds in its buffer: behind the cursor only      *)
(* wiped bytes, from the cursor on only bytes not handed out yet; so no     *)
(* wiped byte is ever output.                                               *)
BufferUnspent ==
  /\ Zero \notin emitted
  /\ \A p \in Proc : Usable(p) => \A o \in Offset :
       IF o < rng[p].buffer_pos
         THEN rng[p].buffer[o] = Zero
         ELSE rng[p].buffer[o] \notin emitted \cup blended \cup {Zero}

(* Under one key at most an interval of bytes is output, and a key is       *)
(* replaced only when it has given exactly that: no reseed is late, and     *)
(* none happens for nothing, an interval of 0 counting as 1.                *)
KeyQuota ==
  /\ \A b \in emitted : Cardinality(EmittedUnder(b[1])) <= Quota
  /\ \A k \in retired : Cardinality(EmittedUnder(k)) = Quota

(* What is output under a key is a prefix of its stream: calls of any       *)
(* length, split anywhere, skip nothing.                                    *)
Contiguous ==
  \A b \in emitted :
    {Position(c) : c \in EmittedUnder(b[1])} = 0 .. Cardinality(EmittedUnder(b[1])) - 1

(* The invariant that the proofs use. In addition to the above: *)

(* A call is on a generator, of a running process.                          *)
CallShape ==
  \A p \in Proc :
    /\ status[p] # "running" => rng[p] = NoRng /\ pc[p] = "idle"
    /\ pc[p] \notin {"idle", "seed"} => rng[p] # NoRng

GuardsOfPast ==
  \A p \in Proc :
    /\ once[p] \in {"unset", "running"} \cup AtforkOutcome
    /\ rng[p] # NoRng =>
         GuardOfPast(rng[p].fork_guard, p) \/ rng[p].fork_guard.kind = "none"

(* Keystream is output only under a guard that is still current.            *)
FillsAreCurrent ==
  \A p \in Proc : pc[p] \in {"fill", "reseed"} => Unchanged(rng[p].fork_guard, p)

(* Each draw of the OS serves one generator, until it is dropped.           *)
SeedsOwned ==
  /\ \A b \in emitted \cup blended : b[1].seed \in seeded
  /\ \A p \in Proc : Usable(p) => rng[p].key.seed \in seeded
  /\ \A p, q \in Proc :
       p # q /\ Usable(p) /\ Usable(q) => rng[p].key.seed # rng[q].key.seed

(* Where the counter and the buffer stand in the stream of the key.         *)
Cursor(r, blocks) ==
  /\ r.counter = (FirstCtr + blocks) % CtrMod
  /\ r.generated_since_reseed + BlockSize - r.buffer_pos = blocks * BlockSize
  /\ \A o \in Offset :
       r.buffer[o] = IF o < r.buffer_pos THEN Zero ELSE Byte(r.key, FirstCtr + blocks - 1, o)

CursorsAgree ==
  \A p \in Proc : rng[p] # NoRng => \E blocks \in Ctr : Cursor(rng[p], blocks)

(* What was output from a generator's seed came before its cursor, or from  *)
(* fewer blends.                                                            *)
OutputIsPast ==
  \A p \in Proc : Usable(p) =>
    LET r == rng[p]
        Earlier(b) == Len(b[1].blends) < Len(r.key.blends)
    IN /\ \A b \in emitted : b[1].seed = r.key.seed =>
            Earlier(b) \/ (b[1] = r.key /\ Position(b) < r.generated_since_reseed)
       /\ \A b \in blended : b[1].seed = r.key.seed => Earlier(b)

(* A reseed begins when the quota is spent, and not before.                  *)
SpentBeforeReseed ==
  \A p \in Proc : pc[p] = "reseed" => rng[p].generated_since_reseed = Quota

(* What was output under a key is its stream up to somewhere: the count of  *)
(* the generator that may use it, the quota once it is replaced, and for a  *)
(* key that went with its process any place between.                        *)
Places(key) == {Position(b) : b \in EmittedUnder(key)}

OutputIsPrefix ==
  /\ \A p \in Proc : Usable(p) => Places(rng[p].key) = 0 .. rng[p].generated_since_reseed - 1
  /\ \A b \in emitted : \E n \in 0 .. Quota : Places(b[1]) = 0 .. n - 1
  /\ \A k \in retired : Places(k) = 0 .. Quota - 1

Inductive ==
  /\ TypeOK /\ CallShape /\ GuardsOfPast /\ FillsAreCurrent /\ SpentBeforeReseed
  /\ SeedsOwned /\ CursorsAgree /\ OutputIsPast /\ OutputIsPrefix
  /\ NoByteTwice /\ SeedBytesSecret

(* The thread running the OnceLock's initialiser stayed in the parent.      *)
InstallOrphaned(p) == once[p] = "running" /\ pc[p] # "install"

(* Every call returns, unless its process was forked inside the OnceLock's  *)
(* initialiser of another thread: the loop of fill_checked never spins on   *)
(* chunks of nothing.                                                       *)
CallsReturn ==
  \A p \in Proc : pc[p] # "idle" ~> (pc[p] = "idle" \/ InstallOrphaned(p))
=============================================================================
