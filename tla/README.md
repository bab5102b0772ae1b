# TLA+ models of hardware-rust-crypto

The crate implements AES-256-GCM, AES-256-GCM-SIV and an AES-CTR key generator
on CPU instructions only. These modules are about the parts of it that are
stateful and hard to test: generators that must never repeat a value although
processes fork, the reseeding keystream generator and its entropy, the passes
over a message that encrypt and authenticate it in place, the field and block
cipher as two sets of instructions compute them, and key state in storage that
is lent, boxed or moved about. `PROJECT.json` lists the runs, the mutants that
show each property can fail, the source lines of every definition, the hazards
and the theorems.

## The system

| Part | Source | State | Operations |
|---|---|---|---|
| Fork guard | `aes_gcm/fork.rs`, `random/fork.rs`, `ForkGuard` in `random/mod.rs` | per process: the generation counter, the `OnceLock` around `pthread_atfork`; per generator: a snapshot | capture, check; the child handler |
| Nonce generator | `aes_gcm/nonce.rs`, `next_nonce` in `aes_gcm/mod.rs` | base, counter, guard, in an `Option` of the handle | `new`, `next`, `resalt` |
| Key generator | `random/mod.rs` | key and counter (the back end), a block buffer and its cursor, bytes since the reseed, guard | `from_os_entropy`, `fill_bytes` (`key_32`, `nonce_12`), reseed, drop |
| CPU entropy | `random/entropy.rs` | none | `cpu_rng_fill`: retries, stuck-output screen |
| AES-CTR back ends | `random/aes_ctr.rs` | round keys, 128-bit counter | `fill_block` |
| GCM calls | `aes_gcm/mod.rs` | of one call: counter block, buffer, accumulator | the seals and opens of `KeyState` |
| GHASH, POLYVAL | `aes_gcm/ghash.rs` | key powers; accumulator of a message | `absorb_*`, the stitched bulk loops, `finalize` |
| GCM-SIV | `aes_gcm/siv.rs` | master key; derived keys of one call | the seals and opens of `SivKeyState` |
| AES-256 | `aes_gcm/aes.rs` | round keys | key expansion, `encrypt_block` |
| Key-state storage | `aes_gcm/mod.rs`, `siv.rs` | bytes of a caller, a box or an inline value, initialised in place | slot, `new_in`, `new`, move, drop |

A handle owns (or places in caller storage) a key state and keeps a nonce
generator beside it. `encrypt` takes a nonce from the generator (a `&mut`
borrow, so one call at a time per handle), then seals with the key state, which
is only read. Nonce and key generators each keep fork guards; the guards share
one counter per process and module, bumped by libc in the forked child. The key
generator draws from the OS when made and from the CPU (blended with its own
keystream) or the OS when it reseeds. A GCM call alternates the cipher and
GHASH over one buffer, eight blocks at a time; a GCM-SIV call makes two passes,
POLYVAL and counter mode, and a seal and an open make them in opposite order.

What is hard: `fork` between any two steps of other threads, and inside the
initialiser of the `OnceLock`; process ids; deaths and restarts with the same
key; OS entropy that fails at any draw, a CPU generator that is stuck; counters
that wrap; output requested in pieces across block and reseed boundaries; a
buffer that is at once input and output, with GHASH one batch late; plaintext
written before it is authenticated, from a counter that an unverified tag
gives; multiplication, key expansion and rounds written twice, once for each
architecture's instructions, which must agree; storage used again for another
key, and key state that moves.

What makes each part correct:

- a guard taken in one process is never current in another;
- no nonce is returned twice under a key, no keystream byte is output twice,
  a key yields exactly its quota, contiguously, and what becomes a seed is
  never output;
- a draw from the CPU is a full one without repeated words, or nothing, and ends;
- a call returns what SP 800-38D (GCM) or RFC 8452 (GCM-SIV) defines, in the
  operation's layout, or refuses and leaves nothing it should not; no counter
  block serves twice;
- both back ends compute the hash of SP 800-38D and RFC 8452 and the key
  schedule and cipher of FIPS-197;
- no byte of a key stays in storage that holds no live state, and no other byte
  of the caller's is written.

## The modules

| Module | What it is |
|---|---|
| `ForkGuard` | processes, fork, generation, `OnceLock`, guards; the part the two generators share |
| `NonceGen` | EXTENDS `ForkGuard`: `next_nonce` of several handles of one key in every process |
| `MCNonceGen` | its instance for TLC (symmetry of process slots) |
| `NonceGenProofs` | typing, and the safety theorems |
| `KeyGenerator`, `MCKeyGenerator` | EXTENDS `ForkGuard`: one `AesCtrKeyGenerator` per process |
| `KeyGeneratorProofs` | its safety theorems; and of `CpuEntropy` typing and the refinement |
| `SeedDraw`, `CpuEntropy` | what a draw from the CPU promises, and the draw word by word; refines it |
| `Algebra` | bytes, counter mode, the polynomial hash by the standards, and the aggregated hash of `ghash.rs` |
| `Gcm`, `Siv` | EXTEND `Algebra`: AES-256-GCM and AES-256-GCM-SIV as their standards define them |
| `AeadCalls` | the arguments of a call of either scheme, its layout, and what it may be refused for |
| `Aead` | the abstract promise, for any scheme: a call is asked, then answered in one step |
| `GcmCall`, `SivCall` | one call step by step; each refines `Aead` |
| `AeadRequests`, `MCGcmCall`, `MCSivCall` | the calls TLC makes |
| `AlgebraProofs` | that aggregated hashing is the standards' hash; arithmetic and sequences for the next two |
| `GcmCallProofs`, `SivCallProofs` | that each call keeps the promise of `Aead`, and no block of keystream serves twice |
| `Bits` | XOR of sets of bits |
| `FieldHash`, `MCFieldHash` | GF(2^128) by the instructions of both back ends, at 128 bits |
| `FieldHashProofs` | that both back ends compute the standards' hashes |
| `Aes`, `MCAes` | key expansion and rounds of both back ends |
| `AesProofs` | that they are those of FIPS-197 |
| `KeyStorage`, `MCKeyStorage` | slots and handles in one memory: lent, boxed and inline |
| `KeyStorageProofs` | that no key byte stays behind, and no other byte is written |

### Processes and guards (`ForkGuard`)

A process slot goes from unborn to running (by `ForkProcess` or
`StartProcess`) to exited. `generation[p]` is `FORK_GENERATION` in the memory
of `p`; `once[p]` is `INSTALLED`: unset, running (a thread is inside
`get_or_init`), or its answer. `fork` copies both, after `ChildGeneration`
bumped the child's. `Capture` and `Unchanged` are `ForkGuard::capture` and
`unchanged`. With the handler refused a guard is a process id, which the kernel
may give out again when `PidReuse` holds.

### Nonces (`NonceGen`)

All handles modelled hold one key. `pc[p][h]` says where the call of
`next_nonce` on handle `h` of process `p` stands; there is one step per access
to state that others can change: `CheckGuard` is the `if` of `next()`,
`DrawSalt`/`SaltFails` the call of `os_salt`, `ClaimInstall`, `FinishInstall`
and `CaptureGuard` the evaluation of `ForkGuard::capture` (a thread waits while
another is inside the lock), `TakeNonce` the computation of the nonce and the
wrapping increment, `ReturnNonce` the return. `why` says which of the three
draws is in progress, and so where the call goes on. Fork copies a handle that
is idle; one that another thread is using stays borrowed for ever in the child
and is `orphaned`. The salts of the instance are spaced so that their ranges do
not overlap (`NonceAssumption`), and `DrawSalt` never returns one twice: the
event that the code's comment puts at about `M^2 n / 2^96`.

### Keystream (`KeyGenerator`)

A byte of keystream is `<<key, counter, offset>>`, and a key is its OS seed and
the list of blends since. So two bytes are equal only if they are the same byte
of the same stream: AES as a family of independent functions. `fill_checked` is
`CheckGuard`, then `FillChunk` for each turn of its loop (all of
`drain_buffer`, the whole blocks and the remainder), `BeginReseed` and one of
the three outcomes of a reseed. The CPU's answers come from `CpuEntropy`: with
one element, it is stuck.

`Fork` copies a generator that is idle; one that another thread of the parent is
using is out of the child's reach. `ForkInside` is the fork by the thread of the
call itself (from a signal handler whose child returns into the call):
`ForkInCall` is the set of places where it may, and the child gets the generator
and goes on where its parent stands. The steps of a call are its chunks, its reseed and its capture,
and a fork within one of them is not told apart from one just before it: the
child then repeats the rest of that chunk, draws the same or another answer of
the CPU, or installs the handler for itself.

### Entropy (`SeedDraw`, `CpuEntropy`)

`CpuEntropy` takes a step for each execution of the instruction: `Ready` with
any word, or `NotReady`, and `Exhausted` when the budget ends, which may leave
words in the buffer for `Fail` to wipe. `Pass` and `Stuck` are the screen. The
caller sees the buffer when the draw returns; `SeedDraw` says what it may see.

### Calls (`Algebra`, `Gcm`, `Siv`, `AeadCalls`, `Aead`, `GcmCall`, `SivCall`)

A byte is the set of unknowns XORed into it, a hash value a polynomial in H
with such coefficients; both cancel as the real ones do. `HashOfMessage` and
`CtrMode` are the standards' definitions block by block. `absorb_blocks`,
`update_blocks`, `h_pows` are the code's. `Checks` gives each operation's own
order of its checks, `Passes` says that none fails, and `RefusedFor` that the
first to fail gives the error. A call refines `Aead`, where the order does not
show: its buffer is visible to the caller only when the call returns.

`GcmCall` takes a step per stitched batch (`SealBatch`, `OpenBatch`: fold the
previous batch, encrypt or decrypt this one, keep its ciphertext), the
epilogue, then the tail as each of `seal`, `seal_in_place`, `open` and
`open_in_place` does it, the tag, and the comparison. In an in-place operation
the source is the buffer being overwritten.

`SivCall` copies the message (`Begin`) and works on the copy. A seal hashes it
(`HashPlaintext`) and an open takes the tag it was given (`TrustTag`); either
sets the counter block, `CtrBatch` and `CtrBlock` are the two loops of
`ctr_apply`, and an open hashes what it decrypted to compare. A tag is the
encryption of a hash, an unknown, of which only the counter word and the bit
that the counter block sets are told apart: the constants `TagWord` and
`TagTop`, any functions of the hash. Keys derived from different nonces are
different (`Stream`).

The public `encrypt`, `encrypt_to`, `decrypt` and `decrypt_to` of the handles
are `NonceGen`'s call and then `encrypt_envelope`, `encrypt_envelope_to`,
`decrypt_envelope` and `decrypt_envelope_to`. The two parts share nothing but
the nonce.

### The field (`FieldHash`)

128 bits are the set of their ones, so XOR is symmetric difference and a lane is
a part of the set. `pmull`, `vext8`, `srli`, `slli` and `shuffle0E` are the
instructions (external); `karatsuba1` and `mont_reduce` the products of the
aarch64 back end, `clmul_wide` and `Fold` those of x86_64; `mulx` and
`reversed` turn POLYVAL into GHASH; `key_powers` and `update_blocks` are the
aggregation. `Update` takes the next eight, four or one blocks of the message,
on both builds at once, and `expected` follows the standards' definitions: the
bitwise product of SP 800-38D for GHASH, `Dot` for POLYVAL. `Dot` itself is
checked against the known answers of `ghash.rs`'s tests (`KnownAnswers`).

### The cipher (`Aes`)

A word is the set of its one bits, a register four words, and the S-box any
function of bytes (`SubByte`). `Expand` writes one round key: aarch64 takes
SubWord out of an `aese` with the word in all columns, x86_64 out of the lanes
of `aeskeygenassist`; both add the shifted copies of the parent
(`prefix_cascade`). What a block holds is the list of the steps applied to it
(add a round key, SubBytes with ShiftRows, MixColumns), because instructions
group them differently: `aese` adds first, `aesenc` last. `Load`,
`EncryptRound` and `StoreBlocks` encrypt any number of interleaved blocks, as
`encrypt_block`, `encrypt8`, `fill_block` and the stitched loops do.

### Key state (`KeyStorage`)

A thread makes a slot of a slice it is lent (`NewSlot`), or has aligned room of
its own in a box or a value (`NewOwned`). `ExpandKey` and `DerivePowers` write
the two parts of a GCM state (a SIV state has the first only), `RefuseKey` is a
refusal before anything is written and `PowersFail` the second half failing.
`Drop` is the wipe of a lent or inline state, by `volatile_wipe`: stores of
`Wide` bytes where the address allows them, single bytes for the rest. `DropBox`
runs the drops of the fields instead. `Move` copies an inline handle and runs
nothing where it was; `Leak` forgets a handle. A forgotten box is nobody's for
ever, which is a thread that takes no further step. `left` holds the bytes
that no drop ever had: of what was leaked or moved away. That memory held at one
time does not overlap is Rust's rule and the allocator's promise, and a guard
(`Free`); what is written through raw pointers is not guarded.

## The runs

| Run | Shows | Bounds |
|---|---|---|
| `nonce_forks` | no repeat, disjoint reservations, parents undisturbed; the inductive invariant | 3 processes (parent, child, grandchild or sibling), 1 handle, handler installed or refused, 2 salts, counter of 2 values |
| `nonce_calls_return` | calls return under fairness | 2 processes, 2 handles that race for the lock, 1 salt |
| `nonce_wrap_repeat` | a repeat after a failed re-salt (a finding) | 1 process |
| `nonce_fork_in_call` | a repeat after a fork inside the call (a finding) | 2 processes |
| `keygen_forks` | no byte twice, one owner per key, owners undisturbed, stale copies lost for good, seeds secret; the inductive invariant | 3 processes, forks between calls and in a call up to its check, blocks of 2, interval 3, 1 OS seed, at most 2 blends, a stuck CPU |
| `keygen_stream` | quota, contiguity, wiped buffer; calls return | 1 process, blocks of 4, intervals 0 and 10, fills of 0 to 13 |
| `gcm_calls` | the refinement, fresh counters, GHASH in step; the inductive invariant | blocks of 2 bytes, counter of 25 values, messages of 0 to 49 bytes |
| `siv_calls` | the refinement, fresh counters from any first word, both passes in place; the inductive invariant | blocks of 2 bytes, counter of 13 values, messages of 0 to 27 bytes |
| `key_storage` | no residue, states and neighbours intact | 2 threads, 2 keys, 11 bytes at an odd address, states of 6 and 4 bytes, wide stores of 4 |
| `cpu_draw` | a whole draw or nothing; draws end | 4 words of 5 values, 3 tries |
| `field_hash` | both back ends hash as the standards do | 128 bits: 1,024 pairs of one-bit key and block, and 13 dense blocks cut in every way |
| `aes_blocks` | both back ends expand keys and encrypt as FIPS-197 does | 13 keys, 1, 4 and 8 blocks, one S-box |

Why these are enough. A wrap needs a counter cycle of two. Three processes give
the cases of two siblings and a grandchild. With one OS seed no child is seeded
again in `keygen_forks` (with two, TLC does not end in reasonable time); that a
new seed is fresh wherever it is drawn is part of `keygen_stream`, of one
process, and of the proof. An interval
that is no multiple of the block cuts fills in the middle of a block; lengths 1,
3, 5 and 13 against blocks of 4 and an interval of 10 reach every cursor position
and a fill with two reseeds. For GCM 46 bytes (23 blocks of 2) is the longest
message that the limit admits with a counter of 25: two stitched batches, a
quad, three single blocks, and the last counter before the wrap would reach the
tag's; 49 is past it; 29 ends in a partial block. Associated data of 27 bytes
ends in a partial block after an octet, a quad and one, and 28 is past the
limit. The counter starts at 1 for every nonce, as `j0` sets it. For GCM-SIV 26
bytes use every counter word once, a batch and five blocks, so the word wraps
wherever it starts; 25 ends in a partial block and 27 is past the limit. Eleven
bytes hold a GCM and a SIV state side by side, at shifted places as they come
and go; six bytes end in two that a wide store of four does not reach. Four words
have neighbours and others, and with five values a draw may be all distinct.

For the field, a product is linear in each operand, and the code treats alike
two pairs of bits that lie in the same lanes and have the same sum of
positions. One-bit keys at every position with one-bit blocks at the edges of
the lanes reach every such class, on both hashes; the dense messages then meet
eight, four and one blocks in every order, where each power must meet its block.
For the cipher the S-box of the run is not linear, one-bit keys in the first and
last word of each half follow one bit through the schedule, and one key is
dense; the proof covers the rest.

`SYMMETRY` permutes process slots, or threads and keys, in safety runs only: no
constant, initial state or property names one. Deadlock is checked in
`gcm_calls`, `siv_calls`, `key_storage`, `cpu_draw` and `aes_blocks`, where a
step that could not be taken would be one; in `field_hash` the message ends, and
in the other runs every process may exit, so the system may stop.

Bounds that are not in the code: `MaxBlends` (blends since an OS seed),
the sets of salts and seeds (a process that has drawn them all sees the OS
fail), the number of process slots, and one call per behaviour in `GcmCall` and
`SivCall`.

## Fairness

`ThreadStep` is weakly fair for each thread in a call: the scheduler runs
threads that can run. A thread that waits for the `OnceLock` is not enabled,
and no step of its own can be expected. Nothing obliges a caller to call, a
process to fork or to exit, or entropy to succeed: the draw step is fair but
may always fail. `nonce_calls_return` and `keygen_stream` check that calls
return, `cpu_draw` that draws end. The first two leave out a process forked
while another thread was inside the initialiser, whose lock stays taken: there
the code does block. `CpuEntropy` is weakly fair to the thread that draws, not
to the instruction being ready.

## What is proved

Every theorem is for all values of the constants that satisfy the assumptions of
its module; TLC evaluates those assumptions in each run.

**Nonces** (`ForkGuardAssumption`, `NonceAssumption`). `NonceInjective`: one
base gives different nonces for different counters. `TypeCorrect`. Under
`SafeSetting` (the thread inside `next_nonce` does not itself fork, and ids are
not reused where the handler may be refused): `InductiveHolds`, `NoRepeatHolds`,
`ReservationsDisjointHolds`. A handle *holds* its generator when its guard is
current or about to be captured, and reserves the rest of its base's range, plus
a nonce that it has taken and not yet returned. `ReservationsDisjoint` says
reservations are disjoint from one another and from what was issued; returning a
nonce moves it from one side to the other, so nothing repeats. That is not
inductive alone: `fork` copies a generator, and the copy must reserve nothing.
For that `GuardsOfPast` says every guard is a snapshot of the past (a generation
no greater than the process's own, or the id of a process that has lived), so it
cannot be current in a new process, whose generation is greater or whose id is
new; `TakesAreCurrent` says that a nonce is taken only under a current guard;
`CallShape` says when there is a generator at all; and `AllCovered` that all
nonces come from drawn salts, so a fresh salt's range is untouched. The
`exhausted` flag excludes the behaviours after a failed re-salt at a wrap, where
`NoRepeat` is false (see the findings). Each step is shown to shrink the
reservations of every handle but one, and the one is dealt with action by
action. `ParentUndisturbedHolds` needs no `SafeSetting`: typing and `CallShape`
give that what a current guard is compared with changes in no step but its
process's end, since the `OnceLock` was set before the guard was taken.

**Keystream** (`KeyGeneratorAssumption`). In every setting, forks inside a call
and reused ids included: `GeneratorTypes`, and `OwnerUndisturbedHolds`, by the
same argument as for nonces. Under `SafeSetting` (the thread inside a call does
not itself fork past the check of its guard, nor between a new seed and the
capture; and ids are not reused where the handler may be refused):
`InductiveHolds`, `NoByteTwiceHolds`, `OneOwnerHolds`, `StaleForEverHolds`,
`SeedBytesSecretHolds`, `BufferUnspentHolds`, `KeyQuotaHolds`,
`ContiguousHolds`. Guards are again of the past, so a copy made by fork is
stale in the child, and each OS seed serves one usable generator. A stale copy
stays stale: only a fill or a reseed changes it, both begin under a current guard
(`FillsAreCurrent`), and no step brings back what its guard was compared with. All that has
been output under that seed lies before the cursor of the generator that serves
it, in the stream of its key, or under fewer blends; the position of the cursor
follows from the counter by arithmetic modulo `CtrMod`. A blend makes the key
longer, so a CPU generator that always answers the same still gives a new
stream. The buffer holds wiped bytes before the cursor and unspent ones after
it. Quota and contiguity are one statement about places in a stream
(`OutputIsPrefix`): what was output under a key is the stream's first `n` bytes,
`n` being the count of the generator that may use the key, the quota once the
key is replaced, and anything up to the quota for a key that went with its
process. A chunk fills the places from one count to the next, whether its bytes
come from the buffer, whole blocks or the front of one more; that a reseed begins
only when the quota is spent (`SpentBeforeReseed`) makes a replaced key's prefix
the whole quota, and a fill that fails in the middle leaves the prefix a prefix.

**The hash of a message** (`AlgebraAssumption`). `AggregationIsStandard`: for
every message and associated data, what the `Ghasher` and `Polyval` compute by
eight, four and one blocks under one reduction each is the standards' Horner rule,
block by block. Multiplication by a power of the key distributes over XOR; a sum
of blocks, each raised by the power its place asks for, is Horner's rule over
them; and rule over rule is the rule over the concatenation, so the cut does not
matter. A hash written out (`Poly`) satisfies the equation of the recursive
function, so what `CHOOSE` picks for it satisfies the equation too, and that the
two agree at every length is proved by a least counterexample in a set of
numbers (`Least`, `Induct`), which needs no induction over an operator.

**GCM and GCM-SIV calls** (`AlgebraAssumption`, `RequestsAssumption`: requests
are slices of bytes of any length, and a caller's room is a number). Of both:
`InductiveHolds`, `KeystreamFreshHolds`, `TypesHold`, and `PromiseKept`, that
every step of a call is a step of `Aead` or changes nothing the caller sees.

- *Keystream.* In a GCM call the words used are exactly the ones after the first,
  the counter holds the next (`PassShape`), and the limit on the length keeps them
  below the wrap that would reach the first word, which masks the tag; that only
  the end of the message cuts a block rests on whole batches in the stitched
  loop. In a GCM-SIV call the words are consecutive modulo `CtrMod` from
  whichever the tag gives (`CtrShape`), and no more of them than there are
  words, so they differ.
- *Text and hash.* `HashKeepsUpHolds` (GCM): at every step the buffer is the
  scheme's text so far over what was there when the call began, and the hash is
  that of the ciphertext so far but for one batch owed, which is kept whatever
  the open has since stored over it. `PassInPlaceHolds` (GCM-SIV): the same of a
  pass over a copy, with the counter block as many blocks on from the tag's.
  Both are inductive only beside the shape of the pass.
- *Answers.* At the end of the pass the hash is closed, so by
  `AggregationIsStandard` the tag is the scheme's; a refusal is the first check to
  fail, before anything is written; a mismatch leaves zeros, or the caller's
  bytes beyond the message. Hence `PromiseKept`.

The theorems of GCM-SIV have a hypothesis, `TagsHaveWords`: the word that
`TagWord` gives is one of the counter's, four bytes of the tag.

**The field** (`CasesAssumption`: a case is a scheme, a key and a message of
128-bit blocks, of any length). `HashIsStandardHolds`, `TypesHold`: after every
update, however the message is cut, both back ends hold GHASH or POLYVAL as its
standard defines it. TLC multiplies 1,024 pairs of bits and two dense keys; this
is for every key and message. The argument goes through four theorems.

- `MulIsDot`. A product bit is the parity of a set of pairs of bits, so products
  are linear (`OddOfXor`), commute and shift, by bijections between such sets.
  `Divided` is the residue the standard keeps. It is linear, and a lane below
  x^128 may be cleared by itself (`DividedLane`): times x^57 + x^62 + x^63 it goes
  into the block above, once from the lower lane and once from the upper
  (`DividedSpread`). What `mont_reduce` gets from two more products (`Karatsuba2`)
  and `Fold` from shifts by 1, 2, 7 and 63, 62, 57 (`Reduce`) is that, lane by
  lane, and the three partial products make up the whole one (`Karatsuba`).
- `DotAssociates`. By hand one would appeal to the ring of residues; here the
  blocks that associate are closed under sums (`AssociatesXor`) and under
  division by x (`AssociatesOverX`), and the block of the top bit is one of them
  (`AssociatesTop`), since `Dot` by it is division by x (`DotTop`). From the
  top bit down that is every power of x, and so every block.
- `UpdateIsStandard`. The eight powers are the iterated products by the first
  whichever way they were made (`KeyPowers`), and at the i-th block the sum of
  partial products, reduced, lacks only powers still to come (`UpdateIsHorner`).
- `GcmProductIs`. The mirror image of POLYVAL's product is GHASH's: `Leftmost`
  is `reversed` in a mirror, a round of one reduction a round of the other
  (`DownMirrored`), and the one place by which mirrored products differ is the
  x that `mulx` multiplies the key by.

**AES** (`AesAssumption`). `ScheduleCorrect`, `CipherCorrect`, `AesTypes`, for
any S-box, key and number of interleaved blocks. The words of a round key are
prefix sums of its parent's, which gives the recurrence of FIPS-197 word by word;
each lane is a prefix of the standard's list of steps, of a length that depends
on the build and the next round key.

**Key state** (`SizesAssumption`). `StorageTypes`, `NoResidueHolds`,
`StateIntactHolds`, `OnlyBorrowedHolds`, for any sizes and addresses. The
invariant joins them: what threads hold does not overlap (`Disjoint`), lies in
the memory and is as long as what will be written there (`Shape`), so a store
changes no other thread's state, and a wipe covers the state whole.

**Draws from the CPU** (`DrawAssumption`). `DrawTypes`, and `DrawKeepsPromise`:
each step of a draw is one of `SeedDraw` or invisible.

Only model-checked: liveness (`CallsReturn` of both generators, `DrawEnds`),
which with `ENABLED` is out of the prover's reach. Every safety property of the
passing runs is a theorem.

## Findings

1. After a counter wrap whose re-salt fails, the generator keeps the exhausted
   base with its counter at 0 and repeats it (`nonce.rs:62`), where `nonce.rs`
   says that a repeat is never produced. It takes 2^64 nonces.
2. A fork by the thread inside `next()` itself, from a signal handler, after the
   check of the guard gives parent and child the same nonce (`nonce.rs:57`),
   where `docs/design.md` says a child never repeats its parent's.

## Not modelled

- What the AES instructions compute inside a round (the values of the S-box,
  ShiftRows, MixColumns): the S-box is any function and the round steps are
  symbols. The carry-less multiply is defined, not its circuit.
- Constant-time behaviour, a property of compiled instructions. The repository
  has timing tests and builds for a verifier of it.
- Hardware detection. `UnsupportedCpu` refuses before any state exists; the loss
  of hardware within a call, which the code calls unreachable, is modelled in
  `KeyStorage` only, where something must be wiped.
- A failed heap allocation, which aborts the process.
- Copies of key material on the stack, which `docs/design.md` accepts.
- A tag of GCM-SIV hides one bit of the hash it encrypts; two hashes that differ
  in that bit alone are told apart here.
- `usize` overflow of a length, which cannot occur below the message limit on a
  64-bit target. `generation` and the guard's `seen` are unbounded here and 64
  bits wide in the code: one bump per fork.
- A fork by the thread inside `fill_bytes` after the check of the guard
  (`random/mod.rs:341`), or between a new seed and the capture of its guard
  (lines 240 and 296), is modelled but left out of the runs and, by `SafeSetting`,
  of the theorems. Parent and child then output the same keystream, and after the
  second kind the child's copy passes later checks too: the gap of finding 2. With
  `"fill"` added to `ForkInCall` in `keygen_forks.cfg`, TLC shows it as a
  violation of `NoByteTwice`.
- Process ids that come back to a grandchild where the handler was refused
  (`PidReuse`): the code documents that only the handler tells such processes
  apart, and the theorems assume that it does not happen.

## Plan

Done, each modelled, checked and proved as above: `ForkGuard` and `NonceGen`;
`KeyGenerator`; `Gcm`, `Siv`, `Aead` and the two calls (no block of keystream
twice, and what each call promises); `FieldHash` for every key and message;
`Aes`; `KeyStorage` with handles that move; `SeedDraw` and `CpuEntropy`.

Left, in this order:

1. The outcome of a draw, as `SeedDraw` promises it, composed with the reseed of
   `KeyGenerator`, which now takes it as one step.
2. A handle as a whole: the nonce generator made at its first call, the nonce and
   the call that uses it, with the failures of each in the order of the code.
