------------------------------- MODULE GcmCall -------------------------------
(***************************************************************************)
(* One AES-256-GCM call as src/aes_gcm/mod.rs and ghash.rs carry it out:   *)
(* the checks, then one pass over the message in which counter-mode        *)
(* encryption and GHASH are stitched together, eight blocks at a time,     *)
(* GHASH one batch behind, often in the message's own buffer; then the     *)
(* tail, the tag, and for an open the comparison of tags after the         *)
(* plaintext has been written.                                             *)
(*                                                                         *)
(* A call works on state of its own (the key state is only read), so one   *)
(* call is modelled, and the behaviour ends when it has returned.          *)
(***************************************************************************)
EXTENDS Gcm

CONSTANTS
  TagSize,     (* 16 in the code.                                            *)
  NonceSize,   (* 12 in the code.                                            *)
  MaxAadLen,   (* MAX_GHASH_INPUT_LEN, 2^61 - 1 in the code.                 *)
  NoTag,
  Requests     (* The calls callers make.                                    *)

INSTANCE AeadCalls WITH MaxDataLen <- MAX_GCM_DATA_LEN

ASSUME RequestsAssumption ==
  /\ TagSize \in Nat /\ NonceSize \in Nat
  /\ \A r \in Requests : WellFormed(r)

VARIABLES
  request,   (* The call's arguments.                                        *)
  answer,    (* The Result it returns; "pending" while it runs.              *)
  buffer,    (* The buffer the call writes to.                               *)
  pc,
  counter,   (* The counter word of the counter block.                       *)
  hash,      (* The accumulator of the Ghasher.                              *)
  prev,      (* Blocks still to be hashed by the stitched loop (have_prev).  *)
  pos,       (* Bytes of the message processed.                              *)
  used,      (* History: the counter words whose keystream the call used.    *)
  reused     (* History: has it used one twice?                              *)

pass == <<counter, hash, prev, pos, used, reused>>
vars == <<request, answer, buffer, pc, pass>>

Promise ==
  INSTANCE Aead WITH
    visible <- IF answer.status = "pending" THEN Initial(request) ELSE buffer,
    MaxDataLen <- MAX_GCM_DATA_LEN, Seal <- GcmSeal, Open <- GcmOpen

Result(status, tag) == [status |-> status, tag |-> tag]

Counters == 0 .. CtrMod - 1

TypeOK ==
  /\ request.op \in SealOp \cup OpenOp \cup {"none"}
  /\ answer.status \in Errors \cup {"pending", "Ok"}
  /\ pc \in {"idle", "check", "bulk", "tail", "finish"}
  /\ counter \in Counters
  /\ \A t \in hash : t[1] \in Nat /\ t[2] \in 0 .. BlockSize - 1
  /\ Len(prev) \in {0, KEY_POWERS}
  /\ pos \in Nat
  /\ used \subseteq Counters
  /\ reused \in BOOLEAN

Init ==
  /\ request = [op |-> "none"]
  /\ answer = Result("Ok", NoTag)
  /\ buffer = <<>>
  /\ pc = "idle"
  /\ counter = FirstCounter
  /\ hash = {} /\ prev = <<>> /\ pos = 0
  /\ used = {} /\ reused = FALSE

-----------------------------------------------------------------------------
(* The beginning of a call. *)

(* One call per behaviour: a call shares no state with the one before.      *)
Call(r) ==
  /\ pc = "idle" /\ request.op = "none"
  /\ request' = r
  /\ answer' = Result("pending", NoTag)
  /\ buffer' = Initial(r)
  /\ pc' = "check"
  /\ counter' = FirstCounter
  /\ hash' = {} /\ prev' = <<>> /\ pos' = 0
  /\ used' = {} /\ reused' = FALSE

Refuse ==
  /\ pc = "check"
  /\ \E e \in Errors : RefusedFor(request, e) /\ answer' = Result(e, NoTag)
  /\ pc' = "idle"
  /\ UNCHANGED <<request, buffer, pass>>

(* The associated data is hashed, and the counter moved past j0.            *)
Begin ==
  /\ pc = "check" /\ Passes(request)
  /\ hash' = absorb_padded({}, request.aad)
  /\ counter' = increment_counter(FirstCounter)
  /\ pc' = "bulk"
  /\ UNCHANGED <<request, answer, buffer, prev, pos, used, reused>>

-----------------------------------------------------------------------------
(* The pass. *)

DataLen == Len(request.data)
BatchLen == KEY_POWERS * BlockSize
BulkLen == (DataLen \div BatchLen) * BatchLen

(* The next n bytes of the message, where the pass reads them.              *)
Source == IF InPlace(request) THEN buffer ELSE request.data
NextBytes(b, n) == SubSeq(b, pos + 1, pos + n)

(* The counter word i blocks on.                                            *)
CounterAfter(i) == (counter + i) % CtrMod

(* The next n bytes of the buffer become the source's XOR the keystream.    *)
Masked(n) ==
  [i \in DOMAIN buffer |->
     IF i \in pos + 1 .. pos + n
       THEN Xor(Source[i], KeystreamByte(request.nonce,
                                         CounterAfter((i - pos - 1) \div BlockSize),
                                         (i - pos - 1) % BlockSize))
       ELSE buffer[i]]

(* A counter word wider than 32 bits.                                       *)
MutCounterNotWrapped(n) ==
  /\ buffer' = Masked(n)
  /\ pos' = pos + n
  /\ counter' = counter + BlocksIn(n)
  /\ LET drawn == {CounterAfter(i) : i \in 0 .. BlocksIn(n) - 1}
     IN used' = used \cup drawn /\ reused' = (reused \/ used \cap drawn # {})

(* Counter-mode over the next n bytes.                                      *)
Process(n) ==
  /\ buffer' = Masked(n)
  /\ pos' = pos + n
  /\ counter' = CounterAfter(BlocksIn(n))
  /\ LET drawn == {CounterAfter(i) : i \in 0 .. BlocksIn(n) - 1}
     IN used' = used \cup drawn /\ reused' = (reused \/ used \cap drawn # {})

(* The batch before is hashed while this one is encrypted.                  *)
PrevFolded == IF prev = <<>> THEN hash ELSE update_blocks(hash, prev)

(* seal_bulk, seal_in_place_bulk: this batch's ciphertext is kept for GHASH.*)
SealBatch ==
  /\ pc = "bulk" /\ pos < BulkLen /\ ~Opens(request)
  /\ hash' = PrevFolded
  /\ Process(BatchLen)
  /\ prev' = Blocks(NextBytes(buffer', BatchLen))
  /\ UNCHANGED <<request, answer, pc>>

(* The block kept for GHASH is read after the plaintext was stored.         *)
MutHashAfterStore ==
  /\ pc = "bulk" /\ pos < BulkLen /\ Opens(request)
  /\ hash' = PrevFolded
  /\ Process(BatchLen)
  /\ prev' = Blocks(NextBytes(IF InPlace(request) THEN buffer' ELSE request.data, BatchLen))
  /\ UNCHANGED <<request, answer, pc>>

(* open_bulk, open_in_place_bulk: the ciphertext is kept before it is       *)
(* overwritten.                                                             *)
OpenBatch ==
  /\ pc = "bulk" /\ pos < BulkLen /\ Opens(request)
  /\ hash' = PrevFolded
  /\ prev' = Blocks(NextBytes(Source, BatchLen))
  /\ Process(BatchLen)
  /\ UNCHANGED <<request, answer, pc>>

(* The epilogue of the stitched loop.                                       *)
FoldLastBatch ==
  /\ pc = "bulk" /\ pos = BulkLen
  /\ hash' = PrevFolded
  /\ prev' = <<>>
  /\ pc' = "tail"
  /\ UNCHANGED <<request, answer, buffer, counter, pos, used, reused>>

InTail(n) == pc = "tail" /\ n > 0 /\ UNCHANGED <<request, answer, pc, prev>>

(* seal: the tail is copied, encrypted, and hashed as one section.          *)
SealTail ==
  LET n == DataLen - pos IN
  /\ InTail(n) /\ ~Opens(request) /\ ~InPlace(request)
  /\ Process(n)
  /\ hash' = absorb_padded(hash, NextBytes(buffer', n))

(* seal_in_place_tail_blocks: four blocks at a time, then one.              *)
SealTailBlocks ==
  LET left == (DataLen - pos) \div BlockSize
      width == IF left >= 4 THEN 4 ELSE 1
  IN /\ InTail(left) /\ ~Opens(request) /\ InPlace(request)
     /\ Process(width * BlockSize)
     /\ hash' = update_blocks(hash, Blocks(NextBytes(buffer', width * BlockSize)))

(* seal_in_place: the partial block.                                        *)
SealPartial ==
  LET n == DataLen - pos IN
  /\ InTail(n) /\ n < BlockSize /\ ~Opens(request) /\ InPlace(request)
  /\ Process(n)
  /\ hash' = absorb_padded(hash, NextBytes(buffer', n))

(* open, open_in_place: the tail is hashed, then decrypted.                 *)
OpenTail ==
  LET n == DataLen - pos IN
  /\ InTail(n) /\ Opens(request)
  /\ hash' = absorb_padded(hash, NextBytes(Source, n))
  /\ Process(n)

-----------------------------------------------------------------------------
(* The end of the call. *)

Computed == Tag(finalize(hash, Len(request.aad), DataLen), request.nonce, FirstCounter)

Return(status, tag) ==
  /\ answer' = Result(status, tag)
  /\ pc' = "idle"
  /\ UNCHANGED <<request, pass>>

AtEnd == pc = "tail" /\ pos = DataLen

(* The tag, and the nonce of an envelope, follow the ciphertext.            *)
SealDone ==
  /\ AtEnd /\ ~Opens(request)
  /\ buffer' = Overwrite(buffer, SubSeq(buffer, 1, DataLen) \o Trailer(request, Computed))
  /\ Return("Ok", Computed)

Accept ==
  /\ AtEnd /\ Opens(request) /\ Computed = request.tag
  /\ Return("Ok", NoTag)
  /\ UNCHANGED buffer

(* The tail of the plaintext is left behind.                                *)
MutBulkWipedOnly ==
  /\ AtEnd /\ Opens(request) /\ Computed # request.tag
  /\ buffer' = Overwrite(buffer, ZeroBytes(BulkLen))
  /\ Return("Decrypt", NoTag)

(* The plaintext already written is wiped, and nothing else.                *)
Reject ==
  /\ AtEnd /\ Opens(request) /\ Computed # request.tag
  /\ buffer' = Overwrite(buffer, ZeroBytes(DataLen))
  /\ Return("Decrypt", NoTag)

Step ==
  \/ Refuse \/ Begin
  \/ SealBatch \/ OpenBatch \/ FoldLastBatch
  \/ SealTail \/ SealTailBlocks \/ SealPartial \/ OpenTail
  \/ SealDone \/ Accept \/ Reject

(* The call has returned. In any other state, a call that could not go on   *)
(* would be a deadlock.                                                     *)
Returned == pc = "idle" /\ request.op # "none" /\ UNCHANGED vars

Next == (\E r \in Requests : Call(r)) \/ Step \/ Returned

Spec == Init /\ [][Next]_vars

-----------------------------------------------------------------------------
(* The call keeps what Aead promises: stitching, aggregation, in-place      *)
(* buffers and the order of the checks are invisible; what it returns is    *)
(* SP 800-38D's ciphertext and tag, or its plaintext, byte for byte, in the *)
(* layout of the operation, and a refusal leaves what Aead says.            *)
KeepsPromise == Promise!Spec

(* No counter block is used for two blocks of a message, nor one that masks *)
(* the tag, up to the longest message accepted and with a counter word that *)
(* wraps.                                                                   *)
KeystreamFresh == ~reused /\ FirstCounter \notin used

(* Why: the counter words used are the ones after the first, in order, and  *)
(* the counter holds the next; only the end of the message cuts a block.    *)
PassShape ==
  /\ DataLen <= MAX_GCM_DATA_LEN
  /\ pos \in 0 .. DataLen
  /\ pos = DataLen \/ pos % BlockSize = 0
  /\ counter = (FirstCounter + 1 + BlocksIn(pos)) % CtrMod
  /\ used = FirstCounter + 1 .. FirstCounter + BlocksIn(pos)
  /\ ~reused

(* The inductive invariant behind KeystreamFresh: nothing done before the   *)
(* checks are passed, the shape of the pass while it runs, whole batches    *)
(* while it is in the stitched loop, and none owed to GHASH after it.       *)
Inductive ==
  /\ KeystreamFresh
  /\ pc \in {"idle", "check", "bulk", "tail"}
  /\ pc # "idle" <=> answer.status = "pending"
  /\ pc # "idle" => WellFormed(request)
  /\ pc = "check" => pos = 0 /\ used = {} /\ prev = <<>> /\ buffer = Initial(request)
  /\ pc \in {"bulk", "tail"} => Passes(request) /\ PassShape
  /\ pc = "bulk" => pos <= BulkLen /\ pos % BatchLen = 0
  /\ pc = "tail" => prev = <<>>

(* GHASH keeps up with the cipher: at every turn of the stitched loop the   *)
(* accumulator, with the batch it still owes, is the hash of the associated *)
(* data and of the ciphertext (never the plaintext) processed so far, and   *)
(* the buffer holds what the scheme makes of the bytes processed, over what *)
(* was there when the call began.                                           *)
HashKeepsUp ==
  pc \in {"bulk", "tail"} =>
    LET text == Gctr(request.nonce, request.data)
        ciphertext == IF Opens(request) THEN request.data ELSE text
    IN /\ PrevFolded = HashOf(Blocks(request.aad) \o Blocks(SubSeq(ciphertext, 1, pos)))
       /\ buffer = Overwrite(Initial(request), SubSeq(text, 1, pos))
=============================================================================
