------------------------------- MODULE SivCall -------------------------------
(***************************************************************************)
(* One AES-256-GCM-SIV call as src/aes_gcm/siv.rs carries it out: the      *)
(* checks, a copy of the message into the buffer, and two passes over it   *)
(* in place: POLYVAL over the plaintext, and counter mode from the counter *)
(* word of the tag.  A seal hashes first; an open can only hash what it    *)
(* has decrypted, and compares tags when the plaintext is in the buffer.   *)
(*                                                                         *)
(* A call works on state of its own, so one call is modelled, and the      *)
(* behaviour ends when it has returned.                                    *)
(***************************************************************************)
EXTENDS Siv

CONSTANTS
  TagSize,     (* 16 in the code.                                            *)
  NonceSize,   (* 12 in the code.                                            *)
  NoTag,
  Requests     (* The calls callers make.                                    *)

INSTANCE AeadCalls WITH MaxDataLen <- MAX_SIV_LEN, MaxAadLen <- MAX_SIV_LEN

(* The operations of siv.rs: there is no detached one.                      *)
SivOps == (SealOp \cup OpenOp) \ Detached

(* Four bytes of a tag are its word.                                        *)
HasWord(r) == Opens(r) /\ r.complete => r.tag.word \in 0 .. CtrMod - 1

ASSUME RequestsAssumption ==
  /\ TagSize \in Nat /\ NonceSize \in Nat
  /\ \A r \in Requests : r.op \in SivOps /\ WellFormed(r) /\ HasWord(r)

VARIABLES
  request,   (* The call's arguments.                                        *)
  answer,    (* The Result it returns; "pending" while it runs.              *)
  buffer,    (* The buffer the call writes to.                               *)
  pc,
  block,     (* The counter block: its word, and the stream it belongs to.   *)
  tag,       (* The tag of a seal, once it is computed.                      *)
  pos,       (* Bytes of the message processed by counter mode.              *)
  used       (* History: the counter words used, in order.                   *)

pass == <<block, tag, pos, used>>
vars == <<request, answer, buffer, pc, pass>>

Promise ==
  INSTANCE Aead WITH
    visible <- IF answer.status = "pending" THEN Initial(request) ELSE buffer,
    MaxDataLen <- MAX_SIV_LEN, MaxAadLen <- MAX_SIV_LEN, Seal <- SivSeal, Open <- SivOpen

Result(status, t) == [status |-> status, tag |-> t]

NoBlock == [word |-> 0, stream |-> <<>>]

TypeOK ==
  /\ request.op \in SivOps \cup {"none"}
  /\ answer.status \in Errors \cup {"pending", "Ok"}
  /\ pc \in {"idle", "check", "keyed", "ctr"}
  /\ block.word \in 0 .. CtrMod - 1
  /\ tag = NoTag \/ tag.word \in 0 .. CtrMod - 1
  /\ pos \in 0 .. MAX_SIV_LEN
  /\ used \in Seq(0 .. CtrMod - 1)

Init ==
  /\ request = [op |-> "none"]
  /\ answer = Result("Ok", NoTag)
  /\ buffer = <<>>
  /\ pc = "idle"
  /\ block = NoBlock /\ tag = NoTag /\ pos = 0 /\ used = <<>>

-----------------------------------------------------------------------------
(* The beginning of a call. *)

Call(r) ==
  /\ pc = "idle" /\ request.op = "none"
  /\ request' = r
  /\ answer' = Result("pending", NoTag)
  /\ buffer' = Initial(r)
  /\ pc' = "check"
  /\ UNCHANGED pass

Refuse ==
  /\ pc = "check"
  /\ \E e \in Errors : RefusedFor(request, e) /\ answer' = Result(e, NoTag)
  /\ pc' = "idle"
  /\ UNCHANGED <<request, buffer, pass>>

(* The message is copied into the buffer, and the message keys derived.     *)
Begin ==
  /\ pc = "check" /\ Passes(request)
  /\ buffer' = Overwrite(buffer, request.data)
  /\ pc' = "keyed"
  /\ UNCHANGED <<request, answer, pass>>

-----------------------------------------------------------------------------
(* The two passes. *)

DataLen == Len(request.data)
Message == SubSeq(buffer, 1, DataLen)

polyval_digest(message) ==
  finalize(absorb_padded(absorb_padded({}, request.aad), message),
           Len(request.aad), Len(message))

(* The tag of what the buffer holds now.                                    *)
Computed == siv_tag(request.nonce, polyval_digest(Message))

(* The counter block of a tag.                                              *)
StartCtr(t) ==
  /\ block' = [word |-> t.word, stream |-> Stream(request.nonce, t)]
  /\ pc' = "ctr"

(* siv_seal: the plaintext is hashed before counter mode overwrites it.     *)
HashPlaintext ==
  /\ pc = "keyed" /\ ~Opens(request)
  /\ tag' = Computed
  /\ StartCtr(Computed)
  /\ UNCHANGED <<request, answer, buffer, pos, used>>

(* siv_open: decryption starts from the tag it was given, genuine or not.   *)
TrustTag ==
  /\ pc = "keyed" /\ Opens(request)
  /\ StartCtr(request.tag)
  /\ UNCHANGED <<request, answer, buffer, tag, pos, used>>

PAR_BLOCKS == 8

(* A counter wider than 32 bits, which carries into the rest of the block.  *)
MutWideWord(i) == block.word + i

(* The counter word i blocks on.                                            *)
WordAfter(i) == (block.word + i) % CtrMod

(* Counter mode over the next n bytes, in place.                            *)
Masked(n) ==
  [i \in DOMAIN buffer |->
     IF i \in pos + 1 .. pos + n
       THEN Xor(buffer[i], KeystreamByte(block.stream,
                                         WordAfter((i - pos - 1) \div BlockSize),
                                         (i - pos - 1) % BlockSize))
       ELSE buffer[i]]

CtrApply(n) ==
  /\ buffer' = Masked(n)
  /\ block' = [block EXCEPT !.word = WordAfter(BlocksIn(n))]
  /\ used' = used \o [i \in 1 .. BlocksIn(n) |-> WordAfter(i - 1)]
  /\ pos' = pos + n
  /\ UNCHANGED <<request, answer, pc, tag>>

Left == DataLen - pos

(* ctr_apply: eight interleaved blocks.                                     *)
CtrBatch ==
  /\ pc = "ctr" /\ Left >= PAR_BLOCKS * BlockSize
  /\ CtrApply(PAR_BLOCKS * BlockSize)

(* A partial last block is not encrypted.                                   *)
MutWholeBlocksOnly ==
  /\ pc = "ctr" /\ Left > 0 /\ Left < PAR_BLOCKS * BlockSize
  /\ IF Left >= BlockSize THEN CtrApply(BlockSize)
     ELSE pos' = DataLen /\ UNCHANGED <<request, answer, buffer, pc, block, tag, used>>

(* ctr_apply: what is left, a block at a time, the last perhaps partial.    *)
CtrBlock ==
  /\ pc = "ctr" /\ Left > 0 /\ Left < PAR_BLOCKS * BlockSize
  /\ CtrApply(IF Left < BlockSize THEN Left ELSE BlockSize)

-----------------------------------------------------------------------------
(* The end of the call. *)

Return(status, t) ==
  /\ answer' = Result(status, t)
  /\ pc' = "idle"
  /\ UNCHANGED <<request, pass>>

AtEnd == pc = "ctr" /\ Left = 0

(* The tag, and the nonce of an envelope, follow the ciphertext.            *)
SealDone ==
  /\ AtEnd /\ ~Opens(request)
  /\ buffer' = Overwrite(buffer, Message \o Trailer(request, tag))
  /\ Return("Ok", tag)

(* The bit set for the counter block is set in the tags compared.           *)
MutTopBitIgnored ==
  [Computed EXCEPT !.top = TRUE] = [request.tag EXCEPT !.top = TRUE]

(* siv_open recomputes the tag from the plaintext in the buffer.            *)
TagsEqual == Computed = request.tag

Accept ==
  /\ AtEnd /\ Opens(request) /\ TagsEqual
  /\ Return("Ok", NoTag)
  /\ UNCHANGED buffer

(* The plaintext is wiped, and nothing else.                                *)
Reject ==
  /\ AtEnd /\ Opens(request) /\ ~TagsEqual
  /\ buffer' = Overwrite(buffer, ZeroBytes(DataLen))
  /\ Return("Decrypt", NoTag)

Step ==
  \/ Refuse \/ Begin
  \/ HashPlaintext \/ TrustTag
  \/ CtrBatch \/ CtrBlock
  \/ SealDone \/ Accept \/ Reject

(* The call has returned. In any other state, a call that could not go on   *)
(* would be a deadlock.                                                     *)
Returned == pc = "idle" /\ request.op # "none" /\ UNCHANGED vars

Next == (\E r \in Requests : Call(r)) \/ Step \/ Returned

Spec == Init /\ [][Next]_vars

-----------------------------------------------------------------------------
(* The call keeps what Aead promises: what it returns is RFC 8452's         *)
(* ciphertext and tag, or its plaintext, byte for byte, in the layout of    *)
(* the operation; a tag that differs in any part, the bit the counter block *)
(* hides included, is rejected; and a refusal leaves what Aead says.        *)
KeepsPromise == Promise!Spec

(* No block of keystream is used for two blocks of a message, from any      *)
(* first counter word, across the wrap and up to the longest message.       *)
KeystreamFresh == \A i, j \in DOMAIN used : i # j => used[i] # used[j]

(* Why: the words used follow one another from the first, as many as there  *)
(* are blocks in the bytes done, and only the message's end cuts a block.   *)
CtrShape ==
  /\ pos \in 0 .. DataLen
  /\ pos = DataLen \/ pos % BlockSize = 0
  /\ used \in Seq(0 .. CtrMod - 1) /\ Len(used) = BlocksIn(pos)
  /\ \E first \in 0 .. CtrMod - 1 :
       /\ \A i \in 1 .. Len(used) : used[i] = (first + i - 1) % CtrMod
       /\ block.word = (first + Len(used)) % CtrMod

(* The inductive invariant behind KeystreamFresh: a pass begins with no     *)
(* word used, over a message that passed the checks and is in the buffer,   *)
(* and keeps its shape.                                                     *)
Inductive ==
  /\ pc \in {"idle", "check", "keyed", "ctr"}
  /\ pc # "ctr" => KeystreamFresh
  /\ pc # "idle" <=> answer.status = "pending"
  /\ pc # "idle" => WellFormed(request) /\ HasWord(request)
  /\ pc \in {"check", "keyed"} \/ request.op = "none" => pos = 0 /\ used = <<>>
  /\ pc = "check" => buffer = Initial(request)
  /\ pc = "keyed" => buffer = Overwrite(Initial(request), request.data)
  /\ pc \in {"keyed", "ctr"} => Passes(request)
  /\ pc = "ctr" => CtrShape

(* Whatever part of the message a pass has reached, the counter block is    *)
(* the tag's, as many blocks on, and the buffer holds the scheme's text up  *)
(* to it, the message beyond it and what was there before beyond that: no   *)
(* byte is masked twice or skipped, and a seal hashed the plaintext first.  *)
PassInPlace ==
  pc = "ctr" =>
    LET first == IF Opens(request) THEN request.tag
                 ELSE SivSeal(request.nonce, request.aad, request.data).tag
        text == SivCtr(request.nonce, first, request.data)
    IN /\ Opens(request) \/ tag = first
       /\ block = [word |-> (first.word + BlocksIn(pos)) % CtrMod,
                   stream |-> Stream(request.nonce, first)]
       /\ buffer = Overwrite(Initial(request),
                             SubSeq(text, 1, pos) \o SubSeq(request.data, pos + 1, DataLen))
=============================================================================
