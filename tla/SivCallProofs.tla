---------------------------- MODULE SivCallProofs ----------------------------
(***************************************************************************)
(* An AES-256-GCM-SIV call keeps the promise of Aead, and no counter block *)
(* of it serves twice, wherever the tag makes the counter start: the       *)
(* proof, for every block size, counter width, message and operation.      *)
(* Inductive says which words are used, PassInPlace that the buffer is the *)
(* scheme's text up to the place the pass has reached and the message      *)
(* after it.                                                               *)
(***************************************************************************)
EXTENDS SivCall, AlgebraProofs

(* What encryption makes of a hash has a counter word of its own width:     *)
(* four bytes of it, read as an integer.                                    *)
TagsHaveWords == \A hash : TagWord(hash) \in 0 .. CtrMod - 1

-----------------------------------------------------------------------------
(* Counter words. *)

(* A message within the limit has no more blocks than there are words.      *)
LEMMA BlocksFit ==
  ASSUME NEW n \in Nat, n <= MAX_SIV_LEN
  PROVE  BlocksIn(n) <= CtrMod
<1> DEFINE b == BlocksIn(n)
<1>1. BlockSize \in Nat \ {0} /\ CtrMod \in Nat
  BY AlgebraAssumption
<1>2. b \in Nat /\ n <= b * BlockSize /\ b * BlockSize < n + BlockSize
  BY BlocksOf
<1>3. n <= CtrMod * BlockSize
  BY DEF MAX_SIV_LEN
<1>4. (CtrMod + 1) * BlockSize = CtrMod * BlockSize + BlockSize /\ CtrMod * BlockSize \in Nat
  BY <1>1, Distribute
<1> HIDE DEF b
<1>5. b * BlockSize \in Nat
  BY <1>1, <1>2, Distribute
<1>6. b * BlockSize < (CtrMod + 1) * BlockSize
  BY <1>1, <1>2, <1>3, <1>4, <1>5
<1>7. b <= CtrMod
  BY <1>1, <1>2, <1>6, Cancel
<1> QED BY <1>7 DEF b

-----------------------------------------------------------------------------
(* The pass. *)

(* As many consecutive words as there are, at most, are all different.      *)
LEMMA ShapeFresh ==
  ASSUME CtrShape, DataLen \in Nat, DataLen <= MAX_SIV_LEN
  PROVE  KeystreamFresh
<1> DEFINE n == Len(used)
<1>1. CtrMod \in Nat \ {0} /\ pos \in Nat /\ BlockSize \in Nat \ {0}
  BY AlgebraAssumption DEF CtrShape
<1>2. n \in Nat /\ n <= CtrMod
  <2>1. CtrMod * BlockSize \in Nat
    BY <1>1, Distribute
  <2>2. pos <= MAX_SIV_LEN
    BY <1>1, <2>1 DEF CtrShape, MAX_SIV_LEN
  <2> QED BY <1>1, <2>2, BlocksFit, BlocksOf DEF CtrShape
<1>3. DOMAIN used = 1 .. n
  BY DEF CtrShape
<1>4. PICK first \in 0 .. CtrMod - 1 : \A i \in 1 .. n : used[i] = (first + i - 1) % CtrMod
  BY DEF CtrShape
<1> HIDE DEF n
<1>5. ASSUME NEW i \in 1 .. n, NEW j \in 1 .. n, i < j
      PROVE  used[i] # used[j]
  <2> DEFINE a == first + i - 1
             b == first + j - 1
  <2>1. a \in Nat /\ b \in Nat /\ a < b /\ b < a + CtrMod
    BY <1>1, <1>2, <1>5
  <2>2. used[i] = a % CtrMod /\ used[j] = b % CtrMod
    BY <1>4
  <2> HIDE DEF a, b
  <2>3. a % CtrMod # b % CtrMod
    BY <1>1, <2>1, ModDistinct
  <2> QED BY <2>2, <2>3
<1>6. ASSUME NEW i \in 1 .. n, NEW j \in 1 .. n, i # j
      PROVE  used[i] # used[j]
  <2>1. i < j \/ j < i
    BY <1>2, <1>6
  <2> QED BY <1>5, <2>1
<1> QED BY <1>3, <1>6 DEF KeystreamFresh

(* A stretch of counter mode over whole blocks, or to the message's end.    *)
LEMMA ApplyShape ==
  ASSUME CtrShape, DataLen \in Nat, pos % BlockSize = 0,
         NEW n \in Nat \ {0}, pos + n <= DataLen,
         pos + n = DataLen \/ (pos + n) % BlockSize = 0, CtrApply(n)
  PROVE  CtrShape'
<1> DEFINE b == BlocksIn(n)
           k == Len(used)
           M == CtrMod
           more == [i \in 1 .. b |-> WordAfter(i - 1)]
           Words == 0 .. M - 1
<1>1. M \in Nat \ {0} /\ pos \in Nat /\ BlockSize \in Nat \ {0}
  BY AlgebraAssumption DEF CtrShape
<1>2. b \in Nat
  BY BlocksOf
<1>3. k \in Nat /\ used \in Seq(Words) /\ k = BlocksIn(pos)
  BY DEF CtrShape
<1>4. BlocksIn(pos + n) = k + b
  <2> DEFINE q == pos \div BlockSize
  <2>1. q \in Nat /\ pos = q * BlockSize
    BY <1>1, WholeMultiple
  <2> HIDE DEF q
  <2>2. BlocksIn(q * BlockSize + 0) = q + BlocksIn(0)
    BY <2>1, BlocksAfter
  <2>3. k = q
    BY <1>3, <2>1, <2>2, NoBlocks
  <2> QED BY <2>1, <2>3, BlocksAfter
<1>5. PICK first \in 0 .. M - 1 :
        /\ \A i \in 1 .. k : used[i] = (first + i - 1) % M
        /\ block.word = (first + k) % M
  BY DEF CtrShape
<1>6. /\ pos' = pos + n /\ used' = used \o more /\ block'.word = WordAfter(b)
      /\ DataLen' = DataLen
  BY DEF CtrApply, CtrShape, DataLen
<1>0. first \in Nat
  BY <1>1, <1>5
<1> HIDE DEF b, k, M
<1>7. ASSUME NEW i \in Nat PROVE WordAfter(i) = (first + k + i) % M /\ WordAfter(i) \in Words
  <2> DEFINE f == first + k
  <2>1. f \in Nat /\ i \in Nat
    BY <1>0, <1>3, <1>7
  <2>2. block.word = f % M
    BY <1>5
  <2>3. WordAfter(i) = (block.word + i) % M
    BY DEF WordAfter, M
  <2> HIDE DEF f
  <2>0. M \in Nat \ {0}
    BY <1>1
  <2>4. ((f % M) + i) % M = (f + i) % M
    BY <2>0, <2>1, ModAdd, ZenonT(30)
  <2>5. (f + i) % M \in 0 .. M - 1
    BY <2>0, <2>1, DivMod
  <2> QED BY <2>2, <2>3, <2>4, <2>5 DEF f
<1>8. more \in Seq(Words) /\ Len(more) = b /\ \A i \in 1 .. b : more[i] = WordAfter(i - 1)
  <2>1. \A i \in 1 .. b : i - 1 \in Nat
    BY <1>2
  <2>2. more \in [1 .. b -> Words]
    BY <1>7, <2>1
  <2> QED BY <1>2, <2>2, SeqDef
<1> HIDE DEF more, Words
<1>9. /\ used' \in Seq(Words) /\ Len(used') = k + b
      /\ \A i \in 1 .. k : used'[i] = used[i]
      /\ \A i \in k + 1 .. k + b : used'[i] = more[i - k]
  <2>1. /\ used \o more \in Seq(Words) /\ Len(used \o more) = Len(used) + Len(more)
        /\ \A i \in 1 .. Len(used) + Len(more) :
             (used \o more)[i] = IF i <= Len(used) THEN used[i] ELSE more[i - Len(used)]
    BY <1>3, <1>8, ConcatProperties, ZenonT(30)
  <2>2. Len(used) = k /\ Len(more) = b
    BY <1>8 DEF k
  <2> QED BY <1>2, <1>3, <1>6, <2>1, <2>2
<1>10. ASSUME NEW i \in 1 .. k + b PROVE used'[i] = (first + i - 1) % M
  <2>1. CASE i <= k
    BY <1>3, <1>5, <1>9, <2>1
  <2>2. CASE i > k
    <3>1. i \in k + 1 .. k + b /\ i - k \in 1 .. b /\ (i - k) - 1 \in Nat
      BY <1>2, <1>3, <2>2
    <3>2. used'[i] = WordAfter((i - k) - 1)
      BY <1>8, <1>9, <3>1
    <3>3. first + k + ((i - k) - 1) = first + i - 1
      BY <1>3, <1>5, <3>1
    <3> QED BY <1>7, <3>1, <3>2, <3>3
  <2> QED BY <1>3, <2>1, <2>2
<1>11. block'.word = (first + (k + b)) % M
  <2>1. first + k + b = first + (k + b)
    BY <1>2, <1>3, <1>5
  <2> QED BY <1>2, <1>6, <1>7, <2>1
<1>12. pos + n \in 0 .. DataLen
  BY <1>1
<1> QED BY <1>4, <1>5, <1>6, <1>9, <1>10, <1>11, <1>12 DEF CtrShape, M, Words

-----------------------------------------------------------------------------
(* Every step keeps the invariant. *)

(* Every operation checks the lengths and, where a caller gives the buffer, *)
(* the room; every open, that the input is complete.                        *)
LEMMA ChecksAre ==
  ASSUME NEW r
  PROVE  LET Checked(e) == \E i \in 1 .. Len(Checks(r)) : Checks(r)[i] = e
         IN /\ Len(Checks(r)) \in Nat /\ DOMAIN Checks(r) = 1 .. Len(Checks(r))
            /\ \A i \in 1 .. Len(Checks(r)) : Checks(r)[i] \in Errors
            /\ Checked("InvalidNonceLength") /\ Checked("InputTooLarge")
            /\ Checked("OutputTooSmall")
            /\ r.op \in {"decrypt_envelope", "decrypt_envelope_to"} => Checked("CiphertextTooShort")
            /\ r.op \notin {"encrypt_nonce_appended_to", "decrypt_envelope",
                            "decrypt_envelope_to"} => Checked("Decrypt")
<1>1. CASE r.op = "encrypt_nonce_appended_to"
  <2>1. Checks(r) = <<"OutputTooSmall", "InvalidNonceLength", "InputTooLarge">>
    BY <1>1 DEF Checks
  <2> QED BY <1>1, <2>1 DEF Errors
<1>2. CASE r.op \in {"decrypt_envelope", "decrypt_envelope_to"}
  <2>1. Checks(r) =
          <<"CiphertextTooShort", "InvalidNonceLength", "InputTooLarge", "OutputTooSmall">>
    BY <1>2 DEF Checks
  <2> QED BY <1>2, <2>1 DEF Errors
<1>3. CASE r.op \notin {"encrypt_nonce_appended_to", "decrypt_envelope", "decrypt_envelope_to"}
  <2>1. Checks(r) = <<"InvalidNonceLength", "Decrypt", "InputTooLarge", "OutputTooSmall">>
    BY <1>3 DEF Checks
  <2> QED BY <1>3, <2>1 DEF Errors
<1> QED BY <1>1, <1>2, <1>3

(* An accepted call is within the limit, and an accepted open complete.     *)
LEMMA InputAccepted ==
  ASSUME Passes(request)
  PROVE  /\ ~(DataLen > MAX_SIV_LEN)
         /\ Opens(request) => request.complete
<1>1. \A i \in 1 .. Len(Checks(request)) : ~Complains(request, Checks(request)[i])
  BY DEF Passes, PassesUpTo
<1>2. ~Complains(request, "InputTooLarge")
  BY <1>1, ChecksAre
<1>3. ASSUME Opens(request) PROVE request.complete
  <2>1. CASE request.op \in {"decrypt_envelope", "decrypt_envelope_to"}
    <3>1. ~Complains(request, "CiphertextTooShort")
      BY <1>1, <2>1, ChecksAre
    <3> QED BY <2>1, <3>1 DEF Complains
  <2>2. CASE request.op \notin {"decrypt_envelope", "decrypt_envelope_to"}
    <3>1. request.op # "encrypt_nonce_appended_to"
      BY <1>3 DEF Opens, OpenOp
    <3>2. ~Complains(request, "Decrypt")
      BY <1>1, <2>2, <3>1, ChecksAre
    <3> QED BY <1>3, <2>2, <3>2 DEF Complains, Opens
  <2> QED BY <2>1, <2>2
<1> QED BY <1>2, <1>3 DEF Complains, DataLen

LEMMA DataLenType ==
  ASSUME WellFormed(request)
  PROVE  DataLen \in Nat
BY LenProperties DEF WellFormed, IsSlice, DataLen

LEMMA WithinLimit ==
  ASSUME WellFormed(request), Passes(request)
  PROVE  DataLen \in Nat /\ DataLen <= MAX_SIV_LEN /\ MAX_SIV_LEN \in Nat
<1>1. BlockSize \in Nat /\ CtrMod \in Nat
  BY AlgebraAssumption
<1>2. MAX_SIV_LEN \in Nat
  BY <1>1, Distribute DEF MAX_SIV_LEN
<1> QED BY <1>2, InputAccepted, DataLenType

LEMMA InitialInductive == Init => Inductive
BY DEF Init, Result, Inductive, KeystreamFresh

LEMMA OpNamed ==
  ASSUME NEW r, WellFormed(r)
  PROVE  r.op # "none"
BY DEF WellFormed, SealOp, OpenOp, Detached, AppendsNonce

(* The first block has not been used.                                       *)
LEMMA StartShape ==
  ASSUME Inductive, pc = "keyed", NEW t, t.word \in 0 .. CtrMod - 1, StartCtr(t),
         UNCHANGED <<request, answer, pos, used>>
  PROVE  Inductive'
<1>1. /\ pos' = 0 /\ used' = <<>> /\ pc' = "ctr" /\ block'.word = t.word
      /\ DataLen \in Nat /\ DataLen' = DataLen
  BY DataLenType DEF Inductive, StartCtr, DataLen
<1>2. BlockSize \in Nat \ {0} /\ CtrMod \in Nat \ {0} /\ 0 * BlockSize = 0
  BY AlgebraAssumption
<1>3. 0 % BlockSize = 0
  <2>1. (0 * BlockSize) % BlockSize = 0
    BY <1>2, MultipleMod
  <2> QED BY <1>2, <2>1
<1>4. (t.word + 0) % CtrMod = t.word
  BY <1>2, SmallMod
<1>5. CtrShape'
  BY <1>1, <1>3, <1>4, NoBlocks DEF CtrShape
<1>6. /\ WellFormed(request') /\ HasWord(request') /\ Passes(request')
      /\ answer'.status = "pending" /\ request'.op # "none"
  BY OpNamed DEF Inductive
<1> QED BY <1>1, <1>5, <1>6 DEF Inductive, KeystreamFresh

LEMMA ApplyKeeps ==
  ASSUME Inductive, pc = "ctr", pos % BlockSize = 0,
         NEW n \in Nat \ {0}, pos + n <= DataLen,
         pos + n = DataLen \/ (pos + n) % BlockSize = 0, CtrApply(n)
  PROVE  Inductive'
<1>1. /\ DataLen \in Nat /\ CtrShape /\ WellFormed(request) /\ HasWord(request)
      /\ Passes(request) /\ answer.status = "pending"
  BY DataLenType DEF Inductive
<1>2. CtrShape'
  BY <1>1, ApplyShape
<1>3. UNCHANGED <<request, answer, pc>>
  BY DEF CtrApply
<1>4. request'.op # "none" /\ WellFormed(request') /\ HasWord(request') /\ Passes(request')
  BY <1>1, <1>3, OpNamed
<1> QED BY <1>1, <1>2, <1>3, <1>4 DEF Inductive

(* The next stretch ends at a block's end or the message's.                 *)
LEMMA StretchFits ==
  ASSUME Inductive, CtrBatch \/ CtrBlock
  PROVE  /\ pos % BlockSize = 0
         /\ \E n \in Nat \ {0} :
              /\ pos + n <= DataLen /\ CtrApply(n)
              /\ pos + n = DataLen \/ (pos + n) % BlockSize = 0
<1>0. pc = "ctr" /\ BlockSize \in Nat \ {0}
  BY AlgebraAssumption DEF CtrBatch, CtrBlock
<1>1. DataLen \in Nat /\ pos \in 0 .. DataLen /\ (pos = DataLen \/ pos % BlockSize = 0)
  BY <1>0, DataLenType DEF Inductive, CtrShape
<1>2. DataLen - pos > 0
  <2>1. CASE CtrBatch
    <3>1. DataLen - pos >= 8 * BlockSize
      BY <2>1 DEF CtrBatch, Left, PAR_BLOCKS
    <3> QED BY <1>0, <1>1, <3>1
  <2> QED BY <2>1 DEF CtrBlock, Left
<1>3. pos % BlockSize = 0
  BY <1>1, <1>2
<1>4. ASSUME NEW w \in Nat \ {0}, DataLen - pos >= w * BlockSize, CtrApply(w * BlockSize)
      PROVE  \E n \in Nat \ {0} :
               /\ pos + n <= DataLen /\ CtrApply(n)
               /\ pos + n = DataLen \/ (pos + n) % BlockSize = 0
  <2> DEFINE n == w * BlockSize
             q == pos \div BlockSize
  <2>1. n \in Nat \ {0}
    <3>1. 1 <= w /\ 1 * BlockSize = BlockSize /\ w \in Nat
      BY <1>0
    <3>2. 1 * BlockSize <= w * BlockSize /\ w * BlockSize \in Nat
      BY <1>0, <3>1, Monotone
    <3> QED BY <1>0, <3>1, <3>2
  <2>2. q \in Nat /\ pos = q * BlockSize
    BY <1>0, <1>1, <1>3, WholeMultiple
  <2> HIDE DEF q
  <2>3. (q + w) * BlockSize = pos + n /\ q + w \in Nat
    BY <1>0, <1>4, <2>2, Distribute
  <2>4. ((q + w) * BlockSize) % BlockSize = 0
    BY <1>0, <2>3, MultipleMod
  <2>5. (pos + n) % BlockSize = 0
    BY <2>3, <2>4
  <2>6. DataLen - pos >= n /\ CtrApply(n)
    BY <1>4
  <2> HIDE DEF n
  <2>7. pos + n <= DataLen
    BY <1>1, <2>1, <2>6
  <2> QED BY <2>1, <2>5, <2>6, <2>7
<1>5. CASE CtrBatch
  <2>1. DataLen - pos >= 8 * BlockSize /\ CtrApply(8 * BlockSize)
    BY <1>5 DEF CtrBatch, Left, PAR_BLOCKS
  <2> QED BY <1>3, <1>4, <2>1
<1>6. CASE CtrBlock
  <2>1. CtrApply(IF DataLen - pos < BlockSize THEN DataLen - pos ELSE BlockSize)
    BY <1>6 DEF CtrBlock, Left
  <2>2. CASE DataLen - pos < BlockSize
    <3>1. CtrApply(DataLen - pos) /\ DataLen - pos \in Nat \ {0}
          /\ pos + (DataLen - pos) = DataLen /\ DataLen <= DataLen
      BY <1>1, <1>2, <2>1, <2>2
    <3> QED BY <1>3, <3>1
  <2>3. CASE ~(DataLen - pos < BlockSize)
    <3>1. CtrApply(1 * BlockSize) /\ DataLen - pos >= 1 * BlockSize
      <4>1. 1 * BlockSize = BlockSize
        BY <1>0
      <4> QED BY <1>0, <1>1, <2>1, <2>3, <4>1
    <3> QED BY <1>3, <1>4, <3>1
  <2> QED BY <2>2, <2>3
<1> QED BY <1>5, <1>6

LEMMA StepKeeps ==
  ASSUME TagsHaveWords, Inductive, [Next]_vars
  PROVE  Inductive'
<1>1. ASSUME NEW r \in Requests, Call(r) PROVE Inductive'
  <2>1. /\ WellFormed(r) /\ HasWord(r) /\ request' = r /\ pc' = "check"
        /\ UNCHANGED <<pos, used>> /\ answer'.status = "pending" /\ buffer' = Initial(r)
    BY <1>1, RequestsAssumption DEF Call, pass, Result
  <2>2. pos = 0 /\ used = <<>>
    BY <1>1 DEF Call, Inductive
  <2> QED BY <2>1, <2>2 DEF Inductive, KeystreamFresh
<1>2. CASE Refuse
  <2>1. /\ pc = "check" /\ pc' = "idle" /\ UNCHANGED <<request, pos, used>>
        /\ answer'.status # "pending"
    BY <1>2 DEF Refuse, pass, Result, Errors
  <2>2. pos = 0 /\ used = <<>>
    BY <2>1 DEF Inductive
  <2> QED BY <2>1, <2>2 DEF Inductive, KeystreamFresh
<1>3. CASE Begin
  <2>1. /\ pc = "check" /\ pc' = "keyed" /\ UNCHANGED <<request, answer, pos, used>>
        /\ Passes(request') /\ buffer' = Overwrite(Initial(request'), request'.data)
    BY <1>3 DEF Begin, pass, Inductive
  <2>2. /\ WellFormed(request') /\ HasWord(request') /\ answer'.status = "pending"
        /\ pos' = 0 /\ used' = <<>>
    BY <2>1 DEF Inductive
  <2> QED BY <2>1, <2>2 DEF Inductive, KeystreamFresh
<1>4. CASE HashPlaintext
  <2>1. Computed.word \in 0 .. CtrMod - 1
    BY DEF TagsHaveWords, Computed, siv_tag
  <2> QED BY <1>4, <2>1, StartShape DEF HashPlaintext
<1>5. CASE TrustTag
  <2>1. request.tag.word \in 0 .. CtrMod - 1
    BY <1>5, InputAccepted DEF TrustTag, Inductive, HasWord
  <2> QED BY <1>5, <2>1, StartShape DEF TrustTag
<1>8. CASE CtrBatch \/ CtrBlock
  <2>1. pc = "ctr"
    BY <1>8 DEF CtrBatch, CtrBlock
  <2> QED BY <1>8, <2>1, StretchFits, ApplyKeeps
<1>10. ASSUME NEW s, NEW t, pc = "ctr", Return(s, t), s # "pending" PROVE Inductive'
  <2>1. KeystreamFresh /\ WellFormed(request)
    BY <1>10, ShapeFresh, WithinLimit DEF Inductive
  <2>2. /\ pc' = "idle" /\ request'.op # "none" /\ used' = used /\ answer'.status # "pending"
    BY <1>10, <2>1, OpNamed DEF Return, pass, Result
  <2> QED BY <2>1, <2>2 DEF Inductive, KeystreamFresh
<1>11. CASE SealDone \/ Accept \/ Reject
  BY <1>10, <1>11 DEF SealDone, Accept, Reject, AtEnd
<1>12. CASE UNCHANGED vars
  <2>1. UNCHANGED <<request, answer, buffer, pc, block, pos, used>>
    BY <1>12 DEF vars, pass
  <2> QED BY <2>1 DEF Inductive, CtrShape, KeystreamFresh, DataLen
<1>13. CASE Step
  BY <1>2, <1>3, <1>4, <1>5, <1>8, <1>11, <1>13 DEF Step
<1>14. CASE \E r \in Requests : Call(r)
  BY <1>1, <1>14
<1> QED BY <1>12, <1>13, <1>14 DEF Next, Returned

-----------------------------------------------------------------------------
(* What a call makes of its message. *)

(* The tag that counter mode starts from.                                   *)
First(r) == IF Opens(r) THEN r.tag ELSE SivSeal(r.nonce, r.aad, r.data).tag

MsgText(r) == SivCtr(r.nonce, First(r), r.data)

(* The message with its first p bytes done.                                 *)
MessageAt(r, p) == SubSeq(MsgText(r), 1, p) \o SubSeq(r.data, p + 1, Len(r.data))

BufferAt(r, p) == Over(Initial(r), MessageAt(r, p))

BlockPast(r, p) ==
  [word |-> (First(r).word + BlocksIn(p)) % CtrMod, stream |-> Stream(r.nonce, First(r))]

LEMMA OverwriteIsOver == \A b, s : Overwrite(b, s) = Over(b, s)
BY DEF Overwrite, Over

LEMMA InPlacePass ==
  /\ PassInPlace <=>
       (pc = "ctr" => /\ Opens(request) \/ tag = First(request)
                      /\ block = BlockPast(request, pos) /\ buffer = BufferAt(request, pos))
  /\ PassInPlace' <=>
       (pc' = "ctr" => /\ Opens(request') \/ tag' = First(request')
                       /\ block' = BlockPast(request', pos')
                       /\ buffer' = BufferAt(request', pos'))
BY OverwriteIsOver
DEF PassInPlace, First, MsgText, MessageAt, BufferAt, BlockPast, DataLen

(* The strings of a call, over one alphabet.                                *)
StringsIn(S, r) ==
  /\ r.aad \in Seq(S) /\ r.data \in Seq(S) /\ MsgText(r) \in Seq(S) /\ Initial(r) \in Seq(S)
  /\ Len(r.data) \in Nat /\ Len(MsgText(r)) = Len(r.data)

LEMMA SpreadType ==
  ASSUME NEW what, NEW value, NEW n \in Nat
  PROVE  IsSlice(Spread(what, value, n)) /\ Len(Spread(what, value, n)) = n
<1> DEFINE f == Spread(what, value, n)
<1>1. f = [i \in 1 .. n |-> f[i]]
  BY DEF Spread
<1> HIDE DEF f
<1> QED BY <1>1, FunctionIsSeq DEF IsSlice, f

LEMMA ZeroType ==
  ASSUME NEW n \in Nat
  PROVE  IsSlice(ZeroBytes(n)) /\ Len(ZeroBytes(n)) = n
<1> DEFINE f == ZeroBytes(n)
<1>1. f = [i \in 1 .. n |-> f[i]]
  BY DEF ZeroBytes
<1> HIDE DEF f
<1> QED BY <1>1, FunctionIsSeq DEF IsSlice, f

LEMMA JoinSlices ==
  ASSUME NEW A, NEW B, NEW s \in Seq(A), NEW t \in Seq(B)
  PROVE  IsSlice(s \o t)
<1> DEFINE c == s \o t
<1>1. c \in Seq(A \cup B)
  BY Widen, ConcatProperties
<1> HIDE DEF c
<1>2. c = [i \in 1 .. Len(c) |-> c[i]] /\ Len(c) \in Nat
  BY <1>1, LenProperties
<1> QED BY <1>2, FunctionIsSeq DEF IsSlice, c

LEMMA SliceLen ==
  ASSUME NEW s, IsSlice(s)
  PROVE  Len(s) \in Nat /\ DOMAIN s = 1 .. Len(s)
BY LenProperties DEF IsSlice

LEMMA TrailerType ==
  ASSUME NEW r, NEW made
  PROVE  IsSlice(Trailer(r, made))
<1> DEFINE Bytes(f) == {f[i] : i \in DOMAIN f}
           t == Spread("tag", made, TagSize)
           n == IF r.op \in AppendsNonce THEN Spread("nonce", r.nonce, NonceSize) ELSE <<>>
<1>1. IsSlice(<<>>)
  BY EmptySeq DEF IsSlice
<1>2. IsSlice(t) /\ IsSlice(n)
  BY <1>1, SpreadType, RequestsAssumption
<1> HIDE DEF t, n
<1>3. t \in Seq(Bytes(t)) /\ n \in Seq(Bytes(n))
  BY <1>2 DEF IsSlice
<1> HIDE DEF Bytes
<1>4. IsSlice(t \o n)
  BY <1>3, JoinSlices
<1>5. Trailer(r, made) = <<>> \/ Trailer(r, made) = t \o n
  BY DEF Trailer, t, n
<1> QED BY <1>1, <1>4, <1>5

LEMMA InitialType ==
  ASSUME NEW r, WellFormed(r)
  PROVE  IsSlice(Initial(r))
<1>1. Len(r.data) \in Nat /\ TagSize \in Nat /\ IsSlice(r.data)
  BY SliceLen, RequestsAssumption DEF WellFormed
<1>2. CASE InPlace(r)
  BY <1>1, <1>2 DEF Initial
<1>3. CASE ~InPlace(r) /\ r.op \in CallerBufferOp
  BY <1>3, SpreadType DEF Initial, WellFormed
<1>4. CASE ~InPlace(r) /\ r.op \notin CallerBufferOp
  <2> DEFINE m == Len(r.data)
             x == IF r.op = "encrypt" THEN TagSize ELSE 0
             n == m + x
  <2>1. Initial(r) = ZeroBytes(n)
    BY <1>4 DEF Initial
  <2>0. x \in Nat /\ m \in Nat
    BY <1>1
  <2> HIDE DEF x
  <2>2. n \in Nat
    BY <2>0
  <2> HIDE DEF n
  <2> QED BY <2>1, <2>2, ZeroType
<1> QED BY <1>2, <1>3, <1>4

LEMMA MsgTextType ==
  ASSUME NEW r, WellFormed(r)
  PROVE  IsSlice(MsgText(r)) /\ Len(MsgText(r)) = Len(r.data) /\ Len(r.data) \in Nat
<1> DEFINE S == {r.data[i] : i \in DOMAIN r.data}
           d == r.data
           stream == Stream(r.nonce, First(r))
           first == First(r).word
           t == CtrMode(stream, first, d)
<1>1. d \in Seq(S) /\ Len(r.data) \in Nat /\ d = r.data
  BY SliceLen DEF WellFormed, IsSlice
<1>2. MsgText(r) = t
  BY DEF MsgText, SivCtr
<1> HIDE DEF S, d, first, stream
<1>3. t = [i \in 1 .. Len(d) |-> t[i]]
  BY <1>1, CtrModeBytes
<1> HIDE DEF t
<1>4. IsSlice(t) /\ Len(t) = Len(d)
  BY <1>1, <1>3, FunctionIsSeq DEF IsSlice
<1> QED BY <1>1, <1>2, <1>4

LEMMA Strings ==
  ASSUME NEW r, WellFormed(r)
  PROVE  \E S : StringsIn(S, r)
<1> DEFINE Bytes(s) == {s[i] : i \in DOMAIN s}
           a == r.aad
           d == r.data
           t == MsgText(r)
           b == Initial(r)
           S == Bytes(a) \cup Bytes(d) \cup Bytes(t) \cup Bytes(b)
<1>1. a \in Seq(Bytes(a)) /\ d \in Seq(Bytes(d)) /\ t \in Seq(Bytes(t)) /\ b \in Seq(Bytes(b))
  BY InitialType, MsgTextType DEF WellFormed, IsSlice
<1>2. Bytes(a) \subseteq S /\ Bytes(d) \subseteq S /\ Bytes(t) \subseteq S /\ Bytes(b) \subseteq S
  OBVIOUS
<1>3. Len(d) \in Nat /\ Len(t) = Len(d)
  BY MsgTextType
<1> HIDE DEF Bytes, S, a, d, t, b
<1>4. a \in Seq(S) /\ d \in Seq(S) /\ t \in Seq(S) /\ b \in Seq(S)
  BY <1>1, <1>2, SeqMonotonic
<1>5. StringsIn(S, r)
  BY <1>3, <1>4 DEF StringsIn, a, d, t, b
<1> QED BY <1>5

(* The buffer of a call that passed the checks has room for its message.    *)
LEMMA Room ==
  ASSUME NEW r, WellFormed(r), Passes(r)
  PROVE  Len(r.data) <= Len(Initial(r))
<1>1. Len(r.data) \in Nat /\ TagSize \in Nat
  BY SliceLen, RequestsAssumption DEF WellFormed
<1>2. CASE InPlace(r)
  BY <1>1, <1>2 DEF Initial
<1>3. CASE ~InPlace(r) /\ r.op \in CallerBufferOp
  <2>1. \E i \in 1 .. Len(Checks(r)) : Checks(r)[i] = "OutputTooSmall"
    BY ChecksAre
  <2>2. ~Complains(r, "OutputTooSmall")
    BY <2>1 DEF Passes, PassesUpTo
  <2>3. r.room \in Nat /\ ~(r.room < Needed(r))
    BY <1>3, <2>2 DEF Complains, WellFormed
  <2>4. Len(Trailer(r, NoTag)) \in Nat
    BY TrailerType, SliceLen
  <2>5. Len(r.data) <= r.room
    BY <1>1, <2>3, <2>4 DEF Needed
  <2>6. Initial(r) = Spread("caller", 0, r.room)
    BY <1>3 DEF Initial
  <2> QED BY <2>3, <2>5, <2>6, SpreadType
<1>4. CASE ~InPlace(r) /\ r.op \notin CallerBufferOp
  <2> DEFINE m == Len(r.data)
             x == IF r.op = "encrypt" THEN TagSize ELSE 0
             n == m + x
  <2>1. Initial(r) = ZeroBytes(n)
    BY <1>4 DEF Initial
  <2>0. x \in Nat /\ m \in Nat
    BY <1>1
  <2> HIDE DEF x
  <2>2. n \in Nat /\ Len(r.data) <= n
    BY <2>0
  <2> HIDE DEF n
  <2> QED BY <2>1, <2>2, ZeroType
<1> QED BY <1>2, <1>3, <1>4

(* A message with its first bytes done, byte by byte.                       *)
LEMMA MessageBytes ==
  ASSUME NEW r, NEW S, StringsIn(S, r), NEW p \in 0 .. Len(r.data)
  PROVE  LET w == MessageAt(r, p)
         IN /\ w \in Seq(S) /\ Len(w) = Len(r.data)
            /\ \A i \in 1 .. Len(r.data) : w[i] = IF i <= p THEN MsgText(r)[i] ELSE r.data[i]
<1> DEFINE d == r.data
           t == MsgText(r)
           N == Len(d)
           x == SubSeq(t, 1, p)
           y == SubSeq(d, p + 1, N)
<1>1. d \in Seq(S) /\ t \in Seq(S) /\ Len(t) = N /\ N \in Nat /\ p \in Nat /\ p <= N /\ N = Len(d)
  BY DEF StringsIn
<1>2. x \in Seq(S) /\ Len(x) = p /\ \A i \in 1 .. p : x[i] = t[i]
  <2> HIDE DEF t, N
  <2> QED BY <1>1, PrefixType
<1>3. y \in Seq(S) /\ Len(y) = N - p /\ \A i \in 1 .. N - p : y[i] = d[p + i]
  <2> HIDE DEF d, N
  <2>1. N <= Len(d)
    BY <1>1
  <2> QED BY <1>1, <2>1, SubSeqType
<1>4. MessageAt(r, p) = x \o y
  BY DEF MessageAt
<1> HIDE DEF d, t, N, x, y
<1>5. /\ x \o y \in Seq(S) /\ Len(x \o y) = Len(x) + Len(y)
      /\ \A i \in 1 .. Len(x) + Len(y) :
           (x \o y)[i] = IF i <= Len(x) THEN x[i] ELSE y[i - Len(x)]
  BY <1>2, <1>3, ConcatProperties
<1>6. p + (N - p) = N
  BY <1>1
<1>7. ASSUME NEW i \in 1 .. N PROVE (x \o y)[i] = IF i <= p THEN t[i] ELSE d[i]
  <2>1. CASE i <= p
    BY <1>1, <1>2, <1>3, <1>5, <1>6, <2>1
  <2>2. CASE ~(i <= p)
    <3>1. i - p \in 1 .. N - p /\ p + (i - p) = i
      BY <1>1, <2>2
    <3> QED BY <1>2, <1>3, <1>5, <1>6, <2>2, <3>1
  <2> QED BY <2>1, <2>2
<1> QED BY <1>2, <1>3, <1>4, <1>5, <1>6, <1>7 DEF d, t, N

(* A buffer with a message in it, part of it done.                          *)
LEMMA BufferBytes ==
  ASSUME NEW r, WellFormed(r), Passes(r), NEW S, StringsIn(S, r), NEW p \in 0 .. Len(r.data)
  PROVE  LET b == BufferAt(r, p)
             L == Len(Initial(r))
         IN /\ b \in Seq(S) /\ Len(b) = L /\ DOMAIN b = 1 .. L /\ L \in Nat /\ Len(r.data) <= L
            /\ \A i \in 1 .. L : b[i] = IF i <= p THEN MsgText(r)[i]
                                        ELSE IF i <= Len(r.data) THEN r.data[i]
                                        ELSE Initial(r)[i]
<1> DEFINE w == MessageAt(r, p)
           N == Len(r.data)
           o == Initial(r)
           b == Over(o, w)
<1>1. /\ w \in Seq(S) /\ Len(w) = N
      /\ \A i \in 1 .. N : w[i] = IF i <= p THEN MsgText(r)[i] ELSE r.data[i]
  BY MessageBytes
<1>2. o \in Seq(S) /\ N <= Len(o) /\ N \in Nat /\ Len(o) \in Nat /\ p \in 0 .. N
  BY Room, LenProperties DEF StringsIn
<1>0. BufferAt(r, p) = b
  BY DEF BufferAt
<1> HIDE DEF w, N, o
<1>3. /\ b \in Seq(S) /\ Len(b) = Len(o)
      /\ \A i \in 1 .. Len(o) : b[i] = IF i <= N THEN w[i] ELSE o[i]
  BY <1>1, <1>2, OverBytes
<1> HIDE DEF b
<1>4. DOMAIN b = 1 .. Len(o)
  BY <1>3, LenProperties
<1>5. \A i \in 1 .. Len(o) : b[i] = IF i <= p THEN MsgText(r)[i]
                                    ELSE IF i <= N THEN r.data[i] ELSE o[i]
  BY <1>1, <1>2, <1>3
<1> QED BY <1>0, <1>2, <1>3, <1>4, <1>5 DEF N, o

-----------------------------------------------------------------------------
(* The pass, in place. *)

(* The tag a pass starts from has a counter word.                           *)
LEMMA FirstWord ==
  ASSUME TagsHaveWords, NEW r, HasWord(r), Opens(r) => r.complete
  PROVE  First(r).word \in 0 .. CtrMod - 1
BY DEF TagsHaveWords, HasWord, First, SivSeal, siv_tag

(* The next stretch of counter mode, of a message processed up to it.       *)
LEMMA Stretch ==
  ASSUME TagsHaveWords, Inductive, PassInPlace, pc = "ctr", pos % BlockSize = 0,
         NEW n \in Nat \ {0}, pos + n <= DataLen, CtrApply(n)
  PROVE  PassInPlace'
<1> DEFINE r == request
           d == request.data
           t == MsgText(request)
           o == Initial(request)
           L == Len(o)
           N == Len(d)
           m == pos + n
           f == First(request)
           first == f.word
           stream == Stream(request.nonce, f)
           after == BufferAt(request, m)
<1>1. /\ WellFormed(request) /\ Passes(request) /\ HasWord(request) /\ CtrShape
  BY DEF Inductive
<1>2. PICK S : StringsIn(S, request)
  BY <1>1, Strings
<1>3. /\ Opens(request) \/ tag = f
      /\ block = [word |-> (first + BlocksIn(pos)) % CtrMod, stream |-> stream]
      /\ buffer = BufferAt(request, pos)
  BY InPlacePass DEF BlockPast
<1>4. /\ N \in Nat /\ pos \in 0 .. N /\ m \in 0 .. N /\ d \in Seq(S) /\ m = pos + n
  BY <1>1, <1>2, DataLenType DEF CtrShape, StringsIn, DataLen
<1>5. /\ buffer \in Seq(S) /\ Len(buffer) = L /\ DOMAIN buffer = 1 .. L
      /\ L \in Nat /\ N <= L
      /\ \A i \in 1 .. L : buffer[i] = IF i <= pos THEN t[i] ELSE IF i <= N THEN d[i] ELSE o[i]
  BY <1>1, <1>2, <1>3, <1>4, BufferBytes
<1>6. /\ after \in Seq(S) /\ Len(after) = L /\ DOMAIN after = 1 .. L
      /\ \A i \in 1 .. L : after[i] = IF i <= m THEN t[i] ELSE IF i <= N THEN d[i] ELSE o[i]
  <2> HIDE DEF m
  <2> QED BY <1>1, <1>2, <1>4, BufferBytes
<1>7. first \in 0 .. CtrMod - 1 /\ CtrMod \in Nat \ {0} /\ first \in Nat
  <2>1. first \in 0 .. CtrMod - 1
    BY <1>1, FirstWord, InputAccepted
  <2> QED BY <2>1, AlgebraAssumption
<1>8. t = CtrMode(stream, first, d)
  BY DEF MsgText, SivCtr
<1>9. block.word = (first + BlocksIn(pos)) % CtrMod /\ block.stream = stream
  BY <1>3
<1> HIDE DEF r, d, t, o, L, N, m, f, first, stream, after
<1>10. \A i \in pos + 1 .. m :
         t[i] = Xor(d[i], KeystreamByte(block.stream, WordAfter((i - pos - 1) \div BlockSize),
                                        (i - pos - 1) % BlockSize))
  <2>1. TAKE i \in pos + 1 .. m
  <2>2. i \in 1 .. Len(d) /\ pos < i /\ pos \in Nat
    BY <1>4 DEF N
  <2> DEFINE word == block.word
  <2>3. word = (first + BlocksIn(pos)) % CtrMod
    BY <1>9
  <2>4. \A x : WordAfter(x) = (word + x) % CtrMod
    BY DEF WordAfter
  <2> HIDE DEF word
  <2>5. CtrMode(stream, first, d)[i] =
          Xor(d[i], KeystreamByte(stream, (word + ((i - pos - 1) \div BlockSize)) % CtrMod,
                                  (i - pos - 1) % BlockSize))
    BY <1>4, <1>7, <2>2, <2>3, CtrModeAfter
  <2> QED BY <1>8, <1>9, <2>4, <2>5
<1>11. buffer' = after
  <2> DEFINE K(i) == KeystreamByte(block.stream, WordAfter((i - pos - 1) \div BlockSize),
                                   (i - pos - 1) % BlockSize)
  <2>1. buffer' = [i \in 1 .. L |-> IF i \in pos + 1 .. m THEN Xor(buffer[i], K(i))
                                    ELSE buffer[i]]
    BY <1>5 DEF CtrApply, Masked, m
  <2>2. \A i \in pos + 1 .. m : t[i] = Xor(d[i], K(i))
    BY <1>10
  <2> HIDE DEF K
  <2>3. ASSUME NEW i \in 1 .. L PROVE buffer'[i] = after[i]
    <3>1. CASE i \in pos + 1 .. m
      <4>1. ~(i <= pos) /\ i <= N /\ i <= m
        BY <1>4, <3>1
      <4>2. buffer[i] = d[i] /\ after[i] = t[i]
        BY <1>5, <1>6, <4>1
      <4> QED BY <2>1, <2>2, <3>1, <4>2
    <3>2. CASE i \notin pos + 1 .. m
      <4>1. i <= m <=> i <= pos
        BY <1>4, <3>2
      <4> QED BY <1>5, <1>6, <2>1, <3>2, <4>1
    <3> QED BY <3>1, <3>2
  <2>4. after = [i \in 1 .. L |-> after[i]]
    BY <1>6, LenProperties
  <2>5. buffer' = [i \in 1 .. L |-> buffer'[i]]
    BY <2>1
  <2> QED BY <2>3, <2>4, <2>5
<1>12. block' = [word |-> (first + BlocksIn(m)) % CtrMod, stream |-> stream]
  <2> DEFINE k == BlocksIn(pos)
             b == BlocksIn(n)
             x == first + k
  <2>1. k \in Nat /\ pos = k * BlockSize /\ b \in Nat
    BY <1>4, WholeBlocks, BlocksOf
  <2>2. BlocksIn(m) = k + b
    <3> HIDE DEF k
    <3> QED BY <1>4, <2>1, BlocksAfter
  <2>3. block' = [block EXCEPT !.word = WordAfter(b)] /\ WordAfter(b) = (block.word + b) % CtrMod
    BY DEF CtrApply, WordAfter
  <2>4. block = [word |-> x % CtrMod, stream |-> stream] /\ x \in Nat
    BY <1>3, <1>7, <2>1 DEF first, stream
  <2>5. x + b = first + BlocksIn(m)
    BY <1>7, <2>1, <2>2
  <2> HIDE DEF x, b, k
  <2>6. ((x % CtrMod) + b) % CtrMod = (x + b) % CtrMod
    BY <1>7, <2>1, <2>4, ModAdd
  <2>7. block' = [word |-> ((x % CtrMod) + b) % CtrMod, stream |-> stream]
    BY <2>3, <2>4
  <2> QED BY <2>5, <2>6, <2>7
<1>13. UNCHANGED <<request, tag, pc>> /\ pos' = m
  BY DEF CtrApply, m
<1>14. block' = BlockPast(request, m)
  BY <1>12 DEF BlockPast, first, f, stream
<1> QED BY <1>3, <1>11, <1>13, <1>14, InPlacePass DEF after, f

(* The message is in the buffer when the keys are derived.                  *)
LEMMA MessageThere ==
  ASSUME Inductive, pc = "keyed"
  PROVE  Message = request.data /\ buffer = BufferAt(request, 0)
<1> DEFINE d == request.data
           o == Initial(request)
           N == Len(d)
<1>1. WellFormed(request) /\ Passes(request) /\ buffer = Over(o, d)
  BY OverwriteIsOver DEF Inductive
<1>2. PICK S : StringsIn(S, request)
  BY <1>1, Strings
<1>3. d \in Seq(S) /\ N \in Nat /\ 0 \in 0 .. N
  BY <1>2 DEF StringsIn
<1>4. MessageAt(request, 0) = d
  <2>1. SubSeq(MsgText(request), 1, 0) = <<>> /\ SubSeq(d, 1, N) = d
    BY <1>3, SubSeqEmpty, SubSeqFull, 0 < 1
  <2>2. <<>> \o d = d
    BY <1>3, ConcatEmptySeq
  <2> QED BY <2>1, <2>2 DEF MessageAt
<1>5. buffer = BufferAt(request, 0)
  BY <1>1, <1>4 DEF BufferAt
<1> HIDE DEF d, o, N
<1>6. /\ buffer \in Seq(S) /\ N <= Len(buffer) /\ Len(buffer) \in Nat
      /\ \A i \in 1 .. Len(buffer) : i <= N /\ ~(i <= 0) => buffer[i] = d[i]
  BY <1>1, <1>2, <1>3, <1>5, BufferBytes DEF d, N
<1> DEFINE z == 0
<1>7. z \in Nat /\ z + 1 = 1 /\ z <= N /\ N <= Len(d)
  BY <1>3 DEF N
<1>8. \A i \in z + 1 .. N : buffer[i] = d[i]
  BY <1>3, <1>6
<1> HIDE DEF z
<1>9. SubSeq(buffer, z + 1, N) = SubSeq(d, z + 1, N)
  BY <1>3, <1>6, <1>7, <1>8, SameSubSeq
<1>10. SubSeq(d, 1, N) = d
  BY <1>3, SubSeqFull DEF N
<1>11. Message = d
  BY <1>7, <1>9, <1>10 DEF Message, DataLen, d, N
<1> QED BY <1>5, <1>11 DEF d

(* The tag of whatever is in the buffer is RFC 8452's.                      *)
LEMMA TagIsStandard ==
  ASSUME WellFormed(request), IsSlice(Message)
  PROVE  Computed = siv_tag(request.nonce, HashOfMessage(request.aad, Message))
<1> DEFINE x == Message
           a == request.aad
           S == {x[i] : i \in DOMAIN x}
           T == {a[i] : i \in DOMAIN a}
<1>1. x \in Seq(S) /\ a \in Seq(T)
  BY DEF WellFormed, IsSlice
<1> HIDE DEF x, a, S, T
<1>2. finalize(absorb_padded(absorb_padded({}, a), x), Len(a), Len(x)) = HashOfMessage(a, x)
  BY <1>1, AggregationIsStandard
<1> QED BY <1>2 DEF Computed, polyval_digest, x, a

LEMMA StartInPlace ==
  ASSUME TagsHaveWords, Inductive, pc = "keyed", StartCtr(First(request)),
         Opens(request) \/ tag' = First(request), UNCHANGED <<request, buffer, pos>>
  PROVE  PassInPlace'
<1> DEFINE f == First(request)
           word == f.word
<1>1. /\ pos' = 0 /\ Passes(request) /\ HasWord(request) /\ buffer' = BufferAt(request, 0)
      /\ block' = [word |-> word, stream |-> Stream(request.nonce, f)]
  BY MessageThere DEF Inductive, StartCtr
<1>2. word \in 0 .. CtrMod - 1 /\ CtrMod \in Nat \ {0}
  BY <1>1, FirstWord, InputAccepted, AlgebraAssumption
<1> HIDE DEF f, word
<1>3. (word + BlocksIn(0)) % CtrMod = word
  <2>1. word \in Nat /\ word < CtrMod /\ word + 0 = word
    BY <1>2
  <2> QED BY <1>2, <2>1, SmallMod, NoBlocks
<1>4. block' = BlockPast(request, 0)
  BY <1>1, <1>3 DEF BlockPast, f, word
<1> QED BY <1>1, <1>4, InPlacePass DEF f

LEMMA PassStep ==
  ASSUME TagsHaveWords, Inductive, PassInPlace, [Next]_vars
  PROVE  PassInPlace'
<1>1. ASSUME pc' # "ctr" PROVE PassInPlace'
  BY <1>1, InPlacePass
<1>2. CASE HashPlaintext
  <2>1. pc = "keyed" /\ ~Opens(request) /\ WellFormed(request)
    BY <1>2 DEF HashPlaintext, Inductive
  <2>2. Message = request.data /\ IsSlice(request.data)
    BY <2>1, MessageThere DEF WellFormed
  <2>3. Computed = First(request)
    BY <2>1, <2>2, TagIsStandard DEF First, SivSeal
  <2> QED BY <1>2, <2>1, <2>3, StartInPlace DEF HashPlaintext
<1>3. CASE TrustTag
  <2>1. pc = "keyed" /\ Opens(request) /\ First(request) = request.tag
    BY <1>3 DEF TrustTag, First
  <2> QED BY <1>3, <2>1, StartInPlace DEF TrustTag
<1>4. CASE CtrBatch \/ CtrBlock
  <2>1. \E n \in Nat \ {0} : pos % BlockSize = 0 /\ pos + n <= DataLen /\ CtrApply(n)
    BY <1>4, StretchFits
  <2>2. pc = "ctr"
    BY <1>4 DEF CtrBatch, CtrBlock
  <2> QED BY <2>1, <2>2, Stretch
<1>5. CASE Refuse \/ Begin \/ SealDone \/ Accept \/ Reject
  BY <1>1, <1>5 DEF Refuse, Begin, SealDone, Accept, Reject, Return
<1>6. ASSUME NEW r \in Requests, Call(r) PROVE PassInPlace'
  BY <1>1, <1>6 DEF Call
<1>7. CASE UNCHANGED vars
  BY <1>7, InPlacePass DEF vars, pass
<1>8. CASE Step
  BY <1>2, <1>3, <1>4, <1>5, <1>8 DEF Step
<1> QED BY <1>6, <1>7, <1>8 DEF Next, Returned

-----------------------------------------------------------------------------
(* Every variable keeps its type. *)

Word == 0 .. CtrMod - 1

LEMMA InitialTypes == Init => TypeOK
<1>1. CtrMod \in Nat \ {0} /\ MAX_SIV_LEN \in Nat
  <2>1. CtrMod \in Nat \ {0} /\ BlockSize \in Nat
    BY AlgebraAssumption
  <2> QED BY <2>1, Distribute DEF MAX_SIV_LEN
<1>2. <<>> \in Seq(Word)
  BY EmptySeq
<1> QED BY <1>1, <1>2 DEF Init, TypeOK, Result, NoBlock, Word

(* In the pass, the block is the tag's, and the counter words are words.    *)
LEMMA PassTypes ==
  ASSUME TagsHaveWords, Inductive', PassInPlace', TypeOK, pc' = "ctr",
         UNCHANGED <<request, answer>>, UNCHANGED tag \/ tag' = First(request)
  PROVE  TypeOK'
<1>1. /\ WellFormed(request') /\ Passes(request') /\ HasWord(request')
      /\ pos' \in 0 .. Len(request'.data) /\ used' \in Seq(Word)
      /\ block' = BlockPast(request', pos')
  BY InPlacePass DEF Inductive, CtrShape, DataLen, Word
<1>2. Len(request.data) \in Nat /\ Len(request.data) <= MAX_SIV_LEN /\ MAX_SIV_LEN \in Nat
  BY <1>1, WithinLimit DEF DataLen
<1>3. First(request).word \in Word /\ CtrMod \in Nat \ {0}
  <2>1. Opens(request) => request.complete
    BY <1>1, InputAccepted
  <2> QED BY <1>1, <2>1, FirstWord, AlgebraAssumption DEF Word
<1>4. block'.word \in Word
  <2> DEFINE f == First(request)
             x == f.word + BlocksIn(pos')
  <2>1. BlocksIn(pos') \in Nat
    BY <1>1, <1>2, BlocksOf
  <2>2. x \in Nat
    BY <1>3, <2>1 DEF Word
  <2>3. block'.word = x % CtrMod
    BY <1>1 DEF BlockPast
  <2> HIDE DEF x
  <2> QED BY <1>3, <2>2, <2>3, DivMod DEF Word
<1>5. pos' \in 0 .. MAX_SIV_LEN
  BY <1>1, <1>2
<1> QED BY <1>1, <1>3, <1>4, <1>5 DEF TypeOK, Word

LEMMA TypeStep ==
  ASSUME TagsHaveWords, Inductive, Inductive', PassInPlace, PassInPlace', TypeOK, [Next]_vars
  PROVE  TypeOK'
<1>1. ASSUME NEW r \in Requests, Call(r) PROVE TypeOK'
  <2>1. r.op \in SivOps
    BY RequestsAssumption
  <2> QED BY <1>1, <2>1 DEF Call, Result, pass, TypeOK
<1>2. CASE Refuse
  BY <1>2 DEF Refuse, pass, Result, TypeOK
<1>3. CASE Begin
  BY <1>3 DEF Begin, pass, TypeOK
<1>4. CASE HashPlaintext
  <2>1. pc' = "ctr" /\ UNCHANGED <<request, answer>> /\ ~Opens(request')
    BY <1>4 DEF HashPlaintext, StartCtr
  <2> QED BY <2>1, InPlacePass, PassTypes
<1>5. CASE TrustTag
  BY <1>5, PassTypes DEF TrustTag, StartCtr
<1>6. CASE CtrBatch \/ CtrBlock
  <2>1. pc' = "ctr" /\ UNCHANGED <<request, answer, tag>>
    BY <1>6 DEF CtrBatch, CtrBlock, CtrApply
  <2> QED BY <2>1, PassTypes
<1>7. CASE SealDone \/ Accept \/ Reject
  BY <1>7 DEF SealDone, Accept, Reject, Return, Result, Errors, pass, TypeOK
<1>8. CASE UNCHANGED vars
  BY <1>8 DEF vars, pass, TypeOK
<1>9. CASE Step
  BY <1>2, <1>3, <1>4, <1>5, <1>6, <1>7, <1>9 DEF Step
<1> QED BY <1>1, <1>8, <1>9 DEF Next, Returned

-----------------------------------------------------------------------------
(* The invariants. *)

(* While a call makes its pass, the counter words it has used follow one    *)
(* another from the tag's, and the counter block holds the next one         *)
(* (increment_siv_counter, ctr_apply).                                      *)
THEOREM InductiveHolds == TagsHaveWords => (Spec => []Inductive)
<1>1. ASSUME TagsHaveWords PROVE Spec => []Inductive
  <2>1. Inductive /\ [Next]_vars => Inductive'
    BY <1>1, StepKeeps
  <2> QED BY <2>1, InitialInductive, PTL DEF Spec
<1> QED BY <1>1

(* No counter block of a call masks two blocks of its message, from any     *)
(* first word that a tag gives, genuine or not, and up to the longest       *)
(* message (validate_siv_lengths, MAX_SIV_LEN).                             *)
THEOREM KeystreamFreshHolds == TagsHaveWords => (Spec => []KeystreamFresh)
<1>1. Inductive => KeystreamFresh
  BY ShapeFresh, WithinLimit DEF Inductive
<1>2. ASSUME TagsHaveWords PROVE Spec => []KeystreamFresh
  <2>1. Spec => []Inductive
    BY <1>2, InductiveHolds
  <2> QED BY <1>1, <2>1, PTL
<1> QED BY <1>2

(* Whatever stretch of the message a pass has done, the counter block is    *)
(* the tag's, as many blocks on, and the buffer holds the scheme's text up  *)
(* to there and the message beyond; a seal's tag is RFC 8452's, of the      *)
(* plaintext that counter mode is overwriting (siv_seal, siv_open,          *)
(* ctr_apply).                                                              *)
THEOREM PassInPlaceHolds == TagsHaveWords => (Spec => []PassInPlace)
<1>1. ASSUME TagsHaveWords PROVE Spec => []PassInPlace
  <2>1. Init => PassInPlace
    BY DEF Init, PassInPlace
  <2>2. Inductive /\ PassInPlace /\ [Next]_vars => PassInPlace'
    BY <1>1, PassStep
  <2>3. Spec => []Inductive
    BY <1>1, InductiveHolds
  <2> QED BY <2>1, <2>2, <2>3, PTL DEF Spec
<1> QED BY <1>1

(* Every variable keeps its type: a counter word stays within its width,    *)
(* and no pass goes beyond the longest message.                             *)
THEOREM TypesHold == TagsHaveWords => (Spec => []TypeOK)
<1>1. ASSUME TagsHaveWords PROVE Spec => []TypeOK
  <2>1. Inductive /\ Inductive' /\ PassInPlace /\ PassInPlace' /\ TypeOK /\ [Next]_vars => TypeOK'
    BY <1>1, TypeStep
  <2>2. Spec => []Inductive /\ []PassInPlace
    BY <1>1, InductiveHolds, PassInPlaceHolds
  <2> QED BY <2>1, <2>2, InitialTypes, PTL DEF Spec
<1> QED BY <1>1

-----------------------------------------------------------------------------
(* What the caller was promised. *)

(* The calls of the promise are the calls of the implementation.            *)
LEMMA SameCalls ==
  /\ \A r : Promise!Opens(r) = Opens(r) /\ Promise!Initial(r) = Initial(r)
            /\ Promise!Complaints(r) = Complaints(r)
  /\ \A r, m : Promise!Trailer(r, m) = Trailer(r, m)
  /\ \A b, s : Promise!Overwrite(b, s) = Over(b, s)
  /\ \A n : Promise!ZeroBytes(n) = ZeroBytes(n)
  /\ \A s, t : Promise!Result(s, t) = Result(s, t)
<1>1. \A n : Promise!ZeroBytes(n) = ZeroBytes(n)
  BY DEF Promise!ZeroBytes, ZeroBytes
<1>2. \A w, v, n : Promise!Spread(w, v, n) = Spread(w, v, n)
  BY DEF Promise!Spread, Spread
<1>3. /\ Promise!SealOp = SealOp /\ Promise!OpenOp = OpenOp /\ Promise!InPlaceOp = InPlaceOp
      /\ Promise!CallerBufferOp = CallerBufferOp /\ Promise!AppendsNonce = AppendsNonce
      /\ Promise!Detached = Detached /\ Promise!Errors = Errors
  BY DEF Promise!SealOp, Promise!OpenOp, Promise!InPlaceOp, Promise!CallerBufferOp,
         Promise!AppendsNonce, Promise!Detached, Promise!Errors,
         SealOp, OpenOp, InPlaceOp, CallerBufferOp, AppendsNonce, Detached, Errors
<1>4. \A r : Promise!Opens(r) = Opens(r) /\ Promise!InPlace(r) = InPlace(r)
  BY <1>3 DEF Promise!Opens, Opens, Promise!InPlace, InPlace
<1>5. \A r : Promise!Initial(r) = Initial(r)
  BY <1>1, <1>2, <1>3, <1>4 DEF Promise!Initial, Initial
<1>6. \A r, m : Promise!Trailer(r, m) = Trailer(r, m)
  BY <1>2, <1>3 DEF Promise!Trailer, Trailer
<1>7. \A r : Promise!Needed(r) = Needed(r)
  BY <1>6 DEF Promise!Needed, Needed
<1>8. \A r, e : Promise!Complains(r, e) = Complains(r, e)
  BY <1>3, <1>7 DEF Promise!Complains, Complains
<1>9. \A r : Promise!Complaints(r) = Complaints(r)
  BY <1>3, <1>8 DEF Promise!Complaints, Complaints
<1>10. \A b, s : Promise!Overwrite(b, s) = Over(b, s)
  BY DEF Promise!Overwrite, Over
<1>11. \A s, t : Promise!Result(s, t) = Result(s, t)
  BY DEF Promise!Result, Result
<1> QED BY <1>1, <1>4, <1>5, <1>6, <1>9, <1>10, <1>11

(* The checks are all there is to complain of, in some order.               *)
LEMMA NoComplaints ==
  ASSUME NEW r, Passes(r)
  PROVE  Complaints(r) = {}
<1> SUFFICES ASSUME NEW e \in Errors, Complains(r, e) PROVE FALSE
  BY DEF Complaints
<1>1. \A i \in 1 .. Len(Checks(r)) : ~Complains(r, Checks(r)[i])
  BY DEF Passes, PassesUpTo
<1>2. /\ ~Complains(r, "InvalidNonceLength") /\ ~Complains(r, "InputTooLarge")
      /\ ~Complains(r, "OutputTooSmall")
      /\ r.op \in {"decrypt_envelope", "decrypt_envelope_to"} =>
           ~Complains(r, "CiphertextTooShort")
      /\ r.op \notin {"encrypt_nonce_appended_to", "decrypt_envelope", "decrypt_envelope_to"} =>
           ~Complains(r, "Decrypt")
  BY <1>1, ChecksAre
<1>3. e = "CiphertextTooShort" \/ e = "Decrypt"
  BY <1>2 DEF Errors
<1>4. CASE e = "CiphertextTooShort"
  <2>1. r.op \in {"decrypt_envelope", "decrypt_envelope_to"}
    BY <1>4 DEF Complains
  <2> QED BY <1>2, <1>4, <2>1
<1>5. CASE e = "Decrypt"
  <2>1. r.op \in OpenOp \ {"decrypt_envelope", "decrypt_envelope_to"}
    BY <1>5 DEF Complains
  <2>2. r.op \notin {"encrypt_nonce_appended_to", "decrypt_envelope", "decrypt_envelope_to"}
    BY <2>1 DEF OpenOp
  <2> QED BY <1>2, <1>5, <2>2
<1> QED BY <1>3, <1>4, <1>5

LEMMA RefusalComplains ==
  ASSUME NEW r, NEW e \in Errors, RefusedFor(r, e)
  PROVE  e \in Complaints(r)
BY DEF RefusedFor, Complaints

(* At the end the message has become the scheme's text.                     *)
LEMMA AtTheEnd ==
  ASSUME Inductive, PassInPlace, AtEnd
  PROVE  /\ buffer = Over(Initial(request), MsgText(request))
         /\ Message = MsgText(request)
         /\ Opens(request) \/ tag = First(request)
<1> DEFINE d == request.data
           t == MsgText(request)
           N == Len(d)
<1>1. /\ WellFormed(request) /\ Passes(request) /\ pos = N
      /\ buffer = BufferAt(request, pos) /\ (Opens(request) \/ tag = First(request))
  BY InPlacePass, DataLenType DEF Inductive, CtrShape, AtEnd, Left, DataLen
<1>2. PICK S : StringsIn(S, request)
  BY <1>1, Strings
<1>3. t \in Seq(S) /\ d \in Seq(S) /\ N \in Nat /\ Len(t) = N
  BY <1>2 DEF StringsIn
<1>4. MessageAt(request, N) = t
  <2>1. SubSeq(d, N + 1, N) = <<>> /\ SubSeq(t, 1, N) = t
    BY <1>3, SubSeqEmpty, SubSeqFull, N < N + 1
  <2>2. t \o <<>> = t
    BY <1>3, ConcatEmptySeq
  <2> QED BY <2>1, <2>2 DEF MessageAt
<1>5. buffer = Over(Initial(request), t)
  BY <1>1, <1>4 DEF BufferAt
<1>6. /\ buffer \in Seq(S) /\ N <= Len(buffer)
      /\ \A i \in 1 .. Len(buffer) : i <= N => buffer[i] = t[i]
  <2> HIDE DEF t
  <2>1. N \in 0 .. N
    BY <1>3
  <2> QED BY <1>1, <1>2, <2>1, BufferBytes DEF t
<1> HIDE DEF t, d, N
<1> DEFINE z == 0
<1>7. z \in Nat /\ z + 1 = 1 /\ z <= N
  BY <1>3
<1>8. \A i \in z + 1 .. N : buffer[i] = t[i]
  BY <1>3, <1>6, LenProperties
<1> HIDE DEF z
<1>9. SubSeq(buffer, z + 1, N) = SubSeq(t, z + 1, N)
  BY <1>3, <1>6, <1>7, <1>8, SameSubSeq
<1>10. SubSeq(t, 1, N) = t
  BY <1>3, SubSeqFull
<1>11. Message = t
  BY <1>7, <1>9, <1>10 DEF Message, DataLen, N, d
<1> QED BY <1>1, <1>5, <1>11 DEF t

(* Written over again, the buffer is what it would be had it been written   *)
(* over once.                                                               *)
LEMMA WrittenOver ==
  ASSUME WellFormed(request), Passes(request), NEW s, IsSlice(s), DataLen <= Len(s)
  PROVE  Over(Over(Initial(request), MsgText(request)), s) = Over(Initial(request), s)
<1> DEFINE b == Initial(request)
           t == MsgText(request)
           B == {s[i] : i \in DOMAIN s}
<1>1. PICK S : StringsIn(S, request)
  BY Strings
<1>2. /\ t \in Seq(S) /\ b \in Seq(S) /\ Len(t) = DataLen /\ DataLen <= Len(b)
      /\ s \in Seq(B)
  BY <1>1, Room DEF StringsIn, DataLen, IsSlice
<1> HIDE DEF b, t, B
<1>3. t \in Seq(S \cup B) /\ b \in Seq(S \cup B) /\ s \in Seq(S \cup B)
  BY <1>2, Widen
<1>4. Over(Over(b, t), s) = Over(b, s)
  BY <1>2, <1>3, OverTwice
<1> QED BY <1>4 DEF b, t

LEMMA TextAndTrailer ==
  ASSUME WellFormed(request), NEW made
  PROVE  LET s == MsgText(request) \o Trailer(request, made)
         IN IsSlice(s) /\ DataLen <= Len(s)
<1> DEFINE t == MsgText(request)
           u == Trailer(request, made)
           A == {t[i] : i \in DOMAIN t}
           B == {u[i] : i \in DOMAIN u}
<1>1. t \in Seq(A) /\ Len(t) = DataLen /\ DataLen \in Nat /\ u \in Seq(B)
  BY MsgTextType, TrailerType DEF IsSlice, DataLen
<1> HIDE DEF t, u, A, B
<1>2. IsSlice(t \o u)
  BY <1>1, JoinSlices
<1>3. Len(t \o u) = Len(t) + Len(u) /\ Len(u) \in Nat
  <2> DEFINE C == A \cup B
  <2>1. t \in Seq(C) /\ u \in Seq(C)
    BY <1>1, Widen
  <2> HIDE DEF C
  <2> QED BY <2>1, ConcatProperties, LenProperties
<1> QED BY <1>1, <1>2, <1>3 DEF t, u

(* What the caller sees: nothing has happened to its buffer until a call    *)
(* returns.                                                                 *)
Visible == IF answer.status = "pending" THEN Initial(request) ELSE buffer

LEMMA InitialMaps == Init => Promise!Init
BY SameCalls DEF Init, Promise!Init, Result

LEMMA CallMaps ==
  ASSUME Inductive, NEW r \in Requests, Call(r)
  PROVE  Promise!Next
<1>1. /\ answer.status # "pending" /\ answer' = Result("pending", NoTag)
      /\ answer'.status = "pending"
  BY DEF Call, Inductive, Result
<1>2. Promise!Ask
  BY <1>1, SameCalls DEF Promise!Ask
<1> QED BY <1>2 DEF Promise!Next

LEMMA RefuseMaps ==
  ASSUME Inductive, Refuse
  PROVE  Promise!Next
<1>1. PICK e \in Errors : RefusedFor(request, e) /\ answer' = Result(e, NoTag)
  BY DEF Refuse
<1>2. e \in Complaints(request) /\ e # "pending"
  BY RefusalComplains, <1>1 DEF Errors
<1>3. /\ answer.status = "pending" /\ answer'.status # "pending"
      /\ buffer' = Initial(request) /\ request' = request
  BY <1>1, <1>2 DEF Refuse, Inductive, Result
<1>4. Promise!Complain
  BY <1>1, <1>2, <1>3, SameCalls DEF Promise!Complain
<1> QED BY <1>4 DEF Promise!Next

LEMMA SealMaps ==
  ASSUME Inductive, PassInPlace, SealDone
  PROVE  Promise!Next
<1> DEFINE t == MsgText(request)
           made == First(request)
           out == t \o Trailer(request, made)
<1>1. /\ WellFormed(request) /\ Passes(request) /\ answer.status = "pending" /\ ~Opens(request)
  BY DEF SealDone, AtEnd, Inductive
<1>2. tag = made /\ Message = t /\ buffer = Over(Initial(request), t)
  BY <1>1, AtTheEnd DEF SealDone
<1>3. buffer' = Over(buffer, out) /\ answer' = Result("Ok", made) /\ request' = request
  BY <1>2, OverwriteIsOver DEF SealDone, Return
<1>4. buffer' = Over(Initial(request), out)
  BY <1>1, <1>2, <1>3, TextAndTrailer, WrittenOver
<1>5. /\ SivSeal(request.nonce, request.aad, request.data).text = t
      /\ SivSeal(request.nonce, request.aad, request.data).tag = made
  BY <1>1 DEF SivSeal, MsgText, First
<1> HIDE DEF t, made
<1>6. Promise!TagMade(request) = made /\ Promise!Text(request) = t
  BY <1>1, <1>5, SameCalls DEF Promise!TagMade, Promise!Text
<1>7. Promise!Expected(request) = Over(Initial(request), out)
  BY <1>6, SameCalls DEF Promise!Expected
<1>8. Promise!Acceptable(request)
  BY <1>1, NoComplaints, SameCalls DEF Promise!Acceptable, Promise!Authentic
<1>9. answer'.status # "pending"
  BY <1>3 DEF Result
<1>10. Promise!Succeed
  BY <1>1, <1>3, <1>4, <1>6, <1>7, <1>8, <1>9, SameCalls DEF Promise!Succeed
<1> QED BY <1>10 DEF Promise!Next

(* What SivOpen says of the call's ciphertext and tag is what the call finds*)
(* when it recomputes the tag from the plaintext.                           *)
LEMMA OpenSays ==
  ASSUME WellFormed(request), Opens(request), Message = MsgText(request)
  PROVE  LET opened == SivOpen(request.nonce, request.aad, request.data, request.tag)
         IN /\ opened.text = MsgText(request)
            /\ opened.authentic = (request.tag = Computed)
<1>1. Computed = siv_tag(request.nonce, HashOfMessage(request.aad, MsgText(request)))
  BY TagIsStandard, MsgTextType
<1>2. MsgText(request) = SivCtr(request.nonce, request.tag, request.data)
  BY DEF MsgText, First
<1> QED BY <1>1, <1>2 DEF SivOpen

LEMMA AcceptMaps ==
  ASSUME Inductive, PassInPlace, Accept
  PROVE  Promise!Next
<1> DEFINE t == MsgText(request)
<1>1. /\ WellFormed(request) /\ Passes(request) /\ answer.status = "pending" /\ Opens(request)
      /\ request.op \in OpenOp
  BY DEF Accept, AtEnd, Inductive, Opens
<1>2. Message = t /\ buffer = Over(Initial(request), t)
  BY <1>1, AtTheEnd DEF Accept
<1>3. /\ buffer' = buffer /\ answer' = Result("Ok", NoTag) /\ request' = request
      /\ Computed = request.tag
  BY DEF Accept, Return, TagsEqual
<1>4. Trailer(request, NoTag) = <<>> /\ t \o <<>> = t
  <2>1. Trailer(request, NoTag) = <<>>
    BY <1>1 DEF Trailer
  <2>2. PICK S : StringsIn(S, request)
    BY <1>1, Strings
  <2>3. t \in Seq(S)
    BY <2>2 DEF StringsIn
  <2> HIDE DEF t
  <2> QED BY <2>1, <2>3, ConcatEmptySeq
<1>5. Promise!TagMade(request) = NoTag /\ Promise!Text(request) = t
      /\ Promise!Acceptable(request)
  BY <1>1, <1>2, <1>3, OpenSays, NoComplaints, SameCalls
  DEF Promise!TagMade, Promise!Text, Promise!Acceptable, Promise!Authentic
<1> HIDE DEF t
<1>6. Promise!Expected(request) = Over(Initial(request), t)
  BY <1>4, <1>5, SameCalls DEF Promise!Expected
<1>7. answer'.status # "pending"
  BY <1>3 DEF Result
<1>8. Promise!Succeed
  BY <1>1, <1>2, <1>3, <1>5, <1>6, <1>7, SameCalls DEF Promise!Succeed
<1> QED BY <1>8 DEF Promise!Next

LEMMA RejectMaps ==
  ASSUME Inductive, PassInPlace, Reject
  PROVE  Promise!Next
<1> DEFINE t == MsgText(request)
           zeros == ZeroBytes(DataLen)
<1>1. /\ WellFormed(request) /\ Passes(request) /\ answer.status = "pending" /\ Opens(request)
  BY DEF Reject, AtEnd, Inductive
<1>2. Message = t /\ buffer = Over(Initial(request), t)
  BY <1>1, AtTheEnd DEF Reject
<1>3. /\ buffer' = Over(buffer, zeros) /\ answer' = Result("Decrypt", NoTag)
      /\ request' = request /\ Computed # request.tag
  BY OverwriteIsOver DEF Reject, Return, TagsEqual
<1>4. IsSlice(zeros) /\ DataLen <= Len(zeros)
  BY <1>1, DataLenType, ZeroType
<1> HIDE DEF zeros
<1>5. buffer' = Over(Initial(request), zeros)
  BY <1>1, <1>2, <1>3, <1>4, WrittenOver
<1>6. Promise!Complaints(request) = {} /\ ~Promise!Authentic(request)
  BY <1>1, <1>2, <1>3, OpenSays, NoComplaints, SameCalls DEF Promise!Authentic
<1>7. answer'.status # "pending"
  BY <1>3 DEF Result
<1>8. Promise!Wiped(request, Initial(request)) = Over(Initial(request), zeros)
  BY SameCalls DEF Promise!Wiped, zeros, DataLen
<1>9. Promise!Reject
  BY <1>1, <1>3, <1>5, <1>6, <1>7, <1>8, SameCalls DEF Promise!Reject
<1> QED BY <1>9 DEF Promise!Next

(* Everything between the call and its return is invisible.                 *)
LEMMA StepMaps ==
  Inductive /\ PassInPlace /\ [Next]_vars =>
    [Promise!Next]_<<request, answer, Visible>>
<1> SUFFICES ASSUME Inductive, PassInPlace, [Next]_vars
             PROVE  Promise!Next \/ UNCHANGED <<request, answer, Visible>>
  OBVIOUS
<1>1. CASE Begin \/ HashPlaintext \/ TrustTag \/ CtrBatch \/ CtrBlock
  <2>1. pc # "idle" /\ UNCHANGED <<request, answer>>
    BY <1>1 DEF Begin, HashPlaintext, TrustTag, CtrBatch, CtrBlock, CtrApply
  <2>2. answer.status = "pending"
    BY <2>1 DEF Inductive
  <2> QED BY <2>1, <2>2 DEF Visible
<1>2. CASE Refuse \/ SealDone \/ Accept \/ Reject
  BY <1>2, RefuseMaps, SealMaps, AcceptMaps, RejectMaps
<1>3. CASE Step
  BY <1>1, <1>2, <1>3 DEF Step
<1>4. CASE \E r \in Requests : Call(r)
  BY <1>4, CallMaps
<1>5. CASE UNCHANGED vars
  BY <1>5 DEF vars, Visible
<1> QED BY <1>3, <1>4, <1>5 DEF Next, Returned

(* The call implements its promise: whatever the message, the associated    *)
(* data, the operation, the buffer and the tag it is given, what it returns *)
(* is RFC 8452's ciphertext and tag, or its plaintext if the tag is the one *)
(* RFC 8452 computes from that plaintext; a refused call has left its       *)
(* buffer alone, and a rejected one holds zeros where the plaintext was     *)
(* (siv_seal, siv_open and the methods of Aes256GcmSiv).                    *)
THEOREM PromiseKept == TagsHaveWords => (Spec => KeepsPromise)
<1>1. ASSUME TagsHaveWords PROVE Spec => KeepsPromise
  <2>1. Inductive /\ PassInPlace /\ [Next]_vars =>
          [Promise!Next]_<<request, answer,
                           IF answer.status = "pending" THEN Initial(request) ELSE buffer>>
    BY StepMaps DEF Visible
  <2>2. Spec => []Inductive /\ []PassInPlace
    BY <1>1, InductiveHolds, PassInPlaceHolds
  <2> QED BY <2>1, <2>2, InitialMaps, PTL DEF Spec, KeepsPromise, Promise!Spec
<1> QED BY <1>1
=============================================================================
