---------------------------- MODULE GcmCallProofs ----------------------------
(***************************************************************************)
(* An AES-256-GCM call keeps the promise of Aead, and no counter block of  *)
(* it serves twice: the proof, for every block size, counter width,        *)
(* message and operation.  Inductive says which counter words are used,    *)
(* HashKeepsUp that hash and buffer are the scheme's as far as the pass    *)
(* has come; with the two and AggregationIsStandard the answers are the    *)
(* scheme's.                                                               *)
(***************************************************************************)
EXTENDS GcmCall, AlgebraProofs

-----------------------------------------------------------------------------
(* A stretch of counter mode. *)

LEMMA ProcessShape ==
  ASSUME PassShape, NEW k \in Nat, pos = k * BlockSize,
         NEW n \in Nat \ {0}, pos + n <= DataLen, DataLen \in Nat, Process(n)
  PROVE  /\ pos' = pos + n
         /\ counter' = (FirstCounter + 1 + BlocksIn(pos + n)) % CtrMod
         /\ used' = FirstCounter + 1 .. FirstCounter + BlocksIn(pos + n)
         /\ ~reused'
<1> DEFINE b == BlocksIn(n)
           M == CtrMod
           drawn == {CounterAfter(i) : i \in 0 .. b - 1}
<1>1. BlockSize \in Nat \ {0} /\ M \in Nat \ {0} /\ M >= 2 /\ M - 2 \in Nat
  BY AlgebraAssumption
<1>2. b \in Nat /\ n <= b * BlockSize /\ b * BlockSize < n + BlockSize
  BY BlocksOf
<1>3. BlocksIn(pos) = k /\ BlocksIn(pos + n) = k + b /\ pos \in Nat
  <2>1. BlocksIn(k * BlockSize + 0) = k + BlocksIn(0) /\ k * BlockSize \in Nat
    BY BlocksAfter
  <2> QED BY <2>1, NoBlocks, BlocksAfter
<1>4. /\ pos' = pos + n /\ counter' = CounterAfter(b)
      /\ used' = used \cup drawn /\ reused' = (reused \/ used \cap drawn # {})
  BY DEF Process
<1>5. /\ counter = (k + 2) % M /\ used = 2 .. k + 1 /\ ~reused
      /\ DataLen <= (M - 2) * BlockSize
  <2>1. FirstCounter + 1 + BlocksIn(pos) = k + 2 /\ FirstCounter + BlocksIn(pos) = k + 1
        /\ FirstCounter + 1 = 2
    BY <1>3 DEF FirstCounter
  <2> QED BY <2>1 DEF PassShape, MAX_GCM_DATA_LEN
<1>6. \A i : CounterAfter(i) = (counter + i) % M
  BY DEF CounterAfter
<1> HIDE DEF b, M
<1>7. b >= 1
  <2>1. CASE b = 0
    BY <1>1, <1>2, <2>1
  <2> QED BY <1>2, <2>1
<1>8. k + b <= M - 2
  <2>1. (k + b) * BlockSize = pos + b * BlockSize /\ b * BlockSize \in Nat
    BY <1>1, <1>2, Distribute
  <2>2. (M - 2 + 1) * BlockSize = (M - 2) * BlockSize + BlockSize /\ (M - 2) * BlockSize \in Nat
    BY <1>1, Distribute
  <2>3. (k + b) * BlockSize < (M - 2 + 1) * BlockSize
    BY <1>1, <1>2, <1>3, <1>5, <2>1, <2>2
  <2> QED BY <1>1, <1>2, <2>3, Cancel
<1>9. counter = k + 2
  <2>1. k + 2 \in Nat /\ k + 2 < M
    BY <1>1, <1>2, <1>7, <1>8
  <2>2. (k + 2) % M = k + 2
    BY <1>1, <2>1, SmallMod
  <2> QED BY <1>5, <2>2
<1>10. ASSUME NEW i \in 0 .. b - 1 PROVE CounterAfter(i) = k + 2 + i
  <2>1. k + 2 + i \in Nat /\ k + 2 + i < M
    BY <1>1, <1>2, <1>8
  <2> QED BY <1>1, <1>6, <1>9, <2>1, SmallMod
<1>11. drawn = k + 2 .. k + b + 1
  <2>1. ASSUME NEW x \in k + 2 .. k + b + 1 PROVE x \in drawn
    <3>1. x - (k + 2) \in 0 .. b - 1 /\ x = k + 2 + (x - (k + 2))
      BY <1>2
    <3> QED BY <1>10, <3>1
  <2>2. ASSUME NEW i \in 0 .. b - 1 PROVE CounterAfter(i) \in k + 2 .. k + b + 1
    <3>1. k + 2 + i \in k + 2 .. k + b + 1
      BY <1>2
    <3> QED BY <1>10, <3>1
  <2> QED BY <2>1, <2>2
<1> HIDE DEF drawn
<1>12. used' = 2 .. k + b + 1 /\ ~reused'
  <2>1. (2 .. k + 1) \cap (k + 2 .. k + b + 1) = {}
    OBVIOUS
  <2>2. (2 .. k + 1) \cup (k + 2 .. k + b + 1) = 2 .. k + b + 1
    BY <1>2
  <2>3. used \cap drawn = {} /\ used' = 2 .. k + b + 1
    BY <1>4, <1>5, <1>11, <2>1, <2>2
  <2> QED BY <1>4, <1>5, <2>3
<1>13. counter' = (k + 2 + b) % M
  BY <1>4, <1>6, <1>9
<1>14. FirstCounter + 1 + BlocksIn(pos + n) = k + 2 + b /\ FirstCounter + 1 = 2
       /\ FirstCounter + BlocksIn(pos + n) = k + b + 1
  BY <1>2, <1>3 DEF FirstCounter
<1> QED BY <1>4, <1>12, <1>13, <1>14 DEF M

-----------------------------------------------------------------------------
(* Every step keeps the invariant. *)

(* What the counters are when whole blocks, or all of the message, are done.*)
LEMMA Advanced ==
  ASSUME PassShape, pos % BlockSize = 0, DataLen \in Nat,
         NEW n \in Nat \ {0}, pos + n <= DataLen,
         pos + n = DataLen \/ (pos + n) % BlockSize = 0,
         Process(n), UNCHANGED request
  PROVE  /\ PassShape' /\ KeystreamFresh' /\ pos' = pos + n
<1>1. BlockSize \in Nat \ {0} /\ pos \in Nat
  BY AlgebraAssumption DEF PassShape
<1>2. pos \div BlockSize \in Nat /\ pos = (pos \div BlockSize) * BlockSize
  BY <1>1, WholeMultiple
<1>3. /\ pos' = pos + n
      /\ counter' = (FirstCounter + 1 + BlocksIn(pos + n)) % CtrMod
      /\ used' = FirstCounter + 1 .. FirstCounter + BlocksIn(pos + n)
      /\ ~reused'
  BY <1>2, ProcessShape
<1>4. DataLen' = DataLen
  BY DEF DataLen
<1>5. BlocksIn(pos + n) \in Nat
  BY <1>1, BlocksOf
<1>6. FirstCounter \notin used'
  BY <1>3, <1>5 DEF FirstCounter
<1> QED BY <1>1, <1>3, <1>4, <1>6 DEF PassShape, KeystreamFresh

LEMMA BatchSize == BatchLen = 8 * BlockSize /\ BatchLen \in Nat \ {0}
<1>1. BlockSize \in Nat \ {0}
  BY AlgebraAssumption
<1>2. KEY_POWERS = 8
  BY DEF KEY_POWERS, h_pows
<1> QED BY <1>1, <1>2 DEF BatchLen

(* A whole batch fits in the bulk of the message, and is whole blocks.      *)
LEMMA BatchFits ==
  ASSUME DataLen \in Nat, pos \in Nat, pos < BulkLen, pos % BatchLen = 0
  PROVE  /\ pos % BlockSize = 0 /\ (pos + BatchLen) % BlockSize = 0
         /\ (pos + BatchLen) % BatchLen = 0
         /\ pos + BatchLen <= BulkLen /\ BulkLen <= DataLen
<1> DEFINE B == BatchLen
<1>1. B = 8 * BlockSize /\ B \in Nat \ {0} /\ BlockSize \in Nat \ {0}
  BY BatchSize, AlgebraAssumption
<1>0. pos % B = 0 /\ BulkLen = (DataLen \div B) * B
  BY DEF BulkLen
<1> HIDE DEF B
<1> DEFINE q == pos \div B
           all == DataLen \div B
<1>2. q \in Nat /\ pos = q * B
  BY <1>0, <1>1, WholeMultiple
<1>3. all \in Nat /\ all * B \in Nat /\ all * B <= DataLen /\ BulkLen = all * B
  <2>0. B \in Nat \ {0}
    BY <1>1
  <2>1. all \in Nat /\ DataLen % B \in 0 .. B - 1 /\ DataLen = all * B + (DataLen % B)
    BY <2>0, DivMod
  <2> HIDE DEF all
  <2>2. all * B \in Nat
    BY <2>0, <2>1, Distribute
  <2>3. all * B <= DataLen
    BY <2>1, <2>2
  <2> QED BY <1>0, <2>1, <2>2, <2>3 DEF all
<1> HIDE DEF q, all
<1>4. (q + 1) * B = pos + B /\ q + 1 \in Nat
  BY <1>1, <1>2, Distribute
<1>5. q + 1 <= all
  <2>1. CASE all <= q
    <3>1. all * B <= q * B
      BY <1>1, <1>2, <1>3, <2>1, Monotone
    <3> QED BY <1>2, <1>3, <3>1
  <2> QED BY <1>2, <1>3, <2>1
<1>6. pos + B <= BulkLen /\ BulkLen <= DataLen
  BY <1>1, <1>3, <1>4, <1>5, Monotone
<1>7. (pos + B) % B = 0
  <2>1. ((q + 1) * B) % B = 0
    BY <1>1, <1>4, MultipleMod
  <2> QED BY <1>4, <2>1
<1>8. ASSUME NEW m \in Nat PROVE (m * B) % BlockSize = 0
  <2>1. m * B = (8 * m) * BlockSize /\ 8 * m \in Nat
    BY <1>1
  <2> QED BY <1>1, <2>1, MultipleMod
<1>9. pos % BlockSize = 0 /\ (pos + B) % BlockSize = 0
  <2>1. (q * B) % BlockSize = 0 /\ ((q + 1) * B) % BlockSize = 0
    BY <1>2, <1>4, <1>8
  <2> QED BY <1>2, <1>4, <2>1
<1> QED BY <1>6, <1>7, <1>9 DEF B

(* Every operation checks the lengths and, where a caller gives the buffer, *)
(* the room; every open, that the input is complete.                        *)
LEMMA ChecksAre ==
  ASSUME NEW r
  PROVE  LET Checked(e) == \E i \in 1 .. Len(Checks(r)) : Checks(r)[i] = e
         IN /\ Len(Checks(r)) \in Nat /\ DOMAIN Checks(r) = 1 .. Len(Checks(r))
            /\ \A i \in 1 .. Len(Checks(r)) : Checks(r)[i] \in Errors
            /\ Checked("InvalidNonceLength") /\ Checked("InputTooLarge")
            /\ Checked("OutputTooSmall")
            /\ r.op \in {"decrypt_envelope", "decrypt_envelope_to"} => Checked("CiphertextTooShort")
            /\ r.op \notin {"encrypt_nonce_appended_to", "decrypt_envelope",
                            "decrypt_envelope_to"} => Checked("Decrypt")
<1>1. CASE r.op = "encrypt_nonce_appended_to"
  <2>1. Checks(r) = <<"OutputTooSmall", "InvalidNonceLength", "InputTooLarge">>
    BY <1>1 DEF Checks
  <2> QED BY <1>1, <2>1 DEF Errors
<1>2. CASE r.op \in {"decrypt_envelope", "decrypt_envelope_to"}
  <2>1. Checks(r) =
          <<"CiphertextTooShort", "InvalidNonceLength", "InputTooLarge", "OutputTooSmall">>
    BY <1>2 DEF Checks
  <2> QED BY <1>2, <2>1 DEF Errors
<1>3. CASE r.op \notin {"encrypt_nonce_appended_to", "decrypt_envelope", "decrypt_envelope_to"}
  <2>1. Checks(r) = <<"InvalidNonceLength", "Decrypt", "InputTooLarge", "OutputTooSmall">>
    BY <1>3 DEF Checks
  <2> QED BY <1>3, <2>1 DEF Errors
<1> QED BY <1>1, <1>2, <1>3

LEMMA InputAccepted ==
  ASSUME Passes(request)
  PROVE  ~(DataLen > MAX_GCM_DATA_LEN)
<1>1. ~Complains(request, "InputTooLarge")
  BY ChecksAre DEF Passes, PassesUpTo
<1> QED BY <1>1 DEF Complains, DataLen

LEMMA DataLenType ==
  ASSUME WellFormed(request)
  PROVE  DataLen \in Nat
BY LenProperties DEF WellFormed, IsSlice, DataLen

(* In the stitched loop there is a whole batch left.                        *)
LEMMA BatchLeft ==
  ASSUME Inductive, pc = "bulk", pos < BulkLen
  PROVE  /\ DataLen \in Nat /\ pos \in Nat /\ BatchLen \in Nat \ {0}
         /\ pos % BlockSize = 0 /\ (pos + BatchLen) % BlockSize = 0
         /\ (pos + BatchLen) % BatchLen = 0
         /\ pos + BatchLen <= BulkLen /\ pos + BatchLen <= DataLen
<1>1. DataLen \in Nat /\ pos \in Nat /\ pos % BatchLen = 0
  BY DataLenType DEF Inductive, PassShape
<1>2. /\ pos % BlockSize = 0 /\ (pos + BatchLen) % BlockSize = 0
      /\ (pos + BatchLen) % BatchLen = 0
      /\ pos + BatchLen <= BulkLen /\ BulkLen <= DataLen
  BY <1>1, BatchFits
<1>3. BulkLen \in Nat
  <2>1. DataLen \div BatchLen \in Nat
    BY <1>1, BatchSize, DivMod
  <2> QED BY <2>1, BatchSize, Distribute DEF BulkLen
<1> QED BY <1>1, <1>2, <1>3, BatchSize

LEMMA BatchKeeps ==
  ASSUME Inductive, pc = "bulk", pos < BulkLen, Process(BatchLen),
         UNCHANGED <<request, answer, pc>>
  PROVE  Inductive'
<1>1. PassShape
  BY DEF Inductive
<1>2. PassShape' /\ KeystreamFresh' /\ pos' = pos + BatchLen
  BY <1>1, BatchLeft, Advanced
<1>3. DataLen' = DataLen /\ BulkLen' = BulkLen /\ BatchLen' = BatchLen
  BY DEF DataLen, BulkLen, BatchLen
<1> QED BY <1>2, <1>3, BatchLeft DEF Inductive

(* In the tail: whole blocks, or all that is left.                          *)
LEMMA TailKeeps ==
  ASSUME Inductive, pc = "tail", NEW n \in Nat \ {0}, pos % BlockSize = 0,
         pos + n <= DataLen, pos + n = DataLen \/ (pos + n) % BlockSize = 0,
         Process(n), UNCHANGED <<request, answer, pc, prev>>
  PROVE  Inductive'
<1>1. DataLen \in Nat /\ PassShape
  BY DataLenType DEF Inductive
<1>2. PassShape' /\ KeystreamFresh'
  BY <1>1, Advanced
<1>3. DataLen' = DataLen
  BY DEF DataLen
<1> QED BY <1>1, <1>2, <1>3 DEF Inductive

(* A width of whole blocks, out of those that are left.                     *)
LEMMA WidthFits ==
  ASSUME DataLen \in Nat, pos \in 0 .. DataLen, pos % BlockSize = 0,
         NEW w \in Nat \ {0}, w <= (DataLen - pos) \div BlockSize
  PROVE  /\ w * BlockSize \in Nat \ {0}
         /\ pos + w * BlockSize <= DataLen
         /\ (pos + w * BlockSize) % BlockSize = 0
<1> DEFINE rest == DataLen - pos
           n == rest \div BlockSize
           k == pos \div BlockSize
<1>1. BlockSize \in Nat \ {0} /\ rest \in Nat /\ pos \in Nat
  BY AlgebraAssumption
<1>2. n \in Nat /\ rest % BlockSize \in 0 .. BlockSize - 1
      /\ rest = n * BlockSize + (rest % BlockSize)
  BY <1>1, DivMod
<1>3. k \in Nat /\ pos = k * BlockSize
  BY <1>1, WholeMultiple
<1>4. w <= n
  OBVIOUS
<1> HIDE DEF n, k
<1>5. n * BlockSize \in Nat /\ n * BlockSize <= rest
  <2>1. n * BlockSize \in Nat
    BY <1>1, <1>2, Distribute
  <2> HIDE DEF rest
  <2> QED BY <1>1, <1>2, <2>1
<1>6. w * BlockSize <= n * BlockSize /\ w * BlockSize \in Nat
  BY <1>1, <1>2, <1>4, Monotone
<1>7. BlockSize <= w * BlockSize
  <2>1. 1 <= w /\ 1 * BlockSize = BlockSize
    BY <1>1
  <2> QED BY <1>1, <2>1, Monotone
<1>8. (k + w) * BlockSize = pos + w * BlockSize /\ k + w \in Nat
  BY <1>1, <1>3, Distribute
<1>9. ((k + w) * BlockSize) % BlockSize = 0
  BY <1>1, <1>8, MultipleMod
<1> QED BY <1>1, <1>5, <1>6, <1>7, <1>8, <1>9

(* Before the end of the message, the tail stands at a block boundary.      *)
LEMMA AtBoundary ==
  ASSUME Inductive, pc = "tail", pos # DataLen
  PROVE  /\ DataLen \in Nat /\ pos \in 0 .. DataLen /\ pos % BlockSize = 0
         /\ DataLen - pos \in Nat \ {0} /\ pos + (DataLen - pos) = DataLen
BY DataLenType DEF Inductive, PassShape

(* What seal_in_place_tail_blocks does next: four blocks, or one.           *)
TailOf(w) ==
  LET n == w * BlockSize IN
  /\ pc = "tail" /\ UNCHANGED <<request, answer, pc, prev>> /\ pos # DataLen
  /\ ~Opens(request) /\ Process(n)
  /\ hash' = update_blocks(hash, Blocks(NextBytes(buffer', n)))
  /\ n \in Nat \ {0} /\ pos + n <= DataLen /\ (pos + n) % BlockSize = 0 /\ BlocksIn(n) = w

LEMMA BlocksLeft ==
  ASSUME Inductive, SealTailBlocks
  PROVE  \E w \in {1, 4} : TailOf(w)
<1> DEFINE left == (DataLen - pos) \div BlockSize
           w == IF left >= 4 THEN 4 ELSE 1
<1>1. /\ pc = "tail" /\ UNCHANGED <<request, answer, pc, prev>>
      /\ left > 0 /\ Process(w * BlockSize) /\ ~Opens(request)
      /\ hash' = update_blocks(hash, Blocks(NextBytes(buffer', w * BlockSize)))
  BY DEF SealTailBlocks, InTail
<1>2. pos # DataLen
  <2>1. CASE pos = DataLen
    <3>1. BlockSize \in Nat \ {0} /\ DataLen \in Nat
      BY <1>1, AlgebraAssumption, DataLenType DEF Inductive
    <3>2. 0 * BlockSize = 0 /\ (0 + 1) * BlockSize = BlockSize /\ DataLen - pos = 0
      BY <2>1, <3>1
    <3>3. 0 \div BlockSize = 0
      BY <3>1, <3>2, Quotient
    <3> QED BY <1>1, <3>2, <3>3
  <2> QED BY <2>1
<1>3. left \in Nat
  BY <1>1, <1>2, AtBoundary, AlgebraAssumption, DivMod
<1> HIDE DEF left
<1>4. w \in Nat \ {0} /\ w <= left /\ w \in {1, 4}
  BY <1>1, <1>3
<1> HIDE DEF w
<1>5. /\ w * BlockSize \in Nat \ {0} /\ pos + w * BlockSize <= DataLen
      /\ (pos + w * BlockSize) % BlockSize = 0
  BY <1>1, <1>2, <1>4, AtBoundary, WidthFits DEF left
<1>6. BlocksIn(w * BlockSize) = w
  <2>1. BlocksIn(w * BlockSize + 0) = w + BlocksIn(0) /\ w * BlockSize \in Nat
    BY <1>4, BlocksAfter
  <2> QED BY <1>4, <2>1, NoBlocks
<1>7. TailOf(w)
  BY <1>1, <1>2, <1>5, <1>6 DEF TailOf
<1> QED BY <1>4, <1>7

LEMMA InitialInductive == Init => Inductive
BY DEF Init, Result, Inductive, KeystreamFresh, FirstCounter

LEMMA BeginKeeps ==
  ASSUME Inductive, Begin
  PROVE  Inductive'
<1>1. pos = 0 /\ used = {} /\ DataLen \in Nat /\ ~reused
  BY DataLenType DEF Begin, Inductive, KeystreamFresh
<1>2. BlockSize \in Nat \ {0} /\ CtrMod \in Nat /\ 2 <= CtrMod
  BY AlgebraAssumption
<1>3. DataLen <= MAX_GCM_DATA_LEN
  <2>1. MAX_GCM_DATA_LEN \in Nat
    <3>1. CtrMod - 2 \in Nat
      BY <1>2
    <3> QED BY <1>2, <3>1, Distribute DEF MAX_GCM_DATA_LEN
  <2>2. ~(DataLen > MAX_GCM_DATA_LEN)
    BY InputAccepted DEF Begin
  <2> QED BY <1>1, <2>1, <2>2
<1>4. /\ pos' = 0 /\ used' = {} /\ reused' = reused /\ pc' = "bulk" /\ DataLen' = DataLen
      /\ counter' = increment_counter(FirstCounter)
  BY <1>1 DEF Begin, DataLen
<1>5. 0 % BlockSize = 0 /\ 0 % BatchLen = 0
  <2>1. 0 * BlockSize = 0 /\ 0 * BatchLen = 0
    BY <1>2, BatchSize
  <2>2. (0 * BlockSize) % BlockSize = 0 /\ (0 * BatchLen) % BatchLen = 0
    BY <1>2, BatchSize, MultipleMod
  <2> QED BY <2>1, <2>2
<1>6. PassShape'
  <2>1. FirstCounter + 1 + BlocksIn(0) = FirstCounter + 1
        /\ FirstCounter + 1 .. FirstCounter + BlocksIn(0) = {}
    BY NoBlocks DEF FirstCounter
  <2> QED BY <1>1, <1>3, <1>4, <1>5, <2>1 DEF PassShape, increment_counter
<1>7. BulkLen \in Nat /\ BulkLen' = BulkLen /\ BatchLen' = BatchLen
  <2>1. DataLen \div BatchLen \in Nat
    BY <1>1, BatchSize, DivMod
  <2>2. BulkLen \in Nat
    BY <2>1, BatchSize, Distribute DEF BulkLen
  <2> QED BY <1>4, <2>2 DEF BulkLen, BatchLen
<1>8. UNCHANGED <<request, answer, buffer, prev>> /\ Passes(request) /\ pc = "check"
  BY DEF Begin
<1>9. WellFormed(request') /\ answer'.status = "pending" /\ Passes(request')
  BY <1>8 DEF Inductive
<1> QED BY <1>1, <1>4, <1>5, <1>6, <1>7, <1>9 DEF Inductive, KeystreamFresh

LEMMA StepKeeps ==
  ASSUME Inductive, [Next]_vars
  PROVE  Inductive'
<1>1. ASSUME NEW r \in Requests, Call(r) PROVE Inductive'
  BY <1>1, RequestsAssumption DEF Call, Result, Inductive, KeystreamFresh, FirstCounter
<1>2. CASE Refuse
  <2>1. pc' = "idle" /\ answer'.status # "pending" /\ UNCHANGED <<used, reused>>
    BY <1>2 DEF Refuse, pass, Result, Errors
  <2> QED BY <2>1 DEF Inductive, KeystreamFresh
<1>3. CASE Begin
  BY <1>3, BeginKeeps
<1>4. CASE SealBatch
  BY <1>4, BatchKeeps DEF SealBatch
<1>5. CASE OpenBatch
  BY <1>5, BatchKeeps DEF OpenBatch
<1>6. CASE FoldLastBatch
  <2>1. /\ pc = "bulk" /\ pc' = "tail"
        /\ UNCHANGED <<request, answer, counter, pos, used, reused>> /\ prev' = <<>>
    BY <1>6 DEF FoldLastBatch
  <2> QED BY <2>1 DEF Inductive, PassShape, KeystreamFresh, DataLen
<1>7. CASE SealTail
  <2>1. /\ pc = "tail" /\ UNCHANGED <<request, answer, pc, prev>>
        /\ DataLen - pos > 0 /\ Process(DataLen - pos)
    BY <1>7 DEF SealTail, InTail
  <2>2. pos # DataLen
    BY <2>1, DataLenType DEF Inductive, PassShape
  <2> QED BY <2>1, <2>2, AtBoundary, TailKeeps
<1>8. CASE SealTailBlocks
  <2>1. PICK w \in {1, 4} : TailOf(w)
    BY <1>8, BlocksLeft
  <2> QED BY <2>1, AtBoundary, TailKeeps DEF TailOf
<1>9. CASE SealPartial
  <2>1. /\ pc = "tail" /\ UNCHANGED <<request, answer, pc, prev>>
        /\ DataLen - pos > 0 /\ Process(DataLen - pos)
    BY <1>9 DEF SealPartial, InTail
  <2>2. pos # DataLen
    BY <2>1, DataLenType DEF Inductive, PassShape
  <2> QED BY <2>1, <2>2, AtBoundary, TailKeeps
<1>10. CASE OpenTail
  <2>1. /\ pc = "tail" /\ UNCHANGED <<request, answer, pc, prev>>
        /\ DataLen - pos > 0 /\ Process(DataLen - pos)
    BY <1>10 DEF OpenTail, InTail
  <2>2. pos # DataLen
    BY <2>1, DataLenType DEF Inductive, PassShape
  <2> QED BY <2>1, <2>2, AtBoundary, TailKeeps
<1>11. ASSUME NEW s, NEW t, Return(s, t), s # "pending" PROVE Inductive'
  <2>1. pc' = "idle" /\ answer'.status # "pending" /\ UNCHANGED <<used, reused>>
    BY <1>11 DEF Return, pass, Result
  <2> QED BY <2>1 DEF Inductive, KeystreamFresh
<1>12. CASE UNCHANGED vars
  <2>1. UNCHANGED <<request, answer, buffer, pc, counter, prev, pos, used, reused>>
    BY <1>12 DEF vars, pass
  <2> QED BY <2>1 DEF Inductive, PassShape, KeystreamFresh, DataLen, BulkLen, BatchLen
<1>13. CASE SealDone \/ Accept \/ Reject
  BY <1>11, <1>13 DEF SealDone, Accept, Reject
<1>14. CASE Step
  BY <1>2, <1>3, <1>4, <1>5, <1>6, <1>7, <1>8, <1>9, <1>10, <1>13, <1>14 DEF Step
<1>15. CASE \E r \in Requests : Call(r)
  BY <1>1, <1>15
<1> QED BY <1>12, <1>14, <1>15 DEF Next, Returned

-----------------------------------------------------------------------------
(* What a call makes of its message. *)

MsgText(r) == Gctr(r.nonce, r.data)

Ciphertext(r) == IF Opens(r) THEN r.data ELSE MsgText(r)

HashUpTo(r, p) == HashOf(Blocks(r.aad) \o Blocks(SubSeq(Ciphertext(r), 1, p)))

BufferAt(r, p) == Over(Initial(r), SubSeq(MsgText(r), 1, p))

Folded(h, b) == IF b = <<>> THEN h ELSE update_blocks(h, b)

LEMMA OverwriteIsOver == \A b, s : Overwrite(b, s) = Over(b, s)
BY DEF Overwrite, Over

LEMMA KeepsUp ==
  /\ HashKeepsUp <=>
       (pc \in {"bulk", "tail"} =>
          Folded(hash, prev) = HashUpTo(request, pos) /\ buffer = BufferAt(request, pos))
  /\ HashKeepsUp' <=>
       (pc' \in {"bulk", "tail"} =>
          Folded(hash', prev') = HashUpTo(request', pos') /\ buffer' = BufferAt(request', pos'))
BY OverwriteIsOver DEF HashKeepsUp, Folded, PrevFolded, HashUpTo, BufferAt, MsgText, Ciphertext

(* The strings of a call, over one alphabet.                                *)
StringsIn(S, r) ==
  /\ r.aad \in Seq(S) /\ r.data \in Seq(S) /\ MsgText(r) \in Seq(S) /\ Initial(r) \in Seq(S)
  /\ Ciphertext(r) \in Seq(S)
  /\ Len(r.data) \in Nat /\ Len(MsgText(r)) = Len(r.data) /\ Len(Ciphertext(r)) = Len(r.data)

LEMMA SpreadType ==
  ASSUME NEW what, NEW value, NEW n \in Nat
  PROVE  IsSlice(Spread(what, value, n)) /\ Len(Spread(what, value, n)) = n
<1> DEFINE f == Spread(what, value, n)
<1>1. f = [i \in 1 .. n |-> f[i]]
  BY DEF Spread
<1> HIDE DEF f
<1> QED BY <1>1, FunctionIsSeq DEF IsSlice, f

LEMMA ZeroType ==
  ASSUME NEW n \in Nat
  PROVE  IsSlice(ZeroBytes(n)) /\ Len(ZeroBytes(n)) = n
<1> DEFINE f == ZeroBytes(n)
<1>1. f = [i \in 1 .. n |-> f[i]]
  BY DEF ZeroBytes
<1> HIDE DEF f
<1> QED BY <1>1, FunctionIsSeq DEF IsSlice, f

LEMMA JoinSlices ==
  ASSUME NEW A, NEW B, NEW s \in Seq(A), NEW t \in Seq(B)
  PROVE  IsSlice(s \o t)
<1> DEFINE c == s \o t
<1>1. c \in Seq(A \cup B)
  BY Widen, ConcatProperties
<1> HIDE DEF c
<1>2. c = [i \in 1 .. Len(c) |-> c[i]] /\ Len(c) \in Nat
  BY <1>1, LenProperties
<1> QED BY <1>2, FunctionIsSeq DEF IsSlice, c

LEMMA SliceLen ==
  ASSUME NEW s, IsSlice(s)
  PROVE  Len(s) \in Nat /\ DOMAIN s = 1 .. Len(s)
BY LenProperties DEF IsSlice

LEMMA TrailerType ==
  ASSUME NEW r, NEW tag
  PROVE  IsSlice(Trailer(r, tag))
<1> DEFINE Bytes(f) == {f[i] : i \in DOMAIN f}
           t == Spread("tag", tag, TagSize)
           n == IF r.op \in AppendsNonce THEN Spread("nonce", r.nonce, NonceSize) ELSE <<>>
<1>1. IsSlice(<<>>)
  BY EmptySeq DEF IsSlice
<1>2. IsSlice(t) /\ IsSlice(n)
  BY <1>1, SpreadType, RequestsAssumption
<1> HIDE DEF t, n
<1>3. t \in Seq(Bytes(t)) /\ n \in Seq(Bytes(n))
  BY <1>2 DEF IsSlice
<1> HIDE DEF Bytes
<1>4. IsSlice(t \o n)
  BY <1>3, JoinSlices
<1>5. Trailer(r, tag) = <<>> \/ Trailer(r, tag) = t \o n
  BY DEF Trailer, t, n
<1> QED BY <1>1, <1>4, <1>5

LEMMA InitialType ==
  ASSUME NEW r, WellFormed(r)
  PROVE  IsSlice(Initial(r))
<1>1. Len(r.data) \in Nat /\ TagSize \in Nat /\ IsSlice(r.data)
  BY SliceLen, RequestsAssumption DEF WellFormed
<1>2. CASE InPlace(r)
  BY <1>1, <1>2 DEF Initial
<1>3. CASE ~InPlace(r) /\ r.op \in CallerBufferOp
  BY <1>3, SpreadType DEF Initial, WellFormed
<1>4. CASE ~InPlace(r) /\ r.op \notin CallerBufferOp
  <2> DEFINE m == Len(r.data)
             x == IF r.op = "encrypt" THEN TagSize ELSE 0
             n == m + x
  <2>1. Initial(r) = ZeroBytes(n)
    BY <1>4 DEF Initial
  <2>0. x \in Nat /\ m \in Nat
    BY <1>1
  <2> HIDE DEF x
  <2>2. n \in Nat
    BY <2>0
  <2> HIDE DEF n
  <2> QED BY <2>1, <2>2, ZeroType
<1> QED BY <1>2, <1>3, <1>4

LEMMA MsgTextType ==
  ASSUME NEW r, WellFormed(r)
  PROVE  IsSlice(MsgText(r)) /\ Len(MsgText(r)) = Len(r.data) /\ Len(r.data) \in Nat
<1> DEFINE S == {r.data[i] : i \in DOMAIN r.data}
           d == r.data
           first == FirstCounter + 1
           t == CtrMode(r.nonce, first, d)
<1>1. d \in Seq(S) /\ Len(r.data) \in Nat /\ d = r.data
  BY SliceLen DEF WellFormed, IsSlice
<1>0. MsgText(r) = t
  BY DEF MsgText, Gctr
<1> HIDE DEF S, d, first
<1>2. t = [i \in 1 .. Len(d) |-> t[i]]
  BY <1>1, CtrModeBytes
<1> HIDE DEF t
<1>3. IsSlice(t) /\ Len(t) = Len(d)
  BY <1>1, <1>2, FunctionIsSeq DEF IsSlice
<1> QED BY <1>0, <1>1, <1>3

LEMMA Strings ==
  ASSUME NEW r, WellFormed(r)
  PROVE  \E S : StringsIn(S, r)
<1> DEFINE Bytes(s) == {s[i] : i \in DOMAIN s}
           a == r.aad
           d == r.data
           t == MsgText(r)
           b == Initial(r)
           S == Bytes(a) \cup Bytes(d) \cup Bytes(t) \cup Bytes(b)
<1>1. a \in Seq(Bytes(a)) /\ d \in Seq(Bytes(d)) /\ t \in Seq(Bytes(t)) /\ b \in Seq(Bytes(b))
  BY InitialType, MsgTextType DEF WellFormed, IsSlice
<1>2. Bytes(a) \subseteq S /\ Bytes(d) \subseteq S /\ Bytes(t) \subseteq S /\ Bytes(b) \subseteq S
  OBVIOUS
<1>3. Len(d) \in Nat /\ Len(t) = Len(d)
  BY MsgTextType
<1> HIDE DEF Bytes, S, a, d, t, b
<1>4. a \in Seq(S) /\ d \in Seq(S) /\ t \in Seq(S) /\ b \in Seq(S)
  BY <1>1, <1>2, SeqMonotonic
<1>5. Ciphertext(r) = d \/ Ciphertext(r) = t
  BY DEF Ciphertext, d, t
<1>6. StringsIn(S, r)
  BY <1>3, <1>4, <1>5 DEF StringsIn, a, d, t, b
<1> QED BY <1>6

(* The buffer of a call that passed the checks has room for its message.    *)
LEMMA Room ==
  ASSUME NEW r, WellFormed(r), Passes(r)
  PROVE  Len(r.data) <= Len(Initial(r))
<1>1. Len(r.data) \in Nat /\ TagSize \in Nat
  BY SliceLen, RequestsAssumption DEF WellFormed
<1>2. CASE InPlace(r)
  BY <1>1, <1>2 DEF Initial
<1>3. CASE ~InPlace(r) /\ r.op \in CallerBufferOp
  <2>1. \E i \in 1 .. Len(Checks(r)) : Checks(r)[i] = "OutputTooSmall"
    BY ChecksAre
  <2>2. ~Complains(r, "OutputTooSmall")
    BY <2>1 DEF Passes, PassesUpTo
  <2>3. r.room \in Nat /\ ~(r.room < Needed(r))
    BY <1>3, <2>2 DEF Complains, WellFormed
  <2>4. Len(Trailer(r, NoTag)) \in Nat
    BY TrailerType, SliceLen
  <2>5. Len(r.data) <= r.room
    BY <1>1, <2>3, <2>4 DEF Needed
  <2>6. Initial(r) = Spread("caller", 0, r.room)
    BY <1>3 DEF Initial
  <2> QED BY <2>3, <2>5, <2>6, SpreadType
<1>4. CASE ~InPlace(r) /\ r.op \notin CallerBufferOp
  <2> DEFINE m == Len(r.data)
             x == IF r.op = "encrypt" THEN TagSize ELSE 0
             n == m + x
  <2>1. Initial(r) = ZeroBytes(n)
    BY <1>4 DEF Initial
  <2>0. x \in Nat /\ m \in Nat
    BY <1>1
  <2> HIDE DEF x
  <2>2. n \in Nat /\ Len(r.data) <= n
    BY <2>0
  <2> HIDE DEF n
  <2> QED BY <2>1, <2>2, ZeroType
<1> QED BY <1>2, <1>3, <1>4

-----------------------------------------------------------------------------
(* GHASH keeps up with the cipher. *)

(* A stretch of counter mode makes the scheme's text of the bytes it reads, *)
(* and reads the message's own bytes, in place or not.                      *)
LEMMA Stretch ==
  ASSUME Inductive, pc \in {"bulk", "tail"}, buffer = BufferAt(request, pos),
         pos % BlockSize = 0, NEW n \in Nat \ {0}, pos + n <= DataLen, Process(n)
  PROVE  /\ buffer' = BufferAt(request, pos + n)
         /\ NextBytes(buffer', n) = SubSeq(MsgText(request), pos + 1, pos + n)
         /\ NextBytes(Source, n) = SubSeq(request.data, pos + 1, pos + n)
<1> DEFINE d == request.data
           t == MsgText(request)
           b == Initial(request)
           L == Len(b)
           m == pos + n
           w == SubSeq(t, 1, pos)
           v == SubSeq(t, 1, m)
<1>1. WellFormed(request) /\ Passes(request) /\ PassShape
  BY DEF Inductive
<1>2. PICK S : StringsIn(S, request)
  BY <1>1, Strings
<1>3. /\ d \in Seq(S) /\ t \in Seq(S) /\ b \in Seq(S) /\ L \in Nat
      /\ Len(t) = Len(d) /\ Len(d) \in Nat /\ Len(d) <= L
  BY <1>1, <1>2, Room, LenProperties DEF StringsIn
<1>4. pos \in Nat /\ m \in Nat /\ pos <= m /\ m <= Len(d) /\ m = pos + n
  BY <1>1, <1>3 DEF PassShape, DataLen
<1>5. w \in Seq(S) /\ Len(w) = pos /\ \A i \in 1 .. pos : w[i] = t[i]
  BY <1>3, <1>4, PrefixType
<1>6. v \in Seq(S) /\ Len(v) = m /\ \A i \in 1 .. m : v[i] = t[i]
  BY <1>3, <1>4, PrefixType
<1>7. buffer = Over(b, w) /\ BufferAt(request, m) = Over(b, v)
  BY DEF BufferAt
<1>8. InPlace(request) => b = d
  BY DEF Initial
<1>9. \A i \in pos + 1 .. m :
        t[i] = Xor(d[i], KeystreamByte(request.nonce, CounterAfter((i - pos - 1) \div BlockSize),
                                       (i - pos - 1) % BlockSize))
  <2> DEFINE first == FirstCounter + 1
  <2>1. t = CtrMode(request.nonce, first, d) /\ first \in Nat
    BY DEF MsgText, Gctr, FirstCounter
  <2>2. counter = (first + BlocksIn(pos)) % CtrMod
    BY <1>1 DEF PassShape
  <2> HIDE DEF first, t, d, m
  <2>3. TAKE i \in pos + 1 .. m
  <2>4. i \in 1 .. Len(d) /\ pos < i
    BY <1>3, <1>4
  <2>5. CtrMode(request.nonce, first, d)[i] =
          Xor(d[i], KeystreamByte(request.nonce,
                                  (counter + ((i - pos - 1) \div BlockSize)) % CtrMod,
                                  (i - pos - 1) % BlockSize))
    BY <1>3, <1>4, <2>1, <2>2, <2>4, CtrModeAfter
  <2> QED BY <2>1, <2>5 DEF CounterAfter
<1> HIDE DEF d, t, b, L, m, w, v
<1>10. /\ buffer \in Seq(S) /\ Len(buffer) = L /\ DOMAIN buffer = 1 .. L
       /\ \A i \in 1 .. L : buffer[i] = IF i <= pos THEN t[i] ELSE b[i]
  <2>1. /\ buffer \in Seq(S) /\ Len(buffer) = L
        /\ \A i \in 1 .. L : buffer[i] = IF i <= pos THEN w[i] ELSE b[i]
    BY <1>3, <1>4, <1>5, <1>7, OverBytes DEF L
  <2>2. \A i \in 1 .. L : i <= pos => w[i] = t[i]
    BY <1>5
  <2> QED BY <2>1, <2>2, LenProperties
<1>11. Source \in Seq(S) /\ m <= Len(Source) /\ \A i \in pos + 1 .. m : Source[i] = d[i]
  <2>1. CASE InPlace(request)
    <3>1. Source = buffer /\ b = d
      BY <1>8, <2>1 DEF Source
    <3>2. \A i \in pos + 1 .. m : i \in 1 .. L /\ ~(i <= pos)
      BY <1>3, <1>4
    <3> QED BY <1>3, <1>4, <1>10, <3>1, <3>2
  <2>2. CASE ~InPlace(request)
    BY <1>3, <1>4, <2>2 DEF Source, d
  <2> QED BY <2>1, <2>2
<1>12. /\ buffer' = [i \in 1 .. L |-> buffer'[i]]
       /\ \A i \in 1 .. L : buffer'[i] = IF i <= m THEN v[i] ELSE b[i]
  <2> DEFINE K(i) == KeystreamByte(request.nonce, CounterAfter((i - pos - 1) \div BlockSize),
                                   (i - pos - 1) % BlockSize)
  <2>1. buffer' = [i \in 1 .. L |-> IF i \in pos + 1 .. m THEN Xor(Source[i], K(i))
                                    ELSE buffer[i]]
    BY <1>10 DEF Process, Masked, m
  <2>2. \A i \in pos + 1 .. m : t[i] = Xor(d[i], K(i))
    BY <1>9
  <2> HIDE DEF K
  <2>3. \A i \in 1 .. L : i \in pos + 1 .. m => buffer'[i] = v[i] /\ i <= m
    BY <1>4, <1>6, <1>11, <2>1, <2>2
  <2>4. \A i \in 1 .. L : i \notin pos + 1 .. m => (i <= m <=> i <= pos)
    BY <1>4
  <2>5. \A i \in 1 .. L : i \notin pos + 1 .. m => buffer'[i] = IF i <= m THEN v[i] ELSE b[i]
    BY <1>4, <1>6, <1>10, <2>1, <2>4
  <2> QED BY <2>1, <2>3, <2>5
<1>13. buffer' = Over(b, v) /\ buffer' \in Seq(S) /\ Len(buffer') = L
  <2> DEFINE c == buffer'
  <2>1. /\ c = [i \in 1 .. Len(b) |-> c[i]] /\ Len(v) <= Len(b)
        /\ \A i \in 1 .. Len(b) : c[i] = IF i <= Len(v) THEN v[i] ELSE b[i]
    BY <1>3, <1>4, <1>6, <1>12 DEF L
  <2> HIDE DEF c
  <2>2. b \in Seq(S) /\ v \in Seq(S)
    BY <1>3, <1>6
  <2>3. c = Over(b, v) /\ c \in Seq(S) /\ Len(c) = Len(b)
    BY ONLY <2>1, <2>2, IsOver
  <2> QED BY <2>3 DEF c, L
<1>14. SubSeq(buffer', pos + 1, m) = SubSeq(t, pos + 1, m)
  <2>1. \A i \in pos + 1 .. m : i \in 1 .. L /\ i \in 1 .. m /\ i <= m
    BY <1>3, <1>4
  <2>2. \A i \in pos + 1 .. m : buffer'[i] = t[i]
    BY <1>6, <1>12, <2>1
  <2>3. m <= Len(buffer') /\ m <= Len(t)
    BY <1>3, <1>4, <1>13
  <2> QED BY <1>3, <1>4, <1>13, <2>2, <2>3, SameSubSeq
<1>15. SubSeq(Source, pos + 1, m) = SubSeq(d, pos + 1, m)
  BY <1>3, <1>4, <1>11, SameSubSeq
<1> QED BY <1>7, <1>13, <1>14, <1>15 DEF NextBytes, m, t, d

(* The hash moves on by the blocks of the ciphertext that it is given.      *)
LEMMA HashOn ==
  ASSUME NEW r, WellFormed(r), NEW p \in Nat, NEW n \in Nat, p + n <= Len(r.data),
         p % BlockSize = 0
  PROVE  LET more == SubSeq(Ciphertext(r), p + 1, p + n)
         IN /\ absorb_padded(HashUpTo(r, p), more) = HashUpTo(r, p + n)
            /\ BlocksIn(n) \in 1 .. 8 => update_blocks(HashUpTo(r, p), Blocks(more)) =
                                           HashUpTo(r, p + n)
<1>1. PICK S : StringsIn(S, r)
  BY Strings
<1> DEFINE c == Ciphertext(r)
           X == Blocks(r.aad)
<1>2. c \in Seq(S) /\ Len(c) = Len(r.data) /\ X \in Seq(BlockOf(S))
  BY <1>1, BlocksType DEF StringsIn
<1> HIDE DEF c, X
<1>3. LET before == HashOf(X \o Blocks(SubSeq(c, 1, p)))
          more == SubSeq(c, p + 1, p + n)
          after == HashOf(X \o Blocks(SubSeq(c, 1, p + n)))
      IN /\ absorb_padded(before, more) = after
         /\ BlocksIn(n) \in 1 .. 8 => update_blocks(before, Blocks(more)) = after
  BY <1>2, HashMore
<1> QED BY <1>3 DEF HashUpTo, c, X

(* Where the pass begins: nothing of the message hashed or written.         *)
LEMMA Beginning ==
  ASSUME NEW r, WellFormed(r)
  PROVE  HashUpTo(r, 0) = absorb_padded({}, r.aad) /\ BufferAt(r, 0) = Initial(r)
<1>1. PICK S : StringsIn(S, r)
  BY Strings
<1>2. r.aad \in Seq(S) /\ Initial(r) \in Seq(S)
  BY <1>1 DEF StringsIn
<1>3. \A s : SubSeq(s, 1, 0) = <<>>
  BY SubSeqEmpty, 0 < 1
<1>4. Blocks(r.aad) \o <<>> = Blocks(r.aad)
  BY <1>2, BlocksType, ConcatEmptySeq
<1>5. HashUpTo(r, 0) = HashOf(Blocks(r.aad))
  BY <1>3, <1>4, NoBlocksOfNothing DEF HashUpTo
<1>6. BufferAt(r, 0) = Initial(r)
  BY <1>2, <1>3, OverNothing DEF BufferAt
<1> QED BY <1>2, <1>5, <1>6, AadHash

(* A batch is kept for GHASH as the pass encrypts or decrypts it.           *)
LEMMA BatchFolds ==
  ASSUME Inductive, HashKeepsUp, pc = "bulk", pos < BulkLen, Process(BatchLen),
         UNCHANGED <<request, pc>>, hash' = PrevFolded,
         prev' = Blocks(SubSeq(Ciphertext(request), pos + 1, pos + BatchLen))
  PROVE  HashKeepsUp' /\ Len(prev') = 8
<1> DEFINE n == BatchLen
           c == Ciphertext(request)
           more == SubSeq(c, pos + 1, pos + n)
<1>1. /\ pos \in Nat /\ n \in Nat \ {0} /\ pos % BlockSize = 0 /\ pos + n <= DataLen
      /\ WellFormed(request) /\ DataLen \in Nat
  BY BatchLeft DEF Inductive
<1>2. Folded(hash, prev) = HashUpTo(request, pos) /\ buffer = BufferAt(request, pos)
  BY KeepsUp
<1>3. hash' = HashUpTo(request, pos) /\ prev' = Blocks(more) /\ pos' = pos + n
  BY <1>2 DEF PrevFolded, Folded, Process
<1>4. buffer' = BufferAt(request, pos + n)
  BY <1>1, <1>2, Stretch
<1>5. BlocksIn(n) = 8
  <2>1. n = 8 * BlockSize
    BY BatchSize
  <2>2. BlocksIn(8 * BlockSize + 0) = 8 + BlocksIn(0) /\ 8 * BlockSize \in Nat
    BY BlocksAfter
  <2> QED BY <2>1, <2>2, NoBlocks
<1>6. Len(Blocks(more)) = 8
  <2>1. PICK S : StringsIn(S, request)
    BY <1>1, Strings
  <2>2. c \in Seq(S) /\ Len(c) = DataLen
    BY <2>1 DEF StringsIn, DataLen
  <2> HIDE DEF c, n
  <2>3. pos + n \in Nat /\ pos <= pos + n /\ (pos + n) - pos = n
    BY <1>1
  <2>4. more \in Seq(S) /\ Len(more) = n
    BY <1>1, <2>2, <2>3, SubSeqType
  <2> QED BY <1>5, <2>4, BlocksType
<1> HIDE DEF n
<1>7. update_blocks(HashUpTo(request, pos), Blocks(more)) = HashUpTo(request, pos + n)
  BY <1>1, <1>5, HashOn DEF DataLen
<1>8. Blocks(more) # <<>>
  BY <1>6, EmptySeq
<1>9. Folded(hash', prev') = HashUpTo(request', pos')
  BY <1>3, <1>7, <1>8 DEF Folded
<1> QED BY <1>3, <1>4, <1>6, <1>9, KeepsUp

(* In the tail nothing is owed to GHASH.                                    *)
LEMMA TailHashes ==
  ASSUME Inductive, HashKeepsUp, pc = "tail", NEW n \in Nat \ {0}, pos % BlockSize = 0,
         pos + n <= DataLen, Process(n), UNCHANGED <<request, pc, prev>>,
         \/ hash' = absorb_padded(hash, SubSeq(Ciphertext(request), pos + 1, pos + n))
         \/ /\ hash' = update_blocks(hash, Blocks(SubSeq(Ciphertext(request), pos + 1, pos + n)))
            /\ BlocksIn(n) \in 1 .. 8
  PROVE  HashKeepsUp'
<1>1. /\ prev = <<>> /\ WellFormed(request) /\ pos \in Nat
      /\ Folded(hash, prev) = HashUpTo(request, pos) /\ buffer = BufferAt(request, pos)
  BY KeepsUp, DataLenType DEF Inductive, PassShape
<1>2. hash = HashUpTo(request, pos) /\ pos' = pos + n
  BY <1>1 DEF Folded, Process
<1>3. buffer' = BufferAt(request, pos + n)
  BY <1>1, Stretch
<1>4. hash' = HashUpTo(request, pos + n)
  BY <1>1, <1>2, HashOn DEF DataLen
<1> QED BY <1>1, <1>2, <1>3, <1>4, KeepsUp DEF Folded

LEMMA HashStep ==
  ASSUME Inductive, HashKeepsUp, [Next]_vars
  PROVE  HashKeepsUp'
<1>1. ASSUME NEW r \in Requests, Call(r) PROVE HashKeepsUp'
  BY <1>1, KeepsUp DEF Call
<1>2. CASE Refuse
  BY <1>2, KeepsUp DEF Refuse
<1>3. CASE Begin
  <2>1. /\ WellFormed(request) /\ prev = <<>> /\ pos = 0 /\ buffer = Initial(request)
    BY <1>3 DEF Begin, Inductive
  <2>2. /\ hash' = absorb_padded({}, request.aad) /\ UNCHANGED <<request, buffer, prev, pos>>
    BY <1>3 DEF Begin
  <2> QED BY <2>1, <2>2, Beginning, KeepsUp DEF Folded
<1>4. CASE SealBatch \/ OpenBatch
  <2>1. /\ pc = "bulk" /\ pos < BulkLen /\ Process(BatchLen) /\ UNCHANGED <<request, pc>>
        /\ hash' = PrevFolded
    BY <1>4 DEF SealBatch, OpenBatch
  <2>2. /\ NextBytes(buffer', BatchLen) = SubSeq(MsgText(request), pos + 1, pos + BatchLen)
        /\ NextBytes(Source, BatchLen) = SubSeq(request.data, pos + 1, pos + BatchLen)
    BY <2>1, BatchLeft, Stretch, KeepsUp
  <2>3. prev' = Blocks(SubSeq(Ciphertext(request), pos + 1, pos + BatchLen))
    BY <1>4, <2>2 DEF SealBatch, OpenBatch, Ciphertext
  <2> QED BY <2>1, <2>3, BatchFolds
<1>5. CASE FoldLastBatch
  <2>1. /\ pc = "bulk" /\ hash' = Folded(hash, prev) /\ prev' = <<>>
        /\ UNCHANGED <<request, buffer, pos>>
    BY <1>5 DEF FoldLastBatch, PrevFolded, Folded
  <2> QED BY <2>1, KeepsUp DEF Folded
<1>6. ASSUME NEW n, n = DataLen - pos, InTail(n), Process(n),
             \/ ~Opens(request) /\ hash' = absorb_padded(hash, NextBytes(buffer', n))
             \/ Opens(request) /\ hash' = absorb_padded(hash, NextBytes(Source, n))
      PROVE  HashKeepsUp'
  <2>1. pc = "tail" /\ n > 0 /\ UNCHANGED <<request, pc, prev>>
    BY <1>6 DEF InTail
  <2>2. pos # DataLen
    BY <1>6, <2>1, DataLenType DEF Inductive, PassShape
  <2>3. n \in Nat \ {0} /\ pos % BlockSize = 0 /\ pos + n <= DataLen
    BY <1>6, <2>1, <2>2, AtBoundary
  <2>4. /\ NextBytes(buffer', n) = SubSeq(MsgText(request), pos + 1, pos + n)
        /\ NextBytes(Source, n) = SubSeq(request.data, pos + 1, pos + n)
    BY <1>6, <2>1, <2>3, Stretch, KeepsUp
  <2>5. hash' = absorb_padded(hash, SubSeq(Ciphertext(request), pos + 1, pos + n))
    BY <1>6, <2>4 DEF Ciphertext
  <2> QED BY <1>6, <2>1, <2>3, <2>5, TailHashes
<1>7. CASE SealTail \/ SealPartial \/ OpenTail
  BY <1>6, <1>7 DEF SealTail, SealPartial, OpenTail
<1>8. CASE SealTailBlocks
  <2>1. PICK w \in {1, 4} : TailOf(w)
    BY <1>8, BlocksLeft
  <2> DEFINE n == w * BlockSize
  <2>2. /\ pc = "tail" /\ UNCHANGED <<request, answer, pc, prev>> /\ pos # DataLen
        /\ ~Opens(request) /\ Process(n)
        /\ hash' = update_blocks(hash, Blocks(NextBytes(buffer', n)))
        /\ n \in Nat \ {0} /\ pos + n <= DataLen /\ BlocksIn(n) = w
    BY <2>1 DEF TailOf
  <2> HIDE DEF n
  <2>3. pos % BlockSize = 0
    BY <2>2, AtBoundary
  <2>4. NextBytes(buffer', n) = SubSeq(MsgText(request), pos + 1, pos + n)
    BY <2>2, <2>3, Stretch, KeepsUp
  <2>5. hash' = update_blocks(hash, Blocks(SubSeq(Ciphertext(request), pos + 1, pos + n)))
        /\ BlocksIn(n) \in 1 .. 8
    BY <2>2, <2>4 DEF Ciphertext
  <2> QED BY <2>2, <2>3, <2>5, TailHashes
<1>9. CASE SealDone \/ Accept \/ Reject
  BY <1>9, KeepsUp DEF SealDone, Accept, Reject, Return
<1>10. CASE UNCHANGED vars
  BY <1>10, KeepsUp DEF vars, pass
<1>11. CASE Step
  BY <1>2, <1>3, <1>4, <1>5, <1>7, <1>8, <1>9, <1>11 DEF Step
<1> QED BY <1>1, <1>10, <1>11 DEF Next, Returned

-----------------------------------------------------------------------------
(* Every variable keeps its type. *)

HashTyped(h) == \A t \in h : t[1] \in Nat /\ t[2] \in 0 .. BlockSize - 1

LEMMA HashType ==
  ASSUME NEW r, WellFormed(r), NEW p \in 0 .. Len(r.data)
  PROVE  HashTyped(HashUpTo(r, p))
<1> DEFINE c == Ciphertext(r)
           x == Blocks(r.aad)
           y == Blocks(SubSeq(c, 1, p))
<1>1. PICK S : StringsIn(S, r)
  BY Strings
<1>2. c \in Seq(S) /\ r.aad \in Seq(S) /\ p \in Nat /\ p <= Len(c)
  BY <1>1 DEF StringsIn
<1> HIDE DEF c
<1>3. SubSeq(c, 1, p) \in Seq(S)
  BY <1>2, PrefixType
<1>4. x \in Seq(BlockOf(S)) /\ y \in Seq(BlockOf(S))
  BY <1>2, <1>3, BlocksType
<1> DEFINE z == x \o y
<1> HIDE DEF x, y
<1>5. z \in Seq(BlockOf(S))
  BY <1>4, ConcatProperties
<1> HIDE DEF z
<1>6. HashTyped(HashOf(z))
  BY <1>5, HashTerms DEF HashTyped
<1> QED BY <1>6 DEF HashUpTo, z, x, y, c

LEMMA CounterType ==
  /\ FirstCounter \in Counters /\ increment_counter(FirstCounter) \in Counters
  /\ counter \in Counters => \A i \in Nat : CounterAfter(i) \in Counters
<1>1. CtrMod \in Nat \ {0} /\ 2 <= CtrMod
  BY AlgebraAssumption
<1>2. FirstCounter \in Counters /\ increment_counter(FirstCounter) \in Counters
  <2>1. (1 + 1) % CtrMod \in 0 .. CtrMod - 1
    BY <1>1, DivMod
  <2> QED BY <1>1, <2>1 DEF FirstCounter, increment_counter, Counters
<1>3. ASSUME counter \in Counters, NEW i \in Nat PROVE CounterAfter(i) \in Counters
  <2>1. counter + i \in Nat
    BY <1>3 DEF Counters
  <2> QED BY <1>1, <2>1, DivMod DEF CounterAfter, Counters
<1> QED BY <1>2, <1>3

(* What is left of the type where the request and the answer stay.          *)
PassTyped ==
  /\ pc \in {"idle", "check", "bulk", "tail", "finish"}
  /\ counter \in Counters
  /\ HashTyped(hash)
  /\ Len(prev) \in {0, KEY_POWERS}
  /\ pos \in Nat
  /\ used \subseteq Counters
  /\ reused \in BOOLEAN

LEMMA TypeSplit ==
  TypeOK <=> /\ request.op \in SealOp \cup OpenOp \cup {"none"}
             /\ answer.status \in Errors \cup {"pending", "Ok"}
             /\ PassTyped
BY DEF TypeOK, PassTyped, HashTyped

LEMMA ProcessTyped ==
  ASSUME TypeOK, NEW n \in Nat, Process(n), UNCHANGED <<request, answer, pc>>,
         HashTyped(hash'), Len(prev') \in {0, KEY_POWERS}
  PROVE  TypeOK'
<1>1. BlocksIn(n) \in Nat
  BY BlocksOf
<1>2. \A i \in 0 .. BlocksIn(n) - 1 : i \in Nat
  BY <1>1
<1>3. counter \in Counters /\ used \subseteq Counters /\ pos \in Nat /\ reused \in BOOLEAN
  BY DEF TypeOK
<1>4. counter' \in Counters /\ used' \subseteq Counters
  BY <1>1, <1>2, <1>3, CounterType DEF Process
<1>5. pos' \in Nat /\ reused' \in BOOLEAN
  BY <1>3 DEF Process
<1> QED BY <1>4, <1>5 DEF TypeOK, HashTyped

LEMMA InitialTypes == Init => TypeOK
<1>1. Len(<<>>) = 0
  BY EmptySeq
<1>2. FirstCounter \in Counters
  BY CounterType
<1>3. ASSUME Init PROVE request.op = "none" /\ answer.status = "Ok" /\ PassTyped
  BY <1>1, <1>2, <1>3 DEF Init, PassTyped, HashTyped, Result
<1> QED BY <1>3, TypeSplit

LEMMA TypeStep ==
  ASSUME Inductive, Inductive', HashKeepsUp, HashKeepsUp', TypeOK, [Next]_vars
  PROVE  TypeOK'
<1>1. ASSUME NEW r \in Requests, Call(r) PROVE TypeOK'
  <2>1. r.op \in SealOp \cup OpenOp
    BY RequestsAssumption DEF WellFormed
  <2>2. Len(<<>>) = 0
    BY EmptySeq
  <2> QED BY <1>1, <2>1, <2>2, CounterType DEF Call, Result, TypeOK
<1>2. CASE Refuse
  BY <1>2 DEF Refuse, pass, Result, TypeOK
<1>3. ASSUME pc' \in {"bulk", "tail"}, pc' = "tail" \/ prev' = <<>>
      PROVE  HashTyped(hash')
  <2>1. /\ WellFormed(request') /\ pos' \in 0 .. Len(request'.data)
        /\ pc' = "tail" => prev' = <<>>
    BY <1>3 DEF Inductive, PassShape, DataLen
  <2>2. hash' = HashUpTo(request', pos')
    BY <1>3, <2>1, KeepsUp DEF Folded
  <2> QED BY <2>1, <2>2, HashType
<1>4. ASSUME pc \in {"bulk", "tail"} PROVE HashTyped(PrevFolded)
  <2>1. WellFormed(request) /\ pos \in 0 .. Len(request.data)
    BY <1>4 DEF Inductive, PassShape, DataLen
  <2>2. PrevFolded = HashUpTo(request, pos)
    BY <1>4, KeepsUp DEF Folded, PrevFolded
  <2> QED BY <2>1, <2>2, HashType
<1>5. CASE Begin
  <2>1. /\ pc' = "bulk" /\ prev' = <<>> /\ counter' = increment_counter(FirstCounter)
        /\ UNCHANGED <<request, answer, prev, pos, used, reused>>
    BY <1>5 DEF Begin, Inductive
  <2>2. HashTyped(hash')
    BY <1>3, <2>1
  <2> QED BY <2>1, <2>2, CounterType DEF TypeOK, HashTyped
<1>6. CASE SealBatch \/ OpenBatch
  <2>1. /\ pc = "bulk" /\ pos < BulkLen /\ Process(BatchLen)
        /\ UNCHANGED <<request, answer, pc>> /\ hash' = PrevFolded
    BY <1>6 DEF SealBatch, OpenBatch
  <2>2. /\ NextBytes(buffer', BatchLen) = SubSeq(MsgText(request), pos + 1, pos + BatchLen)
        /\ NextBytes(Source, BatchLen) = SubSeq(request.data, pos + 1, pos + BatchLen)
    BY <2>1, BatchLeft, Stretch, KeepsUp
  <2>3. prev' = Blocks(SubSeq(Ciphertext(request), pos + 1, pos + BatchLen))
    BY <1>6, <2>2 DEF SealBatch, OpenBatch, Ciphertext
  <2>4. Len(prev') = KEY_POWERS
    BY <2>1, <2>3, BatchFolds DEF KEY_POWERS, h_pows
  <2>5. HashTyped(hash') /\ BatchLen \in Nat
    BY <1>4, <2>1, BatchSize
  <2> QED BY <2>1, <2>4, <2>5, ProcessTyped
<1>7. CASE FoldLastBatch
  <2>1. /\ pc' = "tail" /\ prev' = <<>>
        /\ UNCHANGED <<request, answer, counter, pos, used, reused>>
    BY <1>7 DEF FoldLastBatch
  <2>2. HashTyped(hash') /\ Len(<<>>) = 0
    BY <1>3, <2>1, EmptySeq
  <2> QED BY <2>1, <2>2 DEF TypeOK, HashTyped
<1>8. ASSUME NEW n \in Nat, pc = "tail", UNCHANGED <<request, answer, pc, prev>>, Process(n)
      PROVE  TypeOK'
  <2>1. pc' = "tail" /\ prev' = <<>>
    BY <1>8 DEF Inductive
  <2>2. HashTyped(hash') /\ Len(prev') \in {0, KEY_POWERS}
    BY <1>3, <2>1, EmptySeq
  <2> QED BY <1>8, <2>2, ProcessTyped
<1>9. CASE SealTail \/ SealPartial \/ OpenTail
  <2>1. /\ pc = "tail" /\ UNCHANGED <<request, answer, pc, prev>>
        /\ DataLen - pos > 0 /\ Process(DataLen - pos)
    BY <1>9 DEF SealTail, SealPartial, OpenTail, InTail
  <2>2. DataLen - pos \in Nat
    BY <2>1, DataLenType DEF Inductive, PassShape
  <2> QED BY <1>8, <2>1, <2>2
<1>10. CASE SealTailBlocks
  <2>1. PICK w \in {1, 4} : TailOf(w)
    BY <1>10, BlocksLeft
  <2> QED BY <1>8, <2>1 DEF TailOf
<1>11. CASE SealDone \/ Accept \/ Reject
  BY <1>11 DEF SealDone, Accept, Reject, Return, Result, Errors, pass, TypeOK
<1>12. CASE UNCHANGED vars
  BY <1>12 DEF vars, pass, TypeOK
<1>13. CASE Step
  BY <1>2, <1>5, <1>6, <1>7, <1>9, <1>10, <1>11, <1>13 DEF Step
<1> QED BY <1>1, <1>12, <1>13 DEF Next, Returned

-----------------------------------------------------------------------------
(* The invariants. *)

(* While a call makes its pass, the counter words it has used are exactly   *)
(* those after the first, in order, and the counter holds the next one      *)
(* (increment_counter, the stitched loops and tails of seal and open).      *)
THEOREM InductiveHolds == Spec => []Inductive
<1>1. Inductive /\ [Next]_vars => Inductive'
  BY StepKeeps
<1> QED BY <1>1, InitialInductive, PTL DEF Spec

(* No counter block of a call masks two blocks of its message, nor a block  *)
(* and the tag, whatever the message, the operation and the counter's width *)
(* (validate_gcm_lengths, MAX_GCM_DATA_LEN).                                *)
THEOREM KeystreamFreshHolds == Spec => []KeystreamFresh
<1>1. Inductive => KeystreamFresh
  BY DEF Inductive
<1> QED BY <1>1, InductiveHolds, PTL

(* At every turn of the stitched loop and of the tail, the hash with the    *)
(* batch it still owes is the standard's, of the associated data and of the *)
(* ciphertext so far, and the buffer is what the scheme makes of the bytes  *)
(* processed, whatever the message, the operation and the buffer it works   *)
(* in (seal_bulk, open_bulk, seal_in_place_bulk, open_in_place_bulk and the *)
(* tails).                                                                  *)
THEOREM HashKeepsUpHolds == Spec => []HashKeepsUp
<1>1. Init => HashKeepsUp
  BY DEF Init, HashKeepsUp
<1>2. Inductive /\ HashKeepsUp /\ [Next]_vars => HashKeepsUp'
  BY HashStep
<1> QED BY <1>1, <1>2, InductiveHolds, PTL DEF Spec

(* Every variable keeps its type: a hash has no power of H below 0, and no  *)
(* byte past the end of a block, and the loop owes GHASH a whole batch or   *)
(* none.                                                                    *)
THEOREM TypesHold == Spec => []TypeOK
<1>1. Inductive /\ Inductive' /\ HashKeepsUp /\ HashKeepsUp' /\ TypeOK /\ [Next]_vars => TypeOK'
  BY TypeStep
<1> QED BY <1>1, InitialTypes, InductiveHolds, HashKeepsUpHolds, PTL DEF Spec

-----------------------------------------------------------------------------
(* What the caller was promised. *)

(* The calls of the promise are the calls of the implementation.            *)
LEMMA SameCalls ==
  /\ \A r : Promise!Opens(r) = Opens(r) /\ Promise!Initial(r) = Initial(r)
            /\ Promise!Complaints(r) = Complaints(r)
  /\ \A r, t : Promise!Trailer(r, t) = Trailer(r, t)
  /\ \A b, s : Promise!Overwrite(b, s) = Over(b, s)
  /\ \A n : Promise!ZeroBytes(n) = ZeroBytes(n)
  /\ \A s, t : Promise!Result(s, t) = Result(s, t)
<1>1. \A n : Promise!ZeroBytes(n) = ZeroBytes(n)
  BY DEF Promise!ZeroBytes, ZeroBytes
<1>2. \A w, v, n : Promise!Spread(w, v, n) = Spread(w, v, n)
  BY DEF Promise!Spread, Spread
<1>3. /\ Promise!SealOp = SealOp /\ Promise!OpenOp = OpenOp /\ Promise!InPlaceOp = InPlaceOp
      /\ Promise!CallerBufferOp = CallerBufferOp /\ Promise!AppendsNonce = AppendsNonce
      /\ Promise!Detached = Detached /\ Promise!Errors = Errors
  BY DEF Promise!SealOp, Promise!OpenOp, Promise!InPlaceOp, Promise!CallerBufferOp,
         Promise!AppendsNonce, Promise!Detached, Promise!Errors,
         SealOp, OpenOp, InPlaceOp, CallerBufferOp, AppendsNonce, Detached, Errors
<1>4. \A r : Promise!Opens(r) = Opens(r) /\ Promise!InPlace(r) = InPlace(r)
  BY <1>3 DEF Promise!Opens, Opens, Promise!InPlace, InPlace
<1>5. \A r : Promise!Initial(r) = Initial(r)
  BY <1>1, <1>2, <1>3, <1>4 DEF Promise!Initial, Initial
<1>6. \A r, t : Promise!Trailer(r, t) = Trailer(r, t)
  BY <1>2, <1>3 DEF Promise!Trailer, Trailer
<1>7. \A r : Promise!Needed(r) = Needed(r)
  BY <1>6 DEF Promise!Needed, Needed
<1>8. \A r, e : Promise!Complains(r, e) = Complains(r, e)
  BY <1>3, <1>7 DEF Promise!Complains, Complains
<1>9. \A r : Promise!Complaints(r) = Complaints(r)
  BY <1>3, <1>8 DEF Promise!Complaints, Complaints
<1>10. \A b, s : Promise!Overwrite(b, s) = Over(b, s)
  BY DEF Promise!Overwrite, Over
<1>11. \A s, t : Promise!Result(s, t) = Result(s, t)
  BY DEF Promise!Result, Result
<1> QED BY <1>1, <1>4, <1>5, <1>6, <1>9, <1>10, <1>11

(* The checks are all there is to complain of, in some order.               *)
LEMMA NoComplaints ==
  ASSUME NEW r, Passes(r)
  PROVE  Complaints(r) = {}
<1> SUFFICES ASSUME NEW e \in Errors, Complains(r, e) PROVE FALSE
  BY DEF Complaints
<1>1. \A i \in 1 .. Len(Checks(r)) : ~Complains(r, Checks(r)[i])
  BY DEF Passes, PassesUpTo
<1>2. /\ ~Complains(r, "InvalidNonceLength") /\ ~Complains(r, "InputTooLarge")
      /\ ~Complains(r, "OutputTooSmall")
      /\ r.op \in {"decrypt_envelope", "decrypt_envelope_to"} =>
           ~Complains(r, "CiphertextTooShort")
      /\ r.op \notin {"encrypt_nonce_appended_to", "decrypt_envelope", "decrypt_envelope_to"} =>
           ~Complains(r, "Decrypt")
  BY <1>1, ChecksAre
<1>3. e = "CiphertextTooShort" \/ e = "Decrypt"
  BY <1>2 DEF Errors
<1>4. CASE e = "CiphertextTooShort"
  <2>1. r.op \in {"decrypt_envelope", "decrypt_envelope_to"}
    BY <1>4 DEF Complains
  <2> QED BY <1>2, <1>4, <2>1
<1>5. CASE e = "Decrypt"
  <2>1. r.op \in OpenOp \ {"decrypt_envelope", "decrypt_envelope_to"}
    BY <1>5 DEF Complains
  <2>2. r.op \notin {"encrypt_nonce_appended_to", "decrypt_envelope", "decrypt_envelope_to"}
    BY <2>1 DEF OpenOp
  <2> QED BY <1>2, <1>5, <2>2
<1> QED BY <1>3, <1>4, <1>5

LEMMA RefusalComplains ==
  ASSUME NEW r, NEW e \in Errors, RefusedFor(r, e)
  PROVE  e \in Complaints(r)
BY DEF RefusedFor, Complaints

(* At the end the tag is the standard's, and so is the text.                *)
LEMMA AtTheEnd ==
  ASSUME Inductive, HashKeepsUp, AtEnd
  PROVE  /\ Computed = TagOf(request.nonce, request.aad, Ciphertext(request))
         /\ buffer = Over(Initial(request), MsgText(request))
         /\ SubSeq(buffer, 1, DataLen) = MsgText(request)
<1> DEFINE d == request.data
           c == Ciphertext(request)
           t == MsgText(request)
           b == Initial(request)
           a == request.aad
           n == Len(d)
<1>1. /\ WellFormed(request) /\ Passes(request) /\ prev = <<>> /\ pos = n
      /\ Folded(hash, prev) = HashUpTo(request, pos) /\ buffer = BufferAt(request, pos)
  BY KeepsUp DEF Inductive, AtEnd, DataLen
<1>2. PICK S : StringsIn(S, request)
  BY <1>1, Strings
<1>3. /\ a \in Seq(S) /\ t \in Seq(S) /\ c \in Seq(S) /\ b \in Seq(S)
      /\ n \in Nat /\ Len(t) = n /\ Len(c) = n /\ n <= Len(b)
  BY <1>1, <1>2, Room DEF StringsIn
<1> HIDE DEF a, t, c, b
<1>4. SubSeq(c, 1, n) = c /\ SubSeq(t, 1, n) = t
  BY <1>3, SubSeqFull
<1>5. hash = HashOf(Blocks(a) \o Blocks(c))
  BY <1>1, <1>4 DEF Folded, HashUpTo, a, c
<1>6. finalize(hash, Len(a), Len(c)) = HashOfMessage(a, c)
  BY <1>3, <1>5, LengthsLast
<1>7. Computed = TagOf(request.nonce, a, c)
  BY <1>3, <1>6 DEF Computed, TagOf, DataLen, a
<1>8. buffer = Over(b, t)
  BY <1>1, <1>4 DEF BufferAt, b, t
<1>9. SubSeq(buffer, 1, n) = t
  <2>1. /\ buffer \in Seq(S) /\ Len(buffer) = Len(b) /\ Len(b) \in Nat
        /\ \A i \in 1 .. Len(b) : buffer[i] = IF i <= Len(t) THEN t[i] ELSE b[i]
    BY <1>3, <1>8, OverBytes, LenProperties
  <2> DEFINE z == 0
  <2>2. z \in Nat /\ z + 1 = 1 /\ z <= n
    BY <1>3
  <2> HIDE DEF z
  <2>3. \A i \in z + 1 .. n : buffer[i] = t[i]
    BY <1>3, <2>1, <2>2
  <2>4. SubSeq(buffer, z + 1, n) = SubSeq(t, z + 1, n)
    BY <1>3, <2>1, <2>2, <2>3, SameSubSeq
  <2> QED BY <1>4, <2>2, <2>4
<1> QED BY <1>7, <1>8, <1>9 DEF DataLen, a, c, t, b

(* Written over again, the buffer is what it would be had it been written   *)
(* over once.                                                               *)
LEMMA WrittenOver ==
  ASSUME WellFormed(request), Passes(request), NEW s, IsSlice(s), DataLen <= Len(s)
  PROVE  Over(Over(Initial(request), MsgText(request)), s) = Over(Initial(request), s)
<1> DEFINE b == Initial(request)
           t == MsgText(request)
           B == {s[i] : i \in DOMAIN s}
<1>1. PICK S : StringsIn(S, request)
  BY Strings
<1>2. /\ t \in Seq(S) /\ b \in Seq(S) /\ Len(t) = DataLen /\ DataLen <= Len(b)
      /\ s \in Seq(B)
  BY <1>1, Room DEF StringsIn, DataLen, IsSlice
<1> HIDE DEF b, t, B
<1>3. t \in Seq(S \cup B) /\ b \in Seq(S \cup B) /\ s \in Seq(S \cup B)
  BY <1>2, Widen
<1>4. Over(Over(b, t), s) = Over(b, s)
  BY <1>2, <1>3, OverTwice
<1> QED BY <1>4 DEF b, t

LEMMA TextAndTrailer ==
  ASSUME WellFormed(request), NEW tag
  PROVE  LET s == MsgText(request) \o Trailer(request, tag)
         IN IsSlice(s) /\ DataLen <= Len(s)
<1> DEFINE t == MsgText(request)
           u == Trailer(request, tag)
           A == {t[i] : i \in DOMAIN t}
           B == {u[i] : i \in DOMAIN u}
<1>1. t \in Seq(A) /\ Len(t) = DataLen /\ DataLen \in Nat /\ u \in Seq(B)
  BY MsgTextType, TrailerType DEF IsSlice, DataLen
<1> HIDE DEF t, u, A, B
<1>2. IsSlice(t \o u)
  BY <1>1, JoinSlices
<1>3. Len(t \o u) = Len(t) + Len(u) /\ Len(u) \in Nat
  <2> DEFINE C == A \cup B
  <2>1. t \in Seq(C) /\ u \in Seq(C)
    BY <1>1, Widen
  <2> HIDE DEF C
  <2> QED BY <2>1, ConcatProperties, LenProperties
<1> QED BY <1>1, <1>2, <1>3 DEF t, u

(* What the caller sees: nothing has happened to its buffer until a call    *)
(* returns.                                                                 *)
Visible == IF answer.status = "pending" THEN Initial(request) ELSE buffer

LEMMA InitialMaps == Init => Promise!Init
BY SameCalls DEF Init, Promise!Init, Result

LEMMA CallMaps ==
  ASSUME Inductive, NEW r \in Requests, Call(r)
  PROVE  Promise!Next
<1>1. /\ answer.status # "pending" /\ answer' = Result("pending", NoTag)
      /\ answer'.status = "pending"
  BY DEF Call, Inductive, Result
<1>2. Promise!Ask
  BY <1>1, SameCalls DEF Promise!Ask
<1> QED BY <1>2 DEF Promise!Next

LEMMA RefuseMaps ==
  ASSUME Inductive, Refuse
  PROVE  Promise!Next
<1>1. PICK e \in Errors : RefusedFor(request, e) /\ answer' = Result(e, NoTag)
  BY DEF Refuse
<1>2. e \in Complaints(request) /\ e # "pending"
  BY RefusalComplains, <1>1 DEF Errors
<1>3. /\ answer.status = "pending" /\ answer'.status # "pending"
      /\ buffer' = Initial(request) /\ request' = request
  BY <1>1, <1>2 DEF Refuse, Inductive, Result
<1>4. Promise!Complain
  BY <1>1, <1>2, <1>3, SameCalls DEF Promise!Complain
<1> QED BY <1>4 DEF Promise!Next

LEMMA SealMaps ==
  ASSUME Inductive, HashKeepsUp, SealDone
  PROVE  Promise!Next
<1> DEFINE t == MsgText(request)
           tag == TagOf(request.nonce, request.aad, t)
           out == t \o Trailer(request, tag)
<1>1. /\ WellFormed(request) /\ Passes(request) /\ answer.status = "pending" /\ ~Opens(request)
  BY DEF SealDone, AtEnd, Inductive
<1>2. /\ Computed = tag /\ SubSeq(buffer, 1, DataLen) = t
      /\ buffer = Over(Initial(request), t)
  BY <1>1, AtTheEnd DEF SealDone, Ciphertext
<1>3. buffer' = Over(buffer, out) /\ answer' = Result("Ok", tag) /\ request' = request
  BY <1>2, OverwriteIsOver DEF SealDone, Return
<1>4. buffer' = Over(Initial(request), out)
  BY <1>1, <1>2, <1>3, TextAndTrailer, WrittenOver
<1>5. /\ GcmSeal(request.nonce, request.aad, request.data).text = t
      /\ GcmSeal(request.nonce, request.aad, request.data).tag = tag
  BY DEF GcmSeal, MsgText
<1> HIDE DEF t, tag
<1>6. Promise!TagMade(request) = tag /\ Promise!Text(request) = t
  BY <1>1, <1>5, SameCalls DEF Promise!TagMade, Promise!Text
<1>7. Promise!Expected(request) = Over(Initial(request), out)
  BY <1>6, SameCalls DEF Promise!Expected
<1>8. Promise!Acceptable(request)
  BY <1>1, NoComplaints, SameCalls DEF Promise!Acceptable, Promise!Authentic
<1>9. answer'.status # "pending"
  BY <1>3 DEF Result
<1>10. Promise!Succeed
  BY <1>1, <1>3, <1>4, <1>6, <1>7, <1>8, <1>9, SameCalls DEF Promise!Succeed
<1> QED BY <1>10 DEF Promise!Next

(* What GcmOpen says of the call's ciphertext and tag.                      *)
LEMMA OpenSays ==
  ASSUME Opens(request)
  PROVE  LET opened == GcmOpen(request.nonce, request.aad, request.data, request.tag)
         IN /\ opened.text = MsgText(request)
            /\ opened.authentic =
                 (request.tag = TagOf(request.nonce, request.aad, Ciphertext(request)))
BY DEF GcmOpen, MsgText, Ciphertext

LEMMA AcceptMaps ==
  ASSUME Inductive, HashKeepsUp, Accept
  PROVE  Promise!Next
<1> DEFINE t == MsgText(request)
<1>1. /\ WellFormed(request) /\ Passes(request) /\ answer.status = "pending" /\ Opens(request)
      /\ request.op \in OpenOp
  BY DEF Accept, AtEnd, Inductive, Opens
<1>2. /\ Computed = TagOf(request.nonce, request.aad, Ciphertext(request))
      /\ buffer = Over(Initial(request), t)
  BY <1>1, AtTheEnd DEF Accept
<1>3. /\ buffer' = buffer /\ answer' = Result("Ok", NoTag) /\ request' = request
      /\ Computed = request.tag
  BY DEF Accept, Return
<1>4. Trailer(request, NoTag) = <<>> /\ t \o <<>> = t
  <2>1. Trailer(request, NoTag) = <<>>
    BY <1>1 DEF Trailer
  <2>2. PICK S : StringsIn(S, request)
    BY <1>1, Strings
  <2>3. t \in Seq(S)
    BY <2>2 DEF StringsIn
  <2> HIDE DEF t
  <2> QED BY <2>1, <2>3, ConcatEmptySeq
<1>5. Promise!TagMade(request) = NoTag /\ Promise!Text(request) = t
      /\ Promise!Acceptable(request)
  BY <1>1, <1>2, <1>3, OpenSays, NoComplaints, SameCalls
  DEF Promise!TagMade, Promise!Text, Promise!Acceptable, Promise!Authentic
<1> HIDE DEF t
<1>6. Promise!Expected(request) = Over(Initial(request), t)
  BY <1>4, <1>5, SameCalls DEF Promise!Expected
<1>7. answer'.status # "pending"
  BY <1>3 DEF Result
<1>8. Promise!Succeed
  BY <1>1, <1>2, <1>3, <1>5, <1>6, <1>7, SameCalls DEF Promise!Succeed
<1> QED BY <1>8 DEF Promise!Next

LEMMA RejectMaps ==
  ASSUME Inductive, HashKeepsUp, Reject
  PROVE  Promise!Next
<1> DEFINE t == MsgText(request)
           zeros == ZeroBytes(DataLen)
<1>1. /\ WellFormed(request) /\ Passes(request) /\ answer.status = "pending" /\ Opens(request)
  BY DEF Reject, AtEnd, Inductive
<1>2. /\ Computed = TagOf(request.nonce, request.aad, Ciphertext(request))
      /\ buffer = Over(Initial(request), t)
  BY <1>1, AtTheEnd DEF Reject
<1>3. /\ buffer' = Over(buffer, zeros) /\ answer' = Result("Decrypt", NoTag)
      /\ request' = request /\ Computed # request.tag
  BY OverwriteIsOver DEF Reject, Return
<1>4. IsSlice(zeros) /\ DataLen <= Len(zeros)
  BY <1>1, DataLenType, ZeroType
<1> HIDE DEF zeros
<1>5. buffer' = Over(Initial(request), zeros)
  BY <1>1, <1>2, <1>3, <1>4, WrittenOver
<1>6. Promise!Complaints(request) = {} /\ ~Promise!Authentic(request)
  BY <1>1, <1>2, <1>3, OpenSays, NoComplaints, SameCalls DEF Promise!Authentic
<1>7. answer'.status # "pending"
  BY <1>3 DEF Result
<1>8. Promise!Wiped(request, Initial(request)) = Over(Initial(request), zeros)
  BY SameCalls DEF Promise!Wiped, zeros, DataLen
<1>9. Promise!Reject
  BY <1>1, <1>3, <1>5, <1>6, <1>7, <1>8, SameCalls DEF Promise!Reject
<1> QED BY <1>9 DEF Promise!Next

(* Everything between the call and its return is invisible.                 *)
LEMMA StepMaps ==
  Inductive /\ HashKeepsUp /\ [Next]_vars =>
    [Promise!Next]_<<request, answer, Visible>>
<1> SUFFICES ASSUME Inductive, HashKeepsUp, [Next]_vars
             PROVE  Promise!Next \/ UNCHANGED <<request, answer, Visible>>
  OBVIOUS
<1>1. CASE Begin \/ SealBatch \/ OpenBatch \/ FoldLastBatch \/ SealTail \/ SealTailBlocks
           \/ SealPartial \/ OpenTail
  <2>1. pc # "idle" /\ UNCHANGED <<request, answer>>
    BY <1>1 DEF Begin, SealBatch, OpenBatch, FoldLastBatch, SealTail, SealTailBlocks,
                SealPartial, OpenTail, InTail
  <2>2. answer.status = "pending"
    BY <2>1 DEF Inductive
  <2> QED BY <2>1, <2>2 DEF Visible
<1>2. CASE Refuse \/ SealDone \/ Accept \/ Reject
  BY <1>2, RefuseMaps, SealMaps, AcceptMaps, RejectMaps
<1>3. CASE Step
  BY <1>1, <1>2, <1>3 DEF Step
<1>4. CASE \E r \in Requests : Call(r)
  BY <1>4, CallMaps
<1>5. CASE UNCHANGED vars
  BY <1>5 DEF vars, Visible
<1> QED BY <1>3, <1>4, <1>5 DEF Next, Returned

(* The call implements its promise: whatever the message, the associated    *)
(* data, the operation and the buffer, what it returns is SP 800-38D's      *)
(* ciphertext and tag, or its plaintext if the tag is genuine, laid out as  *)
(* the operation says; a refused call has left its buffer alone, and a      *)
(* rejected one holds zeros where the plaintext was (seal, open,            *)
(* seal_in_place, open_in_place and the methods of Aes256Gcm).              *)
THEOREM PromiseKept == Spec => KeepsPromise
<1>1. Inductive /\ HashKeepsUp /\ [Next]_vars =>
        [Promise!Next]_<<request, answer,
                         IF answer.status = "pending" THEN Initial(request) ELSE buffer>>
  BY StepMaps DEF Visible
<1> QED BY <1>1, InitialMaps, InductiveHolds, HashKeepsUpHolds, PTL
        DEF Spec, KeepsPromise, Promise!Spec
=============================================================================
