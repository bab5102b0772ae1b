------------------------------ MODULE MCSivCall ------------------------------
(* TLC instance of SivCall: which calls are made, and what a hash encrypts  *)
(* to as far as the counter sees it.                                        *)
EXTENDS SivCall, FiniteSets

CONSTANTS Lengths, AadLengths

(* Messages start at counter words from all over the range.                 *)
WordOf(hash) == (7 * Cardinality(hash)) % CtrMod
TopOf(hash) == Cardinality(hash) % 2 = 0

AlteredTags(t) ==
  {[t EXCEPT !.cipher[2] = Xor(@, {<<0, 0, <<"flip">>>>})],
   [t EXCEPT !.word = increment_siv_counter(@)],
   [t EXCEPT !.top = ~@]}

Siv ==
  INSTANCE AeadRequests WITH
    MaxDataLen <- MAX_SIV_LEN, MaxAadLen <- MAX_SIV_LEN, Ops <- SivOps,
    Sealed <- SivSeal, Altered <- AlteredTags

AllRequests == Siv!AllRequests
=============================================================================
