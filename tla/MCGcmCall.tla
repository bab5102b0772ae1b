------------------------------ MODULE MCGcmCall ------------------------------
(* TLC instance of GcmCall: which calls are made.                           *)
EXTENDS GcmCall

CONSTANTS Lengths, AadLengths

AlteredTags(tag) == {[tag EXCEPT !.hash = Xor(@, {<<0, 0, <<"flip">>>>})]}

Gcm ==
  INSTANCE AeadRequests WITH
    MaxDataLen <- MAX_GCM_DATA_LEN, Ops <- SealOp \cup OpenOp,
    Sealed <- GcmSeal, Altered <- AlteredTags

AllRequests == Gcm!AllRequests
=============================================================================
