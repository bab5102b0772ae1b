------------------------------ MODULE AeadCalls ------------------------------
(***************************************************************************)
(* The calls of the AES-256-GCM and AES-256-GCM-SIV handles of             *)
(* src/aes_gcm/mod.rs and siv.rs: their arguments, what they must be       *)
(* refused for, and the layout of what they return.  The public encrypt,   *)
(* encrypt_to, decrypt and decrypt_to are the envelope operations below    *)
(* under a generated nonce.                                                *)
(***************************************************************************)
EXTENDS Naturals, Sequences

CONSTANTS
  TagSize,     (* 16 in the code.                                            *)
  NonceSize,   (* 12 in the code.                                            *)
  MaxDataLen,  (* The longest message, and the longest associated data, that *)
  MaxAadLen,   (* the scheme accepts.                                        *)
  NoTag

AppendsNonce ==
  {"encrypt_envelope", "encrypt_envelope_to",
   "encrypt_nonce_appended_to", "encrypt_nonce_appended_in_place"}
Detached ==
  {"seal_detached", "seal_in_place_detached", "open_detached", "open_in_place_detached"}
SealOp == {"encrypt", "encrypt_to", "seal_detached", "seal_in_place_detached"} \cup AppendsNonce
OpenOp == {"decrypt", "decrypt_to", "decrypt_envelope", "decrypt_envelope_to",
           "open_detached", "open_in_place_detached"}

(* Works in the message's own buffer: the caller's, or a copy of it that is *)
(* returned. The others write to a buffer of their own.                     *)
InPlaceOp ==
  {"encrypt_envelope", "encrypt_nonce_appended_in_place", "seal_in_place_detached",
   "decrypt", "decrypt_envelope", "open_in_place_detached"}

(* Writes to an output buffer the caller gives, of any length.              *)
CallerBufferOp ==
  {"encrypt_to", "encrypt_envelope_to", "encrypt_nonce_appended_to",
   "decrypt_to", "decrypt_envelope_to"}

(* A call is a record of `op`; `data`, the plaintext or the ciphertext      *)
(* without tag and nonce; `aad`; `nonce` and its length `nonce_len`; `tag`, *)
(* supplied to an open; `complete`, whether a sealed input is long enough   *)
(* to hold tag and nonce (a detached tag has its length); and `room`, the   *)
(* length of the caller's output buffer.                                    *)

Opens(r) == r.op \in OpenOp
InPlace(r) == r.op \in InPlaceOp

(* A slice of bytes.                                                        *)
IsSlice(s) == s \in Seq({s[i] : i \in DOMAIN s})

WellFormed(r) ==
  /\ r.op \in SealOp \cup OpenOp
  /\ IsSlice(r.data) /\ IsSlice(r.aad)
  /\ r.op \in CallerBufferOp => r.room \in Nat

-----------------------------------------------------------------------------
(* Buffers. *)

ZeroBytes(n) == [i \in 1 .. n |-> {}]

Spread(what, value, n) == [i \in 1 .. n |-> {<<what, value, i>>}]

(* The buffer a call works in, as it is when the call begins.               *)
Initial(r) ==
  IF InPlace(r) THEN r.data
  ELSE IF r.op \in CallerBufferOp THEN Spread("caller", 0, r.room)
  ELSE ZeroBytes(Len(r.data) + IF r.op = "encrypt" THEN TagSize ELSE 0)

(* What follows the ciphertext in the output of a seal.                     *)
Trailer(r, tag) ==
  IF r.op \in Detached \cup OpenOp THEN <<>>
  ELSE Spread("tag", tag, TagSize)
         \o IF r.op \in AppendsNonce THEN Spread("nonce", r.nonce, NonceSize) ELSE <<>>

(* `b` with its first bytes overwritten by `s`.                             *)
Overwrite(b, s) == s \o SubSeq(b, Len(s) + 1, Len(b))

-----------------------------------------------------------------------------
(* What a call may be refused for before any byte is processed.             *)

Needed(r) == Len(r.data) + Len(Trailer(r, NoTag))

Complains(r, error) ==
  CASE error = "InvalidNonceLength" -> r.nonce_len # NonceSize
    [] error = "InputTooLarge" -> Len(r.data) > MaxDataLen \/ Len(r.aad) > MaxAadLen
    [] error = "OutputTooSmall" -> r.op \in CallerBufferOp /\ r.room < Needed(r)
    [] error = "CiphertextTooShort" ->
         r.op \in {"decrypt_envelope", "decrypt_envelope_to"} /\ ~r.complete
    [] error = "Decrypt" ->
         r.op \in OpenOp \ {"decrypt_envelope", "decrypt_envelope_to"} /\ ~r.complete

Errors == {"InvalidNonceLength", "InputTooLarge", "OutputTooSmall",
           "CiphertextTooShort", "Decrypt"}

Complaints(r) == {e \in Errors : Complains(r, e)}

(* The order in which each operation checks.                                *)
Checks(r) ==
  CASE r.op = "encrypt_nonce_appended_to" ->
         <<"OutputTooSmall", "InvalidNonceLength", "InputTooLarge">>
    [] r.op \in {"decrypt_envelope", "decrypt_envelope_to"} ->
         <<"CiphertextTooShort", "InvalidNonceLength", "InputTooLarge", "OutputTooSmall">>
    [] OTHER -> <<"InvalidNonceLength", "Decrypt", "InputTooLarge", "OutputTooSmall">>

PassesUpTo(r, n) == \A i \in 1 .. n : ~Complains(r, Checks(r)[i])

Passes(r) == PassesUpTo(r, Len(Checks(r)))

(* The first check that fails gives the error.                              *)
RefusedFor(r, e) ==
  \E i \in DOMAIN Checks(r) :
    e = Checks(r)[i] /\ Complains(r, e) /\ PassesUpTo(r, i - 1)
=============================================================================
