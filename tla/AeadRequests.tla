---------------------------- MODULE AeadRequests ----------------------------
(* The calls that the TLC instances of GcmCall and SivCall make.            *)
EXTENDS AeadCalls

CONSTANTS
  Ops,              (* The operations of the scheme.                         *)
  Lengths,          (* Message lengths.                                      *)
  AadLengths,
  Sealed(_, _, _),  (* The scheme's Seal.                                    *)
  Altered(_)        (* Tags made from a genuine one.                         *)

Plaintext(n) == Spread("message", 0, n)
AadOf(n) == Spread("aad", 0, n)

NonceLengths(op) ==
  IF op \in {"decrypt_envelope", "decrypt_envelope_to"}
    THEN {NonceSize} ELSE {NonceSize, NonceSize + 1}

TakesAad(op) == op \notin {"encrypt_nonce_appended_to", "encrypt_nonce_appended_in_place"}

(* The caller's buffer: one byte short, exact, or with room to spare.       *)
Rooms(op, needed) ==
  IF op \in CallerBufferOp THEN {needed, needed + 2} \cup {x \in {needed - 1} : needed > 0}
  ELSE {0}

Make(op, a, data, nonce, nonce_len, tag, complete, room) ==
  [op |-> op, aad |-> AadOf(a), data |-> data, nonce |-> nonce, nonce_len |-> nonce_len,
   tag |-> tag, complete |-> complete, room |-> room]

SealRequests ==
  UNION {UNION {
    {Make(op, a, Plaintext(n), "n", l, NoTag, TRUE, room) :
       l \in NonceLengths(op),
       room \in Rooms(op, n + TagSize + (IF op \in AppendsNonce THEN NonceSize ELSE 0))} :
    n \in Lengths} : op \in SealOp \cap Ops, a \in AadLengths}

(* What reaches an open: the message as sealed, one of its bytes changed,   *)
(* the tag changed, the wrong nonce, or associated data that is not its own.*)
Flip(s, i) == [s EXCEPT ![i] = (@ \cup {<<"flip">>}) \ (@ \cap {<<"flip">>})]

Supplied(a, n) ==
  LET made == Sealed("n", AadOf(a), Plaintext(n))
      genuine == [data |-> made.text, nonce |-> "n", tag |-> made.tag]
      foreign == Sealed("n", AadOf(a + 1), Plaintext(n))
  IN {genuine, [genuine EXCEPT !.nonce = "m"],
      [genuine EXCEPT !.data = foreign.text, !.tag = foreign.tag]}
     \cup {[genuine EXCEPT !.tag = t] : t \in Altered(made.tag)}
     \cup {[genuine EXCEPT !.data = Flip(@, i)] : i \in {1, n} \cap 1 .. n}

OpenRequests ==
  UNION {UNION {UNION {
    {Make(op, a, s.data, s.nonce, l, s.tag, TRUE, room) :
       l \in NonceLengths(op), room \in Rooms(op, n)} :
    s \in Supplied(a, n)} : n \in Lengths} : op \in OpenOp \cap Ops, a \in AadLengths}

TruncatedRequests ==
  {Make(op, 0, <<>>, "n", NonceSize, NoTag, FALSE, 0) : op \in OpenOp \cap Ops}

AllRequests ==
  {r \in SealRequests \cup OpenRequests \cup TruncatedRequests :
     TakesAad(r.op) \/ r.aad = <<>>}
=============================================================================
