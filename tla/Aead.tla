-------------------------------- MODULE Aead --------------------------------
(***************************************************************************)
(* What a call of a handle promises its caller, whatever the               *)
(* implementation does in between: one step that asks and one that         *)
(* answers.  The answer to an acceptable call is the scheme's (SP 800-38D, *)
(* RFC 8452), which Seal and Open stand for; a refused call                *)
(* leaves the buffer it was given alone, or wipes the part of it that was  *)
(* to hold the plaintext when authentication is what failed.               *)
(***************************************************************************)
EXTENDS AeadCalls

CONSTANTS
  Seal(_, _, _),     (* Of nonce, associated data and plaintext: `text` and  *)
                     (* `tag`.                                               *)
  Open(_, _, _, _)   (* Of nonce, associated data, ciphertext and tag:       *)
                     (* `text` and `authentic`.                              *)

VARIABLES
  request,   (* The call being made, or the last one.                        *)
  answer,    (* Its status: "pending", "Ok" or the error; and its tag.       *)
  visible    (* The buffer, as the caller sees it.                           *)

Result(status, tag) == [status |-> status, tag |-> tag]

Authentic(r) == Opens(r) => Open(r.nonce, r.aad, r.data, r.tag).authentic

Acceptable(r) == Complaints(r) = {} /\ Authentic(r)

(* The tag a seal makes; an open returns none.                              *)
TagMade(r) == IF Opens(r) THEN NoTag ELSE Seal(r.nonce, r.aad, r.data).tag

Text(r) ==
  IF Opens(r) THEN Open(r.nonce, r.aad, r.data, r.tag).text
  ELSE Seal(r.nonce, r.aad, r.data).text

Expected(r) == Overwrite(Initial(r), Text(r) \o Trailer(r, TagMade(r)))

Wiped(r, b) == Overwrite(b, ZeroBytes(Len(r.data)))

Init ==
  /\ request = [op |-> "none"]
  /\ answer = Result("Ok", NoTag)
  /\ visible = <<>>

(* The caller may ask for anything.                                         *)
Ask ==
  /\ answer.status # "pending"
  /\ answer' = Result("pending", NoTag)
  /\ visible' = Initial(request')

Succeed ==
  /\ answer.status = "pending" /\ Acceptable(request)
  /\ answer' = Result("Ok", TagMade(request))
  /\ visible' = Expected(request)
  /\ UNCHANGED request

Complain ==
  /\ answer.status = "pending"
  /\ \E e \in Complaints(request) : answer' = Result(e, NoTag)
  /\ UNCHANGED <<request, visible>>

Reject ==
  /\ answer.status = "pending" /\ Complaints(request) = {} /\ ~Authentic(request)
  /\ answer' = Result("Decrypt", NoTag)
  /\ visible' = Wiped(request, visible)
  /\ UNCHANGED request

Next == Ask \/ Succeed \/ Complain \/ Reject

Spec == Init /\ [][Next]_<<request, answer, visible>>
=============================================================================
