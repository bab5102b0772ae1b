--------------------------------- MODULE Siv ---------------------------------
(***************************************************************************)
(* AES-256-GCM-SIV as RFC 8452 defines it.  A tag is the encryption of the *)
(* hash of the plaintext; it is also the first counter block, its first    *)
(* word the counter and its last bit set.  The keys depend on the nonce.   *)
(***************************************************************************)
EXTENDS Algebra

CONSTANT TagWord(_), TagTop(_)   (* Of the encryption of a hash: the counter *)
                                 (* word, and the bit the counter block sets.*)

(* One block more than the counter words.                                   *)
MutMaxSivLen == (CtrMod + 1) * BlockSize

(* 2^36 bytes in the code: as many blocks as there are counter words.       *)
MAX_SIV_LEN == CtrMod * BlockSize

increment_siv_counter(word) == (word + 1) % CtrMod

(* The tag of a hash, under the keys of `nonce`.                            *)
siv_tag(nonce, hash) ==
  [cipher |-> <<nonce, hash>>, word |-> TagWord(hash), top |-> TagTop(hash)]

(* What a counter block holds besides its word, under the keys of `nonce`.  *)
Stream(nonce, tag) == <<nonce, tag.cipher>>

SivCtr(nonce, tag, s) == CtrMode(Stream(nonce, tag), tag.word, s)

SivSeal(nonce, aad, plaintext) ==
  LET tag == siv_tag(nonce, HashOfMessage(aad, plaintext))
  IN [text |-> SivCtr(nonce, tag, plaintext), tag |-> tag]

SivOpen(nonce, aad, ciphertext, tag) ==
  LET plaintext == SivCtr(nonce, tag, ciphertext)
  IN [text |-> plaintext, authentic |-> tag = siv_tag(nonce, HashOfMessage(aad, plaintext))]
=============================================================================
