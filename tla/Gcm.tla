--------------------------------- MODULE Gcm ---------------------------------
(* AES-256-GCM as SP 800-38D defines it.                                    *)
EXTENDS Algebra

(* The counter words of the tag mask and of the wrap are not set apart.     *)
MutMaxDataLen == CtrMod * BlockSize

(* The counter words but the first and one spare.                           *)
MAX_GCM_DATA_LEN == (CtrMod - 2) * BlockSize

(* j0: the first counter block, whose keystream masks the tag.              *)
FirstCounter == 1

increment_counter(ctr) == (ctr + 1) % CtrMod

(* GCTR from the second counter block on.                                   *)
Gctr(nonce, s) == CtrMode(nonce, FirstCounter + 1, s)

(* The tag: the hash, masked with the keystream of a counter block.         *)
Tag(hash, nonce, ctr) == [hash |-> hash, nonce |-> nonce, ctr |-> ctr]

TagOf(nonce, aad, ciphertext) == Tag(HashOfMessage(aad, ciphertext), nonce, FirstCounter)

GcmSeal(nonce, aad, plaintext) ==
  LET ciphertext == Gctr(nonce, plaintext)
  IN [text |-> ciphertext, tag |-> TagOf(nonce, aad, ciphertext)]

GcmOpen(nonce, aad, ciphertext, tag) ==
  [text |-> Gctr(nonce, ciphertext), authentic |-> tag = TagOf(nonce, aad, ciphertext)]
=============================================================================
