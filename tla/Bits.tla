-------------------------------- MODULE Bits --------------------------------
(* Strings of bits as the sets of the positions that hold a one.            *)

Xor(a, b) == (a \ b) \cup (b \ a)
=============================================================================
