----------------------------- MODULE MCNonceGen -----------------------------
(* TLC instances of NonceGen: process slots are interchangeable.            *)
EXTENDS NonceGen, TLC

ProcSymmetry == Permutations(Proc)
=============================================================================
