--------------------------- MODULE MCKeyGenerator ---------------------------
(* TLC instances of KeyGenerator: process slots are interchangeable.        *)
EXTENDS KeyGenerator, TLC

ProcSymmetry == Permutations(Proc)
=============================================================================
