---------------------------- MODULE MCKeyStorage ----------------------------
(* TLC instance of KeyStorage.                                              *)
EXTENDS KeyStorage, TLC

Interchangeable == Permutations(Threads) \cup Permutations(Keys)
=============================================================================
