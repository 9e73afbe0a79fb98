---------------------------- MODULE MCClientSet ----------------------------
(* The requests of ClientSet are interchangeable.                          *)
EXTENDS ClientSet, TLC

Interchangeable == Permutations(Requests)
============================================================================
