-------------------------- MODULE MCSynchronizable --------------------------
(* Two objects and an unsynchronized one, all pairs and all kinds of claim. *)
EXTENDS Synchronizable, TLC

Symmetry == Permutations(Threads) \cup Permutations(Objects \ Unsynchronized)
=============================================================================
