-------------------------- MODULE MCSynchronizedRW --------------------------
(* Every mix of readers and writers among a few threads.                   *)
EXTENDS SynchronizedRW, TLC

ThreadSymmetry == Permutations(Threads)
=============================================================================
