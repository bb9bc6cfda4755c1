---------------------------- MODULE MCSemaphore ----------------------------
(* Threads that acquire and release up to two at a time.                   *)
EXTENDS Semaphore, TLC

ThreadSymmetry == Permutations(Threads)
=============================================================================
