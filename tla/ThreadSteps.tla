---------------------------- MODULE ThreadSteps ----------------------------
(***************************************************************************)
(* What the models of the gPb library's locks share: threads, and where in *)
(* the code each one is.                                                   *)
(***************************************************************************)
CONSTANT Threads

VARIABLE pc  (* pc[t]: the next operation of thread t *)

Go(t, from, to) == pc[t] = from /\ pc' = [pc EXCEPT ![t] = to]
=============================================================================
