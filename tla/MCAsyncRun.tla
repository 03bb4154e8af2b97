------------------------------ MODULE MCAsyncRun ------------------------------
(* One run of either kind and two invocations of its worker: the instance  *)
(* of AsyncRun that TLC explores.                                         *)
EXTENDS AsyncRun, TLC

CONSTANTS w1, w2

(* The invocations are alike. *)
WorkerSymmetry == Permutations(Workers)
=============================================================================
