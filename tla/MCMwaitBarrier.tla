--------------------------- MODULE MCMwaitBarrier ---------------------------
(***************************************************************************)
(* MwaitBarrier for TLC: the worker and the waiter of one barrier, over any *)
(* number of rounds.                                                       *)
(***************************************************************************)
EXTENDS MwaitBarrier

CONSTANTS worker, waiter

MCThread == {worker, waiter}

=============================================================================
