----------------------------- MODULE MCSpinLock -----------------------------
(***************************************************************************)
(* SpinLock for TLC: three threads and every implementation.  Three is the  *)
(* least number for which one thread leaves, a second gets in and a third   *)
(* has an attempt left over from before.                                   *)
(***************************************************************************)
EXTENDS SpinLock

CONSTANTS t1, t2, t3

MCThread == {t1, t2, t3}

=============================================================================
