-------------------------- MODULE MCCentralBarrier -------------------------
(***************************************************************************)
(* CentralBarrier for TLC: four threads that use the barrier once, and two  *)
(* threads that use it twice.                                              *)
(***************************************************************************)
EXTENDS CentralBarrier

CONSTANTS t1, t2, t3, t4

MCTwo == {t1, t2}
MCFour == {t1, t2, t3, t4}

=============================================================================
