-------------------------- MODULE MCLSenseBarrier --------------------------
(***************************************************************************)
(* LSenseBarrier for TLC: three threads, any number of rounds, so that one  *)
(* can be counting in a round while another has not left the last one and a *)
(* third is inside the lock.                                               *)
(***************************************************************************)
EXTENDS LSenseBarrier

CONSTANTS t1, t2, t3

MCThread == {t1, t2, t3}

=============================================================================
