--------------------------- MODULE MCSynchBarrier ---------------------------
(***************************************************************************)
(* SynchBarrier for TLC.  The threads are interchangeable and no fairness   *)
(* is checked, so TLC may use the symmetry.  Four threads are enough for    *)
(* two of them to find the count full, a third to arrive in the next round  *)
(* between their stores, and a fourth not to have left the last one.        *)
(***************************************************************************)
EXTENDS SynchBarrier, TLC

CONSTANTS t1, t2, t3, t4

MCTwo == {t1, t2}
MCFour == {t1, t2, t3, t4}

MCSymmetry == Permutations(MCFour)

=============================================================================
