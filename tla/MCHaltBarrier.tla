--------------------------- MODULE MCHaltBarrier ---------------------------
(***************************************************************************)
(* HaltBarrier for TLC: three threads, so that one sends, one is halted and *)
(* one is about to halt.  The build that keeps the condition in rax needs   *)
(* two.                                                                    *)
(***************************************************************************)
EXTENDS HaltBarrier

CONSTANTS t1, t2, t3

MCTwo == {t1, t2}
MCThree == {t1, t2, t3}

=============================================================================
