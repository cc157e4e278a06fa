---------------------------- MODULE MCCounterWait ---------------------------
(***************************************************************************)
(* CounterWait for TLC: two waiters, and a counter that goes past a         *)
(* condition and stops at one.                                             *)
(***************************************************************************)
EXTENDS CounterWait

CONSTANTS w1, w2

MCWaiter == {w1, w2}

=============================================================================
