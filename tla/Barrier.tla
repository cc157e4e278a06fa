------------------------------ MODULE Barrier ------------------------------
(***************************************************************************)
(* What a barrier promises.  A thread that calls it waits; when every       *)
(* thread of the barrier is waiting, all of them are released, in one step; *)
(* a released thread returns on its own and may then call again, before     *)
(* slower ones have returned.                                              *)
(***************************************************************************)

CONSTANT Thread    \* the threads that meet at the barrier

VARIABLE st        \* per thread: work, waiting or released

Init == st = [t \in Thread |-> "work"]

\* A thread calls the barrier.
Enter(t) ==
    /\ st[t] = "work"
    /\ st' = [st EXCEPT ![t] = "waiting"]

\* The round is complete: nobody is still at work, and nobody is still on
\* the way out of the round before.
Release ==
    /\ \A t \in Thread : st[t] = "waiting"
    /\ st' = [t \in Thread |-> "released"]

\* A released thread returns from the call.
Leave(t) ==
    /\ st[t] = "released"
    /\ st' = [st EXCEPT ![t] = "work"]

Next == Release \/ \E t \in Thread : Enter(t) \/ Leave(t)

Spec == Init /\ [][Next]_st

\* Once everybody waits, everybody is released.
EveryRoundEnds ==
    (\A t \in Thread : st[t] = "waiting") ~> (\A t \in Thread : st[t] = "released")

\* A released thread does return.
EveryReleaseReturns ==
    \A t \in Thread : st[t] = "released" ~> st[t] = "work"

=============================================================================
