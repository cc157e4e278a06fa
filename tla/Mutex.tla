------------------------------- MODULE Mutex -------------------------------
(***************************************************************************)
(* What a lock promises, whatever word it is built on: threads ask for it,  *)
(* at most one of them holds it, and only the holder gives it back.         *)
(***************************************************************************)

CONSTANT Thread    \* the threads that share the lock

VARIABLES waiting, \* the threads that have called lock and not returned
          holding  \* the threads inside the critical section

mvars == <<waiting, holding>>

Init ==
    /\ waiting = {}
    /\ holding = {}

\* A thread that has nothing to do with the lock starts a lock operation.
Request(t) ==
    /\ t \notin waiting \cup holding
    /\ waiting' = waiting \cup {t}
    /\ UNCHANGED holding

\* Any one of the waiting threads is let in, when nobody is inside.
Acquire(t) ==
    /\ t \in waiting
    /\ holding = {}
    /\ holding' = {t}
    /\ waiting' = waiting \ {t}

Release(t) ==
    /\ t \in holding
    /\ holding' = holding \ {t}
    /\ UNCHANGED waiting

Next == \E t \in Thread : Request(t) \/ Acquire(t) \/ Release(t)

Spec == Init /\ [][Next]_mvars

=============================================================================
