--------------------------- MODULE CentralBarrier --------------------------
(***************************************************************************)
(* spin_barrier(): the barrier without local sense, which synch.h and the   *)
(* older spin.c both have, line for line the same but for the flag's        *)
(* initial value.                                                          *)
(*                                                                         *)
(* The first thread to arrive clears the flag and every thread counts       *)
(* itself, under the lock; the test whether the count is full, the reset    *)
(* and the flag store come after the unlock, so two threads may both find   *)
(* it full.                                                                *)
(*                                                                         *)
(* The lock is the abstract one of module Mutex, which SpinLockProofs shows *)
(* the spin locks to implement.                                            *)
(***************************************************************************)
EXTENDS Integers, FiniteSets

CONSTANTS Thread,  \* the threads that call the barrier
          Rounds   \* how many times each of them calls it

ASSUME ThreadFinite == IsFiniteSet(Thread) /\ Thread # {}
ASSUME RoundsPositive == Rounds \in Nat \ {0}

VARIABLES waiting,        \* threads inside spin_lock(&sb->lock)
          holding,        \* the thread that has the lock
          current_count,  \* sb->current_count
          release_flag,   \* sb->release_flag
          reg,            \* per thread: the register of current_count++
          pc,
          entered,        \* per thread: its calls so far
          returned        \* per thread: its calls that have returned

vars == <<waiting, holding, current_count, release_flag, reg, pc, entered, returned>>

L == INSTANCE Mutex

nthreads == Cardinality(Thread)

\* spin_barrier_init: release_flag is 1 in synch.h and 0 in spin.c
Init ==
    /\ L!Init
    /\ current_count = 0
    /\ release_flag \in {0, 1}
    /\ reg = [t \in Thread |-> 0]
    /\ pc = [t \in Thread |-> "work"]
    /\ entered = [t \in Thread |-> 0]
    /\ returned = [t \in Thread |-> 0]

Goto(t, from, to) ==
    /\ pc[t] = from
    /\ pc' = [pc EXCEPT ![t] = to]

Call(t) ==
    /\ entered[t] < Rounds
    /\ Goto(t, "work", "lock")
    /\ entered' = [entered EXCEPT ![t] = entered[t] + 1]
    /\ L!Request(t)
    /\ UNCHANGED <<current_count, release_flag, reg, returned>>

\* A wrong barrier: it counts without the lock.
LockNothing(t) ==
    /\ Goto(t, "lock", "first")
    /\ waiting' = waiting \ {t}
    /\ holding' = holding \cup {t}
    /\ UNCHANGED <<current_count, release_flag, reg, entered, returned>>

Lock(t) ==
    /\ Goto(t, "lock", "first")
    /\ L!Acquire(t)
    /\ UNCHANGED <<current_count, release_flag, reg, entered, returned>>

\* Under the lock the count is looked at, but a late last arrival of the
\* round before resets it without the lock.
First(t) ==
    /\ Goto(t, "first", IF current_count = 0 THEN "clear" ELSE "load")
    /\ UNCHANGED <<waiting, holding, current_count, release_flag, reg, entered, returned>>

\* A wrong arrival: the first to come leaves the flag as it finds it.
ClearNothing(t) ==
    /\ Goto(t, "clear", "load")
    /\ UNCHANGED <<waiting, holding, current_count, release_flag, reg, entered, returned>>

\* The first to come clears the flag.
Clear(t) ==
    /\ Goto(t, "clear", "load")
    /\ release_flag' = 0
    /\ UNCHANGED <<waiting, holding, current_count, reg, entered, returned>>

\* (sb->current_count)++ reads the count ...
Load(t) ==
    /\ Goto(t, "load", "store")
    /\ reg' = [reg EXCEPT ![t] = current_count]
    /\ UNCHANGED <<waiting, holding, current_count, release_flag, entered, returned>>

\* ... and writes it back.
Store(t) ==
    /\ Goto(t, "store", "unlock")
    /\ current_count' = reg[t] + 1
    /\ UNCHANGED <<waiting, holding, release_flag, reg, entered, returned>>

Unlock(t) ==
    /\ Goto(t, "unlock", "test")
    /\ L!Release(t)
    /\ UNCHANGED <<current_count, release_flag, reg, entered, returned>>

\* The count is read again, without the lock.
Test(t) ==
    /\ Goto(t, "test", IF current_count = nthreads THEN "reset" ELSE "wait")
    /\ UNCHANGED <<waiting, holding, current_count, release_flag, reg, entered, returned>>

Reset(t) ==
    /\ Goto(t, "reset", "flip")
    /\ current_count' = 0
    /\ UNCHANGED <<waiting, holding, release_flag, reg, entered, returned>>

Flip(t) ==
    /\ Goto(t, "flip", "return")
    /\ release_flag' = 1
    /\ UNCHANGED <<waiting, holding, current_count, reg, entered, returned>>

\* spin_on_condition, and the return of whoever released the others
Leave(t) ==
    /\ \/ Goto(t, "wait", "work") /\ release_flag = 1
       \/ Goto(t, "return", "work")
    /\ returned' = [returned EXCEPT ![t] = returned[t] + 1]
    /\ UNCHANGED <<waiting, holding, current_count, release_flag, reg, entered>>

Step(t) ==
    \/ Lock(t) \/ First(t) \/ Clear(t) \/ Load(t) \/ Store(t) \/ Unlock(t)
    \/ Test(t) \/ Reset(t) \/ Flip(t) \/ Leave(t)

Next == \E t \in Thread : Call(t) \/ Step(t)

\* A thread inside the barrier keeps running; nothing makes it call.
Fairness == \A t \in Thread : WF_vars(Step(t))

Spec == Init /\ [][Next]_vars

FairSpec == Spec /\ Fairness

-----------------------------------------------------------------------------

TypeOK ==
    /\ waiting \subseteq Thread
    /\ holding \in {{}} \cup {{t} : t \in Thread}
    /\ current_count \in 0 .. nthreads
    /\ release_flag \in {0, 1}
    /\ reg \in [Thread -> 0 .. nthreads]
    /\ pc \in [Thread -> {"work", "lock", "first", "clear", "load", "store", "unlock",
                          "test", "reset", "flip", "wait", "return"}]
    /\ entered \in [Thread -> 0 .. Rounds]
    /\ returned \in [Thread -> 0 .. Rounds]

\* The barrier property: nobody has come back from a call that somebody else
\* has not made yet.  It holds of a barrier used once, from either initial
\* flag; the second use breaks it, when a thread that found the count full
\* late sets the flag that the next round's first thread has cleared.
NobodyLeavesEarly ==
    \A t, u \in Thread : returned[t] <= entered[u]

\* A thread that has counted itself is released by the flag; one that has not
\* yet seen to it that the flag is clear does not look at it.
Stage == [t \in Thread |-> IF pc[t] = "work" THEN "work"
                          ELSE IF pc[t] \in {"lock", "first", "clear"} THEN "waiting"
                          ELSE IF release_flag = 1 THEN "released"
                          ELSE "waiting"]

B == INSTANCE Barrier WITH st <- Stage

\* Used once, it keeps the promise of a barrier: one store to the flag lets
\* everybody go, after everybody has come, although several threads may find
\* the count full and reset it.
ImplementsBarrier == B!Spec

\* Once every thread has made all its calls, they all return.  It holds of a
\* barrier used once, also when several threads reset it.
EverybodyReturns ==
    (\A t \in Thread : entered[t] = Rounds) ~> (\A t \in Thread : returned[t] = Rounds)

=============================================================================
