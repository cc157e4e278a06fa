------------------------------ MODULE SpinLock ------------------------------
(***************************************************************************)
(* Threads that lock and unlock one spin lock, over and over.  Which of the *)
(* five implementations the program was built with is `kind`, chosen once.  *)
(*                                                                         *)
(* A lock operation is a loop of two kinds of step: the locked              *)
(* read-modify-write at label 1 (Try) and, once that has failed, the        *)
(* unlocked re-read in the spin loop (Spin), which leaves the loop when the *)
(* word looks free and goes back to label 1, where the attempt may fail     *)
(* again.  spin_unlock is one plain store.                                 *)
(***************************************************************************)
EXTENDS SpinWord, FiniteSets

CONSTANT Thread    \* the threads that use the lock

ASSUME ThreadFinite == IsFiniteSet(Thread) /\ Thread # {}

VARIABLES kind,    \* the lock implementation in use
          lock,    \* the lock word, *spin_var
          pc       \* per thread: out, try, spin or in (the critical section)

vars == <<kind, lock, pc>>

\* spin_lock_init of whichever implementation
Init ==
    /\ kind \in LockKind
    /\ lock = Unlocked(kind)
    /\ pc = [t \in Thread |-> "out"]

\* A thread calls the lock operation.
Call(t) ==
    /\ pc[t] = "out"
    /\ pc' = [pc EXCEPT ![t] = "try"]
    /\ UNCHANGED <<kind, lock>>

\* Label 1: the locked decrement or exchange, and the branch on its result.
Try(t) ==
    /\ pc[t] = "try"
    /\ lock' = Attempt(kind, lock).word
    /\ pc' = [pc EXCEPT ![t] = IF Attempt(kind, lock).won THEN "in" ELSE "spin"]
    /\ UNCHANGED kind

\* The spin loop; while the word is taken it reads again and changes nothing.
Spin(t) ==
    /\ pc[t] = "spin"
    /\ SeesFree(kind, lock)
    /\ pc' = [pc EXCEPT ![t] = "try"]
    /\ UNCHANGED <<kind, lock>>

\* A wrong unlock: it undoes the holder's own decrement, as a semaphore does.
UnlockByIncrement(t) ==
    /\ pc[t] = "in"
    /\ lock' = IF kind \in Decrementing THEN lock + 1 ELSE Unlocked(kind)
    /\ pc' = [pc EXCEPT ![t] = "out"]
    /\ UNCHANGED kind

\* spin_unlock stores the free value; it forgets the decrements of everyone
\* who is spinning.
Unlock(t) ==
    /\ pc[t] = "in"
    /\ lock' = Unlocked(kind)
    /\ pc' = [pc EXCEPT ![t] = "out"]
    /\ UNCHANGED kind

Step(t) == Try(t) \/ Spin(t) \/ Unlock(t)

Next == \E t \in Thread : Call(t) \/ Step(t)

\* A thread that is inside the lock operation or the critical section keeps
\* running; nothing says that it ever calls lock again.
Fairness == \A t \in Thread : WF_vars(Step(t))

Spec == Init /\ [][Next]_vars

FairSpec == Spec /\ Fairness

-----------------------------------------------------------------------------

TypeOK ==
    /\ kind \in LockKind
    /\ lock \in (1 - Cardinality(Thread)) .. 1
    /\ pc \in [Thread -> {"out", "try", "spin", "in"}]

\* Threads whose failed or successful attempt is still counted in the word.
Inside == {t \in Thread : pc[t] = "in"}
Counted == {t \in Thread : pc[t] \in {"spin", "in"}}

\* No two threads are in the critical section, whichever implementation is
\* used and however attempts, re-reads and the plain store of spin_unlock
\* interleave.
MutualExclusion ==
    \A t, u \in Thread : pc[t] = "in" /\ pc[u] = "in" => t = u

\* The word tells the truth: it looks free to a spinning thread exactly when
\* nobody is inside, although losers keep decrementing or overwriting it and
\* spin_unlock ignores what they did.
WordTellsHolder == SeesFree(kind, lock) <=> Inside = {}

\* The word of the decrementing locks never drifts: it is at most 1, and
\* below that by no more than the threads that have taken a decrement and are
\* still spinning or inside -- a thread decrements at most once per time the
\* lock is taken.  So the 32-bit word cannot wrap round into a positive
\* value.  The word of the exchange locks is 0 or 1.
WordBounded ==
    /\ lock <= 1
    /\ kind \in Decrementing => lock >= 1 - Cardinality(Counted)
    /\ kind \notin Decrementing => lock >= 0

M == INSTANCE Mutex WITH waiting <- {t \in Thread : pc[t] \in {"try", "spin"}},
                         holding <- Inside

\* Every behaviour of the five locks is a behaviour of the abstract lock.
ImplementsMutex == M!Spec

\* Deadlock freedom: while some thread wants the lock, some thread gets in.
\* No thread in particular is promised its turn.
LockProgress ==
    (\E t \in Thread : pc[t] \in {"try", "spin"}) ~> (\E t \in Thread : pc[t] = "in")

=============================================================================
