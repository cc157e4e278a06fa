--------------------------- MODULE LSenseBarrier ---------------------------
(***************************************************************************)
(* spin_barrier_lsense() of the older spin.c, which is also the macro       *)
(* SPIN_BARRIER_LSENSE of spin.h: the barrier with a sense per thread whose *)
(* count, test, reset and flag store are all inside a spin lock, and in     *)
(* which the last thread spins on the flag like everybody else.  In         *)
(* SPIN_BARRIER_LSENSE_HLT and SPIN_BARRIER_LSENSE_HLTCNT a thread halts    *)
(* its processor, by an ioctl of the cpuctrl driver, between two looks at   *)
(* the flag, and nobody sends it an interrupt when the flag turns.         *)
(*                                                                         *)
(* The lock is the abstract one of module Mutex, which SpinLockProofs shows *)
(* the spin locks to implement.                                            *)
(***************************************************************************)
EXTENDS Integers, FiniteSets

CONSTANT Thread    \* the threads that call the barrier

ASSUME ThreadFinite == IsFiniteSet(Thread) /\ Thread # {}

VARIABLES waiting,        \* threads inside spin_lock(&sb->lock)
          holding,        \* the thread that has the lock
          current_count,  \* sb->current_count
          release_flag,   \* sb->release_flag
          lsense,         \* per thread: its local sense
          reg,            \* per thread: the register of ++current_count
          pc

vars == <<waiting, holding, current_count, release_flag, lsense, reg, pc>>

L == INSTANCE Mutex

\* sb->total: the barrier is initialised for exactly its callers.
total == Cardinality(Thread)

\* An int of this program's senses: all bits clear, or all bits set.
Sense == {0, -1}

\* ~x of a two's complement integer
Complement(x) == -1 - x

\* spin_barrier_init and spin_barrier_init_lsense
Init ==
    /\ L!Init
    /\ current_count = 0
    /\ release_flag = 0
    /\ lsense = [t \in Thread |-> 0]
    /\ reg = [t \in Thread |-> 0]
    /\ pc = [t \in Thread |-> "work"]

Goto(t, from, to) ==
    /\ pc[t] = from
    /\ pc' = [pc EXCEPT ![t] = to]

\* *lsense = ~(*lsense), which nobody else reads, and the call of spin_lock
Call(t) ==
    /\ Goto(t, "work", "lock")
    /\ lsense' = [lsense EXCEPT ![t] = Complement(lsense[t])]
    /\ L!Request(t)
    /\ UNCHANGED <<current_count, release_flag, reg>>

\* A wrong barrier: it counts without the lock.
LockNothing(t) ==
    /\ Goto(t, "lock", "load")
    /\ waiting' = waiting \ {t}
    /\ holding' = holding \cup {t}
    /\ UNCHANGED <<current_count, release_flag, lsense, reg>>

Lock(t) ==
    /\ Goto(t, "lock", "load")
    /\ L!Acquire(t)
    /\ UNCHANGED <<current_count, release_flag, lsense, reg>>

\* (sb->current_count)++ reads the count ...
Load(t) ==
    /\ Goto(t, "load", "store")
    /\ reg' = [reg EXCEPT ![t] = current_count]
    /\ UNCHANGED <<waiting, holding, current_count, release_flag, lsense>>

\* A wrong test: one arrival short.
StoreOneShort(t) ==
    /\ Goto(t, "store", IF reg[t] + 1 >= total - 1 THEN "reset" ELSE "unlock")
    /\ current_count' = reg[t] + 1
    /\ UNCHANGED <<waiting, holding, release_flag, lsense, reg>>

\* ... and writes it back, and is compared with the total.
Store(t) ==
    /\ Goto(t, "store", IF reg[t] + 1 = total THEN "reset" ELSE "unlock")
    /\ current_count' = reg[t] + 1
    /\ UNCHANGED <<waiting, holding, release_flag, lsense, reg>>

\* A wrong last arrival: the count is left as it is.
NoReset(t) ==
    /\ Goto(t, "reset", "flip")
    /\ UNCHANGED <<waiting, holding, current_count, release_flag, lsense, reg>>

Reset(t) ==
    /\ Goto(t, "reset", "flip")
    /\ current_count' = 0
    /\ UNCHANGED <<waiting, holding, release_flag, lsense, reg>>

\* The store that releases the round; the lock is still taken.
Flip(t) ==
    /\ Goto(t, "flip", "unlock")
    /\ release_flag' = lsense[t]
    /\ UNCHANGED <<waiting, holding, current_count, lsense, reg>>

Unlock(t) ==
    /\ Goto(t, "unlock", "wait")
    /\ L!Release(t)
    /\ UNCHANGED <<current_count, release_flag, lsense, reg>>

\* spin_on_condition returns when it reads the thread's sense in the flag.
SpinOnCondition(t) ==
    /\ release_flag = lsense[t]
    /\ Goto(t, "wait", "work")
    /\ UNCHANGED <<waiting, holding, current_count, release_flag, lsense, reg>>

\* A look at the flag that fails.  The plain macro looks again, which changes
\* nothing; the HLT ones halt the processor in the ioctl.
Halt(t) ==
    /\ release_flag # lsense[t]
    /\ Goto(t, "wait", "halted")
    /\ UNCHANGED <<waiting, holding, current_count, release_flag, lsense, reg>>

\* A timer interrupt, or any other: the thread is back at its look.
Tick(t) ==
    /\ Goto(t, "halted", "wait")
    /\ UNCHANGED <<waiting, holding, current_count, release_flag, lsense, reg>>

Step(t) ==
    \/ Lock(t) \/ Load(t) \/ Store(t) \/ Reset(t) \/ Flip(t) \/ Unlock(t)
    \/ SpinOnCondition(t) \/ Halt(t)

Next == \E t \in Thread : Call(t) \/ Step(t) \/ Tick(t)

\* A thread inside the barrier keeps running.  Its turn at the lock is not
\* promised, only that it is not passed over for ever while the lock stays
\* free; nothing makes a thread call the barrier.  A halted processor has its
\* next timer tick.
Fairness == \A t \in Thread : WF_vars(Step(t)) /\ WF_vars(Tick(t))

Spec == Init /\ [][Next]_vars

FairSpec == Spec /\ Fairness

-----------------------------------------------------------------------------

Critical == {"load", "store", "reset", "flip", "unlock"}
Waiting == {"wait", "halted"}

TypeOK ==
    /\ waiting \subseteq Thread
    /\ holding \subseteq Thread
    /\ current_count \in 0 .. total
    /\ release_flag \in Sense
    /\ lsense \in [Thread -> Sense]
    /\ reg \in [Thread -> 0 .. total]
    /\ pc \in [Thread -> {"work", "lock"} \cup Waiting \cup Critical]

\* The threads whose arrival the count holds: past the increment, in a round
\* that has not been released.
Counted ==
    {t \in Thread : pc[t] \in {"reset", "unlock"} \cup Waiting /\ lsense[t] # release_flag}

\* The count is the number of arrivals of the current round at every moment,
\* although it is an unlocked read and an unlocked write and threads of the
\* round before may not have seen their release yet.  Only between the reset
\* and the flag store is it ahead of the flag.
CountExact ==
    current_count = IF \E t \in Thread : pc[t] = "flip" THEN 0 ELSE Cardinality(Counted)

\* When the flag turns, it turns to the value every thread is waiting for:
\* there is nobody still waiting for the other value from the round before,
\* who would sleep through the release and stay in the barrier for ever.
NobodyLeftBehind ==
    [][release_flag' # release_flag =>
        \A t \in Thread : pc[t] # "work" /\ lsense[t] = release_flag']_vars

Stage == [t \in Thread |-> IF pc[t] = "work" THEN "work"
                          ELSE IF lsense[t] = release_flag THEN "released"
                          ELSE "waiting"]

B == INSTANCE Barrier WITH st <- Stage

\* No thread gets out of a round before every thread has come in.
ImplementsBarrier == B!Spec

\* Every complete round is released, and everybody released returns, however
\* often the barrier is used.
BarrierLive == B!EveryRoundEnds /\ B!EveryReleaseReturns

=============================================================================
