---------------------------- MODULE SynchBarrier ----------------------------
(***************************************************************************)
(* spin_barrier_lsense() of mwait_barrier/synch.h: the centralised barrier  *)
(* with a sense per thread, called in a loop by the threads it was          *)
(* initialised for.                                                        *)
(*                                                                         *)
(* An arrival is one locked increment.  The test whether it was the last    *)
(* one is a separate, unlocked read of the count, and the last arrival      *)
(* resets the count and then flips the flag with two plain stores, so other *)
(* threads may arrive, test and reset between any two of these steps.       *)
(***************************************************************************)
EXTENDS Integers, FiniteSets

CONSTANT Thread    \* the threads that call the barrier

ASSUME ThreadFinite == IsFiniteSet(Thread) /\ Thread # {}

VARIABLES current_count,  \* sb->current_count
          release_flag,   \* sb->release_flag
          lsense,         \* per thread: its local sense
          pc

vars == <<current_count, release_flag, lsense, pc>>

\* sb->nthreads: the barrier is initialised for exactly its callers.
nthreads == Cardinality(Thread)

\* spin_barrier_init and spin_barrier_init_lsense
Init ==
    /\ current_count = 0
    /\ release_flag = 1
    /\ lsense = [t \in Thread |-> 1]
    /\ pc = [t \in Thread |-> "work"]

Goto(t, from, to) ==
    /\ pc[t] = from
    /\ pc' = [pc EXCEPT ![t] = to]

\* *lsense = !(*lsense), which nobody else reads, and lock; incl
Arrive(t) ==
    /\ Goto(t, "work", "test")
    /\ lsense' = [lsense EXCEPT ![t] = 1 - lsense[t]]
    /\ current_count' = current_count + 1
    /\ UNCHANGED release_flag

\* A wrong test: one arrival short.
TestOneShort(t) ==
    /\ Goto(t, "test", IF current_count >= nthreads - 1 THEN "reset" ELSE "wait")
    /\ UNCHANGED <<current_count, release_flag, lsense>>

\* The count is read again, after the increment.
Test(t) ==
    /\ Goto(t, "test", IF current_count = nthreads THEN "reset" ELSE "wait")
    /\ UNCHANGED <<current_count, release_flag, lsense>>

\* A wrong last arrival: the count is left as it is.
NoReset(t) ==
    /\ Goto(t, "reset", "flip")
    /\ UNCHANGED <<current_count, release_flag, lsense>>

Reset(t) ==
    /\ Goto(t, "reset", "flip")
    /\ current_count' = 0
    /\ UNCHANGED <<release_flag, lsense>>

Flip(t) ==
    /\ Goto(t, "flip", "return")
    /\ release_flag' = lsense[t]
    /\ UNCHANGED <<current_count, lsense>>

\* spin_on_condition returns when it reads the thread's sense in the flag.
SpinOnCondition(t) ==
    /\ release_flag = lsense[t]
    /\ Goto(t, "wait", "work")
    /\ UNCHANGED <<current_count, release_flag, lsense>>

\* The last arrival falls through to the end of the function.
Return(t) ==
    /\ Goto(t, "return", "work")
    /\ UNCHANGED <<current_count, release_flag, lsense>>

Next == \E t \in Thread :
    Arrive(t) \/ Test(t) \/ Reset(t) \/ Flip(t) \/ SpinOnCondition(t) \/ Return(t)

Spec == Init /\ [][Next]_vars

-----------------------------------------------------------------------------

TypeOK ==
    /\ current_count \in 0 .. nthreads
    /\ release_flag \in {0, 1}
    /\ lsense \in [Thread -> {0, 1}]
    /\ pc \in [Thread -> {"work", "test", "reset", "flip", "wait", "return"}]

\* The threads that have arrived in the round that has not been released.
Arrived == {t \in Thread : pc[t] # "work" /\ lsense[t] # release_flag}

\* The count never claims an arrival that has not happened in this round.
\* A thread that finds the count full too late resets it during the next
\* round; that loses arrivals but never invents one.
CountNeverOverstates == current_count <= Cardinality(Arrived)

\* A thread that has decided to release the current round is right, and
\* nothing it finds on its way to the flag store can prove it wrong; one that
\* decided late writes the value the flag has.
ReleaseIsJustified ==
    \A t \in Thread : pc[t] \in {"reset", "flip"} =>
        \/ lsense[t] = release_flag
        \/ Arrived = Thread

Stage == [t \in Thread |-> IF pc[t] = "work" THEN "work"
                          ELSE IF lsense[t] = release_flag THEN "released"
                          ELSE "waiting"]

B == INSTANCE Barrier WITH st <- Stage

\* No thread gets out of a round before every thread has come in.
ImplementsBarrier == B!Spec

\* What the barrier with local sense is for: successive calls in a loop do not
\* block for ever.  The comment on spin_barrier gives that danger as the
\* fault of the barrier without local sense.
SuccessiveCallsDoNotBlock ==
    ~ \A t \in Thread : pc[t] = "wait" /\ lsense[t] # release_flag

=============================================================================
