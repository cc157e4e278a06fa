---------------------------- MODULE MwaitBarrier ----------------------------
(***************************************************************************)
(* mwait_barrier() of mwait_barrier/mwait_barrier.c together with the       *)
(* system call it sleeps in, sys_mwmon_mmap_sleep() of the 2.6.24.2 patch,  *)
(* and the MONITOR/MWAIT hardware under both.                              *)
(*                                                                         *)
(* The barrier keeps a lock word and a count of the threads gathered.  The  *)
(* last thread to arrive stores MWMON_NOTIFIED_VAL in the page it shares    *)
(* with the kernel and goes on with the lock still taken; a thread that is  *)
(* not the last one unlocks and sleeps in the kernel until it reads that    *)
(* value, which it then puts back to MWMON_ORIGINAL_VAL.  On the way out    *)
(* every thread takes itself off the count, and the one that reaches zero   *)
(* unlocks for the next round.                                             *)
(*                                                                         *)
(* mwait_barrier2() and sys_mwmon_mmap_sleep2() are the same code over a    *)
(* second region: this module with other variables.                        *)
(***************************************************************************)
EXTENDS SpinWord, FiniteSets

CONSTANTS Thread,     \* the threads that call the barrier
          init_count  \* barrier->init_count

\* mwait_barrier.c states the restriction: two threads per barrier, a worker
\* and a waiter, bound to the two contexts of one processor.
ASSUME TwoThreads ==
    /\ init_count = 2
    /\ \E a, b \in Thread : a # b /\ Thread = {a, b}

VARIABLES lock,      \* barrier->lock
          gathered,  \* barrier->gathered
          mem,       \* *mwmon_mmap_area: "a" original, "b" notified
          armed,     \* per thread: its processor's monitor is armed
          reg,       \* per thread: the register of ++gathered
          pc

vars == <<lock, gathered, mem, armed, reg, pc>>

Lock == "spin_lock_fast"

\* Program points inside the system call, and the unlock before it.
Sleeping == {"unlock", "monitor", "check", "mwait", "asleep", "recheck"}
Draining == {"reset", "dec", "done"}
ProgramPoint ==
    {"work", "lock", "spin", "load", "store", "notify"} \cup Sleeping \cup Draining

\* mwait_barrier_init; the driver's open() has filled the region with "a".
Init ==
    /\ lock = Unlocked(Lock)
    /\ gathered = 0
    /\ mem = "a"
    /\ armed = [t \in Thread |-> FALSE]
    /\ reg = [t \in Thread |-> 0]
    /\ pc = [t \in Thread |-> "work"]

Goto(t, from, to) ==
    /\ pc[t] = from
    /\ pc' = [pc EXCEPT ![t] = to]

\* A store to the monitored line: it triggers every armed monitor but the
\* storing processor's own.
StoreMem(t, v) ==
    /\ mem' = v
    /\ armed' = [u \in Thread |-> armed[u] /\ u = t]

-----------------------------------------------------------------------------
(* The arrival: lock, count, and the choice between notifying and sleeping. *)

Call(t) ==
    /\ Goto(t, "work", "lock")
    /\ UNCHANGED <<lock, gathered, mem, armed, reg>>

LockTry(t) ==
    /\ Goto(t, "lock", IF AttemptFast(lock).won THEN "load" ELSE "spin")
    /\ lock' = AttemptFast(lock).word
    /\ UNCHANGED <<gathered, mem, armed, reg>>

LockSpin(t) ==
    /\ SeesFree(Lock, lock)
    /\ Goto(t, "spin", "lock")
    /\ UNCHANGED <<lock, gathered, mem, armed, reg>>

\* ++barrier->gathered reads the count ...
Load(t) ==
    /\ Goto(t, "load", "store")
    /\ reg' = [reg EXCEPT ![t] = gathered]
    /\ UNCHANGED <<lock, gathered, mem, armed>>

\* ... and writes it back; the thread that makes it init_count is the last.
Store(t) ==
    /\ Goto(t, "store", IF reg[t] + 1 = init_count THEN "notify" ELSE "unlock")
    /\ gathered' = reg[t] + 1
    /\ UNCHANGED <<lock, mem, armed, reg>>

\* A wrong wake-up: the last thread gives the lock back as it notifies.
NotifyAndUnlock(t) ==
    /\ Goto(t, "notify", "dec")
    /\ StoreMem(t, "b")
    /\ lock' = Unlocked(Lock)
    /\ UNCHANGED <<gathered, reg>>

\* The last thread wakes the waiter.  It keeps the lock.
Notify(t) ==
    /\ Goto(t, "notify", "dec")
    /\ StoreMem(t, "b")
    /\ UNCHANGED <<lock, gathered, reg>>

\* The others make the barrier available before they suspend.
Unlock(t) ==
    /\ Goto(t, "unlock", "monitor")
    /\ lock' = Unlocked(Lock)
    /\ UNCHANGED <<gathered, mem, armed, reg>>

-----------------------------------------------------------------------------
(* sys_mwmon_mmap_sleep: arm the monitor, look at the byte, mwait, look     *)
(* again, and put the byte back.                                           *)

\* monitor() runs between local_irq_disable and local_irq_enable.
Monitor(t) ==
    /\ Goto(t, "monitor", "check")
    /\ armed' = [armed EXCEPT ![t] = TRUE]
    /\ UNCHANGED <<lock, gathered, mem, reg>>

\* A wrong order: the byte is not looked at once the monitor is armed.
NoCheck(t) ==
    /\ Goto(t, "check", "mwait")
    /\ UNCHANGED <<lock, gathered, mem, armed, reg>>

\* The byte is read after arming; the break leaves the loop.
Check(t) ==
    /\ Goto(t, "check", IF mem = "b" THEN "reset" ELSE "mwait")
    /\ UNCHANGED <<lock, gathered, mem, armed, reg>>

\* mwait() stops the processor only while its monitor is armed.
Mwait(t) ==
    /\ Goto(t, "mwait", IF armed[t] THEN "asleep" ELSE "recheck")
    /\ UNCHANGED <<lock, gathered, mem, armed, reg>>

Wake(t) ==
    /\ ~armed[t]
    /\ Goto(t, "asleep", "recheck")
    /\ UNCHANGED <<lock, gathered, mem, armed, reg>>

\* The loop condition.  The byte is a plain char and mwait()'s asm clobbers
\* no memory, so the build may test the value read before the sleep, which
\* was not "b", and take another turn; or it reads again.
Recheck(t) ==
    /\ \/ Goto(t, "recheck", "monitor")
       \/ /\ mem = "b"
          /\ Goto(t, "recheck", "reset")
    /\ UNCHANGED <<lock, gathered, mem, armed, reg>>

\* A wrong exit: the notification is left in the page.
ResetNothing(t) ==
    /\ Goto(t, "reset", "dec")
    /\ UNCHANGED <<lock, gathered, mem, armed, reg>>

Reset(t) ==
    /\ Goto(t, "reset", "dec")
    /\ StoreMem(t, "a")
    /\ UNCHANGED <<lock, gathered, reg>>

-----------------------------------------------------------------------------
(* The way out: atomic_dec_and_test, and the unlock of the last one out.    *)

Dec(t) ==
    /\ Goto(t, "dec", IF gathered - 1 = 0 THEN "done" ELSE "work")
    /\ gathered' = gathered - 1
    /\ UNCHANGED <<lock, mem, armed, reg>>

\* A wrong exit: the last one out believes the lock is already free.
DoneNoUnlock(t) ==
    /\ Goto(t, "done", "work")
    /\ UNCHANGED <<lock, gathered, mem, armed, reg>>

Done(t) ==
    /\ Goto(t, "done", "work")
    /\ lock' = Unlocked(Lock)
    /\ UNCHANGED <<gathered, mem, armed, reg>>

\* An interrupt, a reschedule (CONFIG_PREEMPT) or a false wake-up undoes the
\* monitor at any time; a sleeping processor wakes up.
Interrupt(t) ==
    /\ armed[t]
    /\ armed' = [armed EXCEPT ![t] = FALSE]
    /\ UNCHANGED <<lock, gathered, mem, reg, pc>>

-----------------------------------------------------------------------------

Arrive(t) == LockTry(t) \/ LockSpin(t) \/ Load(t) \/ Store(t) \/ Notify(t) \/ Unlock(t)
Sleep(t) == Monitor(t) \/ Check(t) \/ Mwait(t) \/ Wake(t) \/ Recheck(t) \/ Reset(t)
Drain(t) == Dec(t) \/ Done(t)

Step(t) == Arrive(t) \/ Sleep(t) \/ Drain(t)

Next == \E t \in Thread : Call(t) \/ Step(t) \/ Interrupt(t)

\* Each thread is bound to a processor of its own and runs there.  Nothing
\* makes a thread call the barrier, and nothing makes an interrupt come.
Fairness == \A t \in Thread : WF_vars(Step(t))

Spec == Init /\ [][Next]_vars

FairSpec == Spec /\ Fairness

-----------------------------------------------------------------------------

\* Threads on the count: arrived, and not yet taken off by atomic_dec_and_test.
Gathered == {t \in Thread : pc[t] \in Sleeping \cup {"notify", "reset", "dec"}}

\* Threads inside the system call, before they have seen the notification.
InKernel == Sleeping \ {"unlock"}

\* Threads that are not in the barrier, or still outside its lock.
Away == {"work", "lock", "spin"}

TypeOK ==
    /\ lock \in (1 - init_count) .. 1
    /\ gathered \in 0 .. init_count
    /\ mem \in {"a", "b"}
    /\ armed \in [Thread -> BOOLEAN]
    /\ reg \in [Thread -> 0 .. init_count]
    /\ pc \in [Thread -> ProgramPoint]

\* The count is exact at every moment, although it is incremented by a plain
\* read and write under the lock and decremented by a locked instruction
\* that the second thread executes without having taken the lock.
CountExact == gathered = Cardinality(Gathered)

\* Rounds do not overlap: a thread counts itself only when it is alone with
\* the count, nobody is still draining the previous round, and no
\* notification is pending -- what keeping the lock through the notification
\* until the last dec_and_test is for.
RoundsDoNotOverlap ==
    \A t \in Thread : pc[t] \in {"load", "store"} =>
        /\ mem = "a"
        /\ \A u \in Thread \ {t} : pc[u] \in Away \cup InKernel

\* A notification in the page always has its reader: exactly one thread is in
\* the system call and has yet to put the byte back, and it belongs to the
\* round that was notified.  A stale "b" would let the next round's waiter
\* through before anybody has arrived.
NotificationHasReader ==
    mem = "b" => \E t \in Thread :
        /\ pc[t] \in InKernel \cup {"reset"}
        /\ \A u \in Thread \ {t} : pc[u] \in {"dec"} \cup Away

\* No lost wake-up: a processor that is about to stop, or has stopped, while
\* the notification is in the page does not have its monitor armed, so it
\* comes back, wherever the notification fell between monitor and mwait.
NoSleepThroughNotify ==
    \A t \in Thread : pc[t] \in {"mwait", "asleep"} /\ mem = "b" => ~armed[t]

\* A thread is released as soon as the notification it waits for is stored.
Released(t) ==
    \/ pc[t] \in Draining
    \/ pc[t] \in Sleeping /\ mem = "b"

Stage == [t \in Thread |-> IF pc[t] = "work" THEN "work"
                          ELSE IF Released(t) THEN "released" ELSE "waiting"]

B == INSTANCE Barrier WITH st <- Stage

\* mwait_barrier is a barrier: nobody gets out before both have come in, in
\* this round and in every later one.
ImplementsBarrier == B!Spec

\* And it lets everybody go: when both threads have called, both are
\* released, and a released thread returns.
BarrierLive == B!EveryRoundEnds /\ B!EveryReleaseReturns

=============================================================================
