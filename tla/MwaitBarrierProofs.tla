------------------------ MODULE MwaitBarrierProofs -------------------------
(***************************************************************************)
(* Proofs about MwaitBarrier: the count is exact, rounds do not overlap, a  *)
(* notification always has its reader, no wake-up is lost, and the code     *)
(* implements the abstract barrier.  They hold for the two threads the      *)
(* source allows and for any number of rounds and interrupts.              *)
(***************************************************************************)
EXTENDS MwaitBarrier, FiniteSetTheorems, TLAPS

(***************************************************************************)
(* The inductive invariant, for a thread t and the other one, u.            *)
(***************************************************************************)
Typed ==
    /\ lock \in Int
    /\ gathered \in Int
    /\ mem \in {"a", "b"}
    /\ armed \in [Thread -> BOOLEAN]
    /\ reg \in [Thread -> Int]
    /\ pc \in [Thread -> ProgramPoint]

\* Program points at which the barrier's lock is taken.
Taken == {"load", "store", "unlock", "notify", "reset", "dec", "done"}

\* The lock is free when neither thread is at such a point and nothing is
\* left to drain; while it is taken, every failed attempt is still spinning.
LockInv(t, u) ==
    /\ lock <= 1
    /\ lock = 1 <=> mem = "a" /\ pc[t] \notin Taken /\ pc[u] \notin Taken
    /\ lock < 0 => lock = -1 /\ (pc[t] = "spin" \/ pc[u] = "spin")

\* Where the other thread can be, given where t is and what the page says.
PhaseInv(t, u) ==
    /\ pc[t] \in {"load", "store"} => mem = "a" /\ pc[u] \in Away \cup InKernel
    /\ pc[t] = "unlock" => mem = "a" /\ pc[u] \in Away
    /\ pc[t] = "notify" => mem = "a" /\ pc[u] \in InKernel
    /\ pc[t] \in InKernel /\ mem = "a" => pc[u] \in Away \cup {"load", "store", "notify"}
    /\ pc[t] \in InKernel /\ mem = "b" => pc[u] \in Away \cup {"dec"}
    /\ pc[t] = "reset" => mem = "b" /\ pc[u] \in Away \cup {"dec"}
    /\ pc[t] = "dec" /\ mem = "a" => pc[u] \in Away \cup {"dec"}
    /\ pc[t] = "dec" /\ mem = "b" => pc[u] \in InKernel \cup {"reset"}
    /\ pc[t] = "done" => mem = "a" /\ pc[u] \in Away
    /\ pc[t] \in Away /\ pc[u] \in Away => mem = "a"

On(t) == IF t \in Gathered THEN 1 ELSE 0

CountInv(t, u) ==
    /\ gathered = On(t) + On(u)
    /\ reg[t] \in 0 .. 2
    /\ pc[t] = "store" => reg[t] = gathered

WakeInv(t) == pc[t] \in {"mwait", "asleep"} /\ mem = "b" => ~armed[t]

PairInv(t, u) == LockInv(t, u) /\ PhaseInv(t, u) /\ CountInv(t, u) /\ WakeInv(t)

IInv ==
    /\ Typed
    /\ \A t, u \in Thread : t # u => PairInv(t, u)

-----------------------------------------------------------------------------

LEMMA OtherThread ==
    ASSUME NEW t \in Thread
    PROVE  \E u \in Thread : t # u /\ Thread = {t, u}
  BY TwoThreads

\* What the lock's attempt, unlock and test do to the word.
LEMMA FastLockFacts ==
    ASSUME NEW w \in Int
    PROVE  /\ Unlocked(Lock) = 1
           /\ AttemptFast(w).word = w - 1
           /\ AttemptFast(w).won <=> w = 1
           /\ SeesFree(Lock, w) <=> w > 0
<1>1. AttemptFast(w).won <=> w - 1 = 0
  BY DEF AttemptFast
<1>2. AttemptFast(w).word = w - 1
  BY DEF AttemptFast
<1> QED
  BY <1>1, <1>2 DEF Unlocked, SeesFree, Lock, Decrementing

LEMMA InitIInv == Init => IInv
<1> SUFFICES ASSUME Init PROVE IInv
  OBVIOUS
<1>1. Unlocked(Lock) = 1
  BY FastLockFacts
<1>2. Typed
  BY <1>1 DEF Init, Typed, ProgramPoint
<1>3. ASSUME NEW t \in Thread, NEW u \in Thread PROVE PairInv(t, u)
  BY <1>1 DEF Init, PairInv, LockInv, PhaseInv, CountInv, WakeInv, On, Gathered,
              Sleeping, InKernel, Away, Taken
<1> QED
  BY <1>2, <1>3 DEF IInv

LEMMA StepKeepsTyped ==
    ASSUME Typed, NEW t \in Thread, Call(t) \/ Step(t) \/ Interrupt(t)
    PROVE  Typed'
<1> USE FastLockFacts, TwoThreads DEF Typed, Goto, StoreMem, ProgramPoint, Sleeping, Draining
<1>1. CASE Call(t) \/ Interrupt(t)
  BY <1>1 DEF Call, Interrupt
<1>2. CASE LockTry(t)
  <2>1. lock' = lock - 1 /\ pc' \in [Thread -> ProgramPoint]
    BY <1>2 DEF LockTry
  <2> QED
    BY <1>2, <2>1 DEF LockTry
<1>3. CASE LockSpin(t) \/ Load(t) \/ Store(t)
  BY <1>3 DEF LockSpin, Load, Store
<1>4. CASE Notify(t)
  BY <1>4 DEF Notify
<1>5. CASE Unlock(t)
  BY <1>5 DEF Unlock
<1>6. CASE Sleep(t)
  BY <1>6 DEF Sleep, Monitor, Check, Mwait, Wake, Recheck, Reset
<1>7. CASE Drain(t)
  BY <1>7 DEF Drain, Dec, Done
<1> QED
  BY <1>1, <1>2, <1>3, <1>4, <1>5, <1>6, <1>7 DEF Step, Arrive

\* A step of t keeps the invariant of the pair, seen from either side.
LEMMA StepKeepsPair ==
    ASSUME IInv, NEW t \in Thread, NEW u \in Thread, t # u, Thread = {t, u},
           Call(t) \/ Step(t) \/ Interrupt(t)
    PROVE  PairInv(t, u)' /\ PairInv(u, t)'
<1>1. PairInv(t, u) /\ PairInv(u, t) /\ Typed
  BY DEF IInv
<1> USE <1>1 DEF Typed, Goto, PairInv, LockInv, PhaseInv, CountInv, WakeInv, On,
                 Gathered, Sleeping, InKernel, Away, Taken
<1>2. CASE Call(t)
  BY <1>2 DEF Call
\* A won attempt: the word was 1, so neither thread has the lock.
<1>3. CASE LockTry(t)
  <2>1. /\ lock' = lock - 1
        /\ pc' = [pc EXCEPT ![t] = IF lock = 1 THEN "load" ELSE "spin"]
        /\ UNCHANGED <<gathered, mem, armed, reg>>
    BY <1>3, FastLockFacts DEF LockTry
  <2>2. pc[t] = "lock" /\ lock' \in Int
    BY <1>3, <2>1 DEF LockTry
  <2>3. CASE lock = 1
    <3>1. pc' = [pc EXCEPT ![t] = "load"] /\ lock' = 0
      BY <2>1, <2>3
    <3>2. mem = "a" /\ pc[u] \in Away \cup InKernel
      BY <2>3 DEF ProgramPoint, Draining
    <3> QED
      BY <2>1, <2>2, <3>1, <3>2
  <2>4. CASE lock # 1
    <3>1. pc' = [pc EXCEPT ![t] = "spin"]
      BY <2>1, <2>4
    <3>2. lock <= 0
      BY <2>4
    <3>3. PhaseInv(t, u)' /\ PhaseInv(u, t)'
      BY <2>1, <2>2, <3>1
    <3>4. LockInv(t, u)' /\ LockInv(u, t)'
      BY <2>1, <2>2, <3>1, <3>2
    <3> QED
      BY <2>1, <2>2, <3>1, <3>3, <3>4
  <2> QED
    BY <2>3, <2>4
<1>4. CASE LockSpin(t)
  BY <1>4, FastLockFacts DEF LockSpin
<1>5. CASE Load(t)
  BY <1>5 DEF Load
\* The count the thread read is still the count: it is alone with it.
<1>6. CASE Store(t)
  BY <1>6, TwoThreads DEF Store
\* The other thread is in the system call: it was counted before.
<1>7. CASE Notify(t)
  BY <1>7 DEF Notify, StoreMem
<1>8. CASE Unlock(t)
  BY <1>8, FastLockFacts DEF Unlock
<1>9. CASE Monitor(t)
  BY <1>9 DEF Monitor
\* Going on to mwait, the thread has seen that no notification is there.
<1>10. CASE Check(t)
  BY <1>10 DEF Check
<1>11. CASE Mwait(t)
  BY <1>11 DEF Mwait
<1>12. CASE Wake(t)
  BY <1>12 DEF Wake
<1>13. CASE Recheck(t)
  BY <1>13 DEF Recheck
\* The other thread has nothing left to read: it is on its way or gone.
<1>14. CASE Reset(t)
  BY <1>14 DEF Reset, StoreMem
\* Reaching zero, this is the last one: the other has left already.
<1>15. CASE Dec(t)
  BY <1>15 DEF Dec
<1>16. CASE Done(t)
  BY <1>16, FastLockFacts DEF Done
<1>17. CASE Interrupt(t)
  BY <1>17 DEF Interrupt
<1> QED
  BY <1>2, <1>3, <1>4, <1>5, <1>6, <1>7, <1>8, <1>9, <1>10,
     <1>11, <1>12, <1>13, <1>14, <1>15, <1>16, <1>17 DEF Step, Arrive, Sleep, Drain

LEMMA NextKeepsIInv == IInv /\ [Next]_vars => IInv'
<1> SUFFICES ASSUME IInv, [Next]_vars PROVE IInv'
  OBVIOUS
<1>1. CASE UNCHANGED vars
  BY <1>1 DEF vars, IInv, Typed, PairInv, LockInv, PhaseInv, CountInv, WakeInv, On, Gathered
<1>2. ASSUME NEW t \in Thread, Call(t) \/ Step(t) \/ Interrupt(t) PROVE IInv'
  <2>1. PICK u \in Thread : t # u /\ Thread = {t, u}
    BY OtherThread
  <2>2. Typed'
    BY <1>2, StepKeepsTyped DEF IInv
  <2>3. PairInv(t, u)' /\ PairInv(u, t)'
    BY <1>2, <2>1, StepKeepsPair
  <2> QED
    BY <2>1, <2>2, <2>3 DEF IInv
<1> QED
  BY <1>1, <1>2 DEF Next

THEOREM Invariance == Spec => []IInv
  BY InitIInv, NextKeepsIInv, PTL DEF Spec

-----------------------------------------------------------------------------

LEMMA InvTypeOK == IInv => TypeOK
<1> SUFFICES ASSUME IInv PROVE TypeOK
  OBVIOUS
<1>1. PICK t \in Thread, u \in Thread : t # u /\ Thread = {t, u}
  BY TwoThreads
<1>2. PairInv(t, u) /\ PairInv(u, t) /\ Typed
  BY <1>1 DEF IInv
<1>3. gathered \in 0 .. 2
  BY <1>2 DEF PairInv, CountInv, On
<1>4. lock \in -1 .. 1
  BY <1>2 DEF PairInv, LockInv, Typed
<1>5. reg \in [Thread -> 0 .. 2]
  BY <1>1, <1>2 DEF PairInv, CountInv, Typed
<1> QED
  BY <1>2, <1>3, <1>4, <1>5, TwoThreads DEF TypeOK, Typed

\* Every variable keeps its type; the count stays between zero and two and
\* the lock word between -1 and 1.
THEOREM MwaitBarrierTypeOK == Spec => []TypeOK
  BY Invariance, InvTypeOK, PTL

\* No arrival and no departure is ever lost from the count.
THEOREM MwaitBarrierCountExact == Spec => []CountExact
<1>1. IInv => CountExact
  <2> SUFFICES ASSUME IInv PROVE CountExact
    OBVIOUS
  <2>1. PICK t \in Thread, u \in Thread : t # u /\ Thread = {t, u}
    BY TwoThreads
  <2>2. gathered = On(t) + On(u)
    BY <2>1 DEF IInv, PairInv, CountInv
  <2>3. Gathered \subseteq {t, u}
    BY <2>1 DEF Gathered
  <2>4. CASE t \in Gathered /\ u \in Gathered
    <3>1. Gathered = {t} \cup {u}
      BY <2>3, <2>4
    <3>2. IsFiniteSet({t}) /\ Cardinality({t}) = 1
      BY FS_Singleton
    <3>3. Cardinality({t} \cup {u}) = Cardinality({t}) + 1
      BY <2>1, <3>2, FS_AddElement
    <3> QED
      BY <2>2, <2>4, <3>1, <3>2, <3>3 DEF CountExact, On
  <2>5. CASE t \in Gathered /\ u \notin Gathered
    <3>1. Gathered = {t}
      BY <2>3, <2>5
    <3> QED
      BY <2>2, <2>5, <3>1, FS_Singleton DEF CountExact, On
  <2>6. CASE t \notin Gathered /\ u \in Gathered
    <3>1. Gathered = {u}
      BY <2>3, <2>6
    <3> QED
      BY <2>2, <2>6, <3>1, FS_Singleton DEF CountExact, On
  <2>7. CASE t \notin Gathered /\ u \notin Gathered
    <3>1. Gathered = {}
      BY <2>3, <2>7
    <3> QED
      BY <2>2, <2>7, <3>1, FS_EmptySet DEF CountExact, On
  <2> QED
    BY <2>4, <2>5, <2>6, <2>7
<1> QED
  BY <1>1, Invariance, PTL

\* A thread counts itself into a round only after the round before has been
\* drained and its notification consumed.
THEOREM MwaitBarrierRoundsDoNotOverlap == Spec => []RoundsDoNotOverlap
<1>1. IInv => RoundsDoNotOverlap
  BY OtherThread DEF IInv, PairInv, PhaseInv, RoundsDoNotOverlap
<1> QED
  BY <1>1, Invariance, PTL

\* A pending notification is always about to be consumed by the waiter it
\* was meant for.
THEOREM MwaitBarrierNotificationHasReader == Spec => []NotificationHasReader
<1>1. IInv => NotificationHasReader
  <2> SUFFICES ASSUME IInv, mem = "b" PROVE NotificationHasReader
    BY DEF NotificationHasReader
  <2>1. PICK t \in Thread, u \in Thread : t # u /\ Thread = {t, u}
    BY TwoThreads
  <2>2. PairInv(t, u) /\ PairInv(u, t) /\ Typed
    BY <2>1 DEF IInv
  <2>3. \/ pc[t] \in InKernel \cup {"reset"} /\ pc[u] \in {"dec"} \cup Away
        \/ pc[u] \in InKernel \cup {"reset"} /\ pc[t] \in {"dec"} \cup Away
    BY <2>2 DEF Typed, ProgramPoint, PairInv, PhaseInv, Sleeping, Draining, InKernel, Away
  <2> QED
    BY <2>1, <2>3 DEF NotificationHasReader
<1> QED
  BY <1>1, Invariance, PTL

\* No processor stops, or stays stopped, with its monitor armed once the
\* notification is in the page.
THEOREM MwaitBarrierNoSleepThroughNotify == Spec => []NoSleepThroughNotify
<1>1. IInv => NoSleepThroughNotify
  BY OtherThread DEF IInv, PairInv, WakeInv, NoSleepThroughNotify
<1> QED
  BY <1>1, Invariance, PTL

-----------------------------------------------------------------------------
(* The refinement.  Call is the abstract Enter, Notify is Release, the step *)
(* that takes a thread back to work is Leave, and the rest is invisible.    *)

\* What a step of t does to the stage of t and of the other thread.
LEMMA StageOf ==
    ASSUME NEW t \in Thread
    PROVE  /\ pc[t] = "work" => Stage[t] = "work"
           /\ pc[t] \in Draining => Stage[t] = "released"
           /\ pc[t] \in Sleeping /\ mem = "b" => Stage[t] = "released"
           /\ pc[t] \in Sleeping /\ mem = "a" => Stage[t] = "waiting"
           /\ pc[t] \in {"lock", "spin", "load", "store", "notify"} => Stage[t] = "waiting"
  BY DEF Stage, Released, Draining, Sleeping

\* Notify is the Release: the other thread is asleep or on its way to sleep.
LEMMA NotifyIsRelease ==
    ASSUME IInv, NEW t \in Thread, Notify(t)
    PROVE  B!Release
<1>1. PICK u \in Thread : t # u /\ Thread = {t, u}
  BY OtherThread
<1>2. /\ pc[t] = "notify" /\ pc[u] \in InKernel /\ mem = "a"
      /\ pc \in [Thread -> ProgramPoint]
  BY <1>1 DEF IInv, Typed, PairInv, PhaseInv, Notify, Goto
<1>3. pc'[t] = "dec" /\ pc'[u] = pc[u] /\ mem' = "b"
  BY <1>1, <1>2 DEF Notify, Goto, StoreMem
<1>4. \A v \in Thread : Stage[v] = "waiting"
  BY <1>1, <1>2, StageOf DEF InKernel
<1>5. pc'[t] \in Draining /\ pc'[u] \in Sleeping
  BY <1>2, <1>3 DEF Draining, InKernel
<1>6. \A v \in Thread : Released(v)' /\ pc'[v] # "work"
  BY <1>1, <1>3, <1>5 DEF Released, Draining, Sleeping
<1>7. Stage' = [v \in Thread |-> "released"]
  BY <1>6 DEF Stage
<1> QED
  BY <1>4, <1>7 DEF B!Release

\* A step of t that leaves the page alone changes at most t's own stage.
LEMMA OnlyOwnStage ==
    ASSUME Typed, NEW t \in Thread, NEW p,
           pc' = [pc EXCEPT ![t] = p], mem' = mem
    PROVE  Stage' = [Stage EXCEPT ![t] = Stage'[t]]
<1>1. \A u \in Thread \ {t} : pc'[u] = pc[u]
  BY DEF Typed
<1>2. \A u \in Thread \ {t} : Stage'[u] = Stage[u]
  BY <1>1 DEF Stage, Released
<1> QED
  BY <1>2 DEF Stage

\* Inside the arrival and the system call nothing shows, except for Notify.
LEMMA WaitingIsInvisible ==
    ASSUME IInv, NEW t \in Thread, Arrive(t) \/ Sleep(t), ~Notify(t)
    PROVE  Stage' = Stage
<1>1. PICK u \in Thread : t # u /\ Thread = {t, u}
  BY OtherThread
<1>2. Typed /\ PairInv(t, u)
  BY <1>1 DEF IInv
<1> USE DEF Goto, Typed
<1>3. CASE Reset(t)
  <2>1. pc[t] = "reset" /\ pc[u] \in Away \cup {"dec"}
    BY <1>2, <1>3 DEF PairInv, PhaseInv, Reset
  <2>2. pc'[t] = "dec" /\ pc'[u] = pc[u]
    BY <1>1, <1>2, <1>3 DEF Reset
  <2>3. Released(t) /\ Released(t)' /\ (Released(u)' <=> Released(u))
    BY <2>1, <2>2 DEF Released, Draining, Sleeping, Away
  <2> QED
    BY <1>1, <2>1, <2>2, <2>3 DEF Stage
<1>4. CASE Store(t) \/ Unlock(t)
  <2>1. mem = "a" /\ mem' = mem
    BY <1>2, <1>4 DEF PairInv, PhaseInv, Store, Unlock
  <2>2. pc[t] \in {"store", "unlock"} /\ pc'[t] \in {"notify", "unlock", "monitor"}
    BY <1>2, <1>4 DEF Store, Unlock
  <2>3. Stage[t] = "waiting" /\ Stage'[t] = "waiting"
    BY <2>1, <2>2 DEF Stage, Released, Draining, Sleeping
  <2>4. Stage' = [Stage EXCEPT ![t] = Stage'[t]]
    BY <1>2, <1>4, <2>1, OnlyOwnStage DEF Store, Unlock
  <2> QED
    BY <2>3, <2>4 DEF Stage
<1>5. CASE LockTry(t) \/ LockSpin(t) \/ Load(t)
  <2>1. /\ pc[t] \in {"lock", "spin", "load"}
        /\ pc'[t] \in {"lock", "spin", "load", "store"}
        /\ mem' = mem
    BY <1>2, <1>5 DEF LockTry, LockSpin, Load
  <2>2. Stage[t] = "waiting" /\ Stage'[t] = "waiting"
    BY <2>1 DEF Stage, Released, Draining, Sleeping
  <2>3. Stage' = [Stage EXCEPT ![t] = Stage'[t]]
    BY <1>2, <1>5, <2>1, OnlyOwnStage DEF LockTry, LockSpin, Load
  <2> QED
    BY <2>2, <2>3 DEF Stage
<1>6. CASE Monitor(t) \/ Check(t) \/ Mwait(t) \/ Wake(t) \/ Recheck(t)
  <2>1. /\ pc[t] \in InKernel /\ mem' = mem
        /\ pc'[t] \in InKernel \/ (pc'[t] = "reset" /\ mem = "b")
    BY <1>2, <1>6 DEF Monitor, Check, Mwait, Wake, Recheck, InKernel, Sleeping
  <2>2. Stage'[t] = Stage[t]
    BY <2>1 DEF Stage, Released, Draining, Sleeping, InKernel
  <2>3. Stage' = [Stage EXCEPT ![t] = Stage'[t]]
    BY <1>2, <1>6, <2>1, OnlyOwnStage DEF Monitor, Check, Mwait, Wake, Recheck
  <2> QED
    BY <2>2, <2>3 DEF Stage
<1> QED
  BY <1>3, <1>4, <1>5, <1>6 DEF Arrive, Sleep

\* Calling the barrier is Enter; going back to work is Leave.
LEMMA CallAndReturn ==
    ASSUME IInv, NEW t \in Thread, Call(t) \/ Drain(t)
    PROVE  B!Enter(t) \/ B!Leave(t) \/ Stage' = Stage
<1> USE DEF Typed, Goto
<1>1. Typed
  BY DEF IInv
<1>2. Stage' = [Stage EXCEPT ![t] = Stage'[t]]
  BY <1>1, OnlyOwnStage DEF Call, Drain, Dec, Done
<1>3. CASE Call(t)
  <2>1. Stage[t] = "work" /\ Stage'[t] = "waiting"
    BY <1>1, <1>3 DEF Call, Stage, Released, Draining, Sleeping
  <2> QED
    BY <1>2, <2>1 DEF B!Enter
<1>4. CASE Drain(t)
  <2>1. pc[t] \in {"dec", "done"} /\ pc'[t] \in {"done", "work"}
    BY <1>1, <1>4 DEF Drain, Dec, Done
  <2>2. Stage[t] = "released" /\ Stage'[t] \in {"released", "work"}
    BY <2>1 DEF Stage, Released, Draining
  <2>3. CASE Stage'[t] = "work"
    BY <1>2, <2>2, <2>3 DEF B!Leave
  <2>4. CASE Stage'[t] = "released"
    BY <1>2, <2>2, <2>4 DEF Stage
  <2> QED
    BY <2>2, <2>3, <2>4
<1> QED
  BY <1>3, <1>4

\* mwait_barrier implements the abstract barrier: in every round both threads
\* are released together, and only after both have called.
THEOREM MwaitBarrierImplementsBarrier == Spec => ImplementsBarrier
<1>1. Init => B!Init
  BY DEF Init, B!Init, Stage
<1>2. IInv /\ [Next]_vars => [B!Next]_Stage
  <2> SUFFICES ASSUME IInv, [Next]_vars PROVE [B!Next]_Stage
    OBVIOUS
  <2>1. CASE UNCHANGED vars
    BY <2>1 DEF vars, Stage, Released
  <2>2. ASSUME NEW t \in Thread, Interrupt(t) PROVE Stage' = Stage
    BY <2>2 DEF Interrupt, Stage, Released
  <2>3. ASSUME NEW t \in Thread, Call(t) \/ Drain(t) PROVE [B!Next]_Stage
    BY <2>3, CallAndReturn DEF B!Next
  <2>4. ASSUME NEW t \in Thread, Notify(t) PROVE B!Next
    BY <2>4, NotifyIsRelease DEF B!Next
  <2>5. ASSUME NEW t \in Thread, Arrive(t) \/ Sleep(t), ~Notify(t) PROVE Stage' = Stage
    BY <2>5, WaitingIsInvisible
  <2> QED
    BY <2>1, <2>2, <2>3, <2>4, <2>5 DEF Next, Step
<1> QED
  BY <1>1, <1>2, Invariance, PTL DEF Spec, ImplementsBarrier, B!Spec

=============================================================================
