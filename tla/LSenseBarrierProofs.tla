------------------------ MODULE LSenseBarrierProofs -----------------------
(***************************************************************************)
(* Proofs about LSenseBarrier for every finite set of threads.              *)
(***************************************************************************)
EXTENDS LSenseBarrier, FiniteSetTheorems, TLAPS

\* The proofs only ever ask which program points these are.
USE DEF Waiting

Typed ==
    /\ current_count \in Nat
    /\ release_flag \in Sense
    /\ lsense \in [Thread -> Sense]
    /\ reg \in [Thread -> 0 .. total]
    /\ pc \in [Thread -> {"work", "lock"} \cup Waiting \cup Critical]

\* The lock's two sets are the threads at the lock and inside it.
LockInv ==
    /\ waiting = {t \in Thread : pc[t] = "lock"}
    /\ holding = {t \in Thread : pc[t] \in Critical}
    /\ \A t, u \in Thread : pc[t] \in Critical /\ pc[u] \in Critical => t = u

\* Outside the barrier a thread has the sense of the last release; from the
\* call until it has done its part of the arrival it has the next one, since
\* the flag cannot turn without it.
SenseInv == \A t \in Thread :
    /\ pc[t] = "work" => lsense[t] = release_flag
    /\ pc[t] \in {"lock", "load", "store", "reset", "flip"} => lsense[t] # release_flag

\* The last arrival has everybody else waiting.
LastInv == \A t \in Thread : pc[t] \in {"reset", "flip"} =>
    \A u \in Thread \ {t} : pc[u] \in Waiting /\ lsense[u] # release_flag

RegInv == \A t \in Thread : pc[t] = "store" => reg[t] = current_count

IInv == Typed /\ LockInv /\ SenseInv /\ LastInv /\ RegInv /\ CountExact

LEMMA CountedFacts ==
    /\ IsFiniteSet(Counted)
    /\ Cardinality(Counted) \in Nat
    /\ total \in Nat
    /\ Cardinality(Counted) <= total
    /\ Cardinality(Counted) = total => Counted = Thread
<1>1. Counted \subseteq Thread
  BY DEF Counted
<1> QED
  BY <1>1, ThreadFinite, FS_Subset, FS_CardinalityType DEF total

\* An increment that leaves a thread out of the count is still within total.
LEMMA CountRoom ==
    ASSUME NEW t \in Thread, t \notin Counted
    PROVE  /\ IsFiniteSet(Counted \cup {t})
           /\ Cardinality(Counted \cup {t}) = Cardinality(Counted) + 1
           /\ Cardinality(Counted) + 1 <= total
           /\ Cardinality(Counted) + 1 = total => Counted \cup {t} = Thread
<1>1. Counted \cup {t} \subseteq Thread
  BY DEF Counted
<1>2. /\ IsFiniteSet(Counted \cup {t})
      /\ Cardinality(Counted \cup {t}) = Cardinality(Counted) + 1
  BY CountedFacts, FS_AddElement
<1>3. /\ Cardinality(Counted \cup {t}) <= total
      /\ Cardinality(Counted \cup {t}) = total => Counted \cup {t} = Thread
  BY <1>1, ThreadFinite, FS_Subset DEF total
<1> QED
  BY <1>2, <1>3

LEMMA CountBounded == IInv => current_count \in 0 .. total
  BY CountedFacts DEF IInv, Typed, CountExact

LEMMA InitIInv == Init => IInv
<1> SUFFICES ASSUME Init PROVE IInv
  OBVIOUS
<1> USE DEF Init, L!Init
<1>1. Typed /\ LockInv /\ SenseInv /\ LastInv /\ RegInv
  BY CountedFacts DEF Typed, LockInv, SenseInv, LastInv, RegInv, Sense, Critical
<1>2. CountExact
  <2>1. Counted = {}
    BY DEF Counted
  <2>2. ~ \E t \in Thread : pc[t] = "flip"
    OBVIOUS
  <2> QED
    BY <2>1, <2>2, FS_EmptySet DEF CountExact
<1> QED
  BY <1>1, <1>2 DEF IInv

\* A thread that starts a call has the flag's sense, and leaves it.
LEMMA CallKeepsIInv ==
    ASSUME IInv, NEW t \in Thread, Call(t)
    PROVE  IInv'
<1> USE DEF Call, Goto, L!Request
<1>1. Typed /\ pc[t] = "work" /\ lsense[t] = release_flag
  BY DEF IInv, SenseInv
<1>2. lsense'[t] \in Sense /\ lsense'[t] # release_flag
  BY <1>1 DEF Typed, Sense, Complement
<1>3. Typed'
  BY <1>1, <1>2 DEF Typed
<1>4. LockInv'
  BY <1>1 DEF IInv, LockInv, Typed, Critical
<1>5. SenseInv'
  BY <1>1, <1>2 DEF IInv, SenseInv, Typed
<1>6. \A u \in Thread : pc[u] \notin {"reset", "flip"}
  BY <1>1 DEF IInv, LastInv
<1>7. LastInv' /\ RegInv'
  BY <1>1, <1>6 DEF IInv, LastInv, RegInv, Typed
<1>8. Counted' = Counted
  BY <1>1 DEF Typed, Counted
<1>9. CountExact'
  BY <1>1, <1>6, <1>8 DEF IInv, CountExact, Typed
<1> QED
  BY <1>3, <1>4, <1>5, <1>7, <1>9 DEF IInv

\* The steps that move one thread along without touching count or flag.
LEMMA MoveKeepsIInv ==
    ASSUME IInv, NEW t \in Thread, Lock(t) \/ Load(t) \/ Unlock(t)
    PROVE  IInv'
<1> USE DEF Lock, Load, Unlock, Goto, L!Acquire, L!Release
<1>1. /\ Typed
      /\ UNCHANGED <<current_count, release_flag, lsense>>
      /\ \/ pc[t] = "lock" /\ pc' = [pc EXCEPT ![t] = "load"] /\ reg' = reg
         \/ /\ pc[t] = "load" /\ pc' = [pc EXCEPT ![t] = "store"]
            /\ reg' = [reg EXCEPT ![t] = current_count]
         \/ pc[t] = "unlock" /\ pc' = [pc EXCEPT ![t] = "wait"] /\ reg' = reg
  BY DEF IInv
<1>2. Typed'
  BY <1>1, CountBounded DEF Typed, Critical, total
<1>3. LockInv'
  <2>1. CASE Lock(t)
    BY <1>1, <2>1 DEF IInv, LockInv, Typed, Critical
  <2>2. CASE Load(t)
    BY <1>1, <2>2 DEF IInv, LockInv, Typed, Critical
  <2>3. CASE Unlock(t)
    BY <1>1, <2>3 DEF IInv, LockInv, Typed, Critical
  <2> QED
    BY <2>1, <2>2, <2>3
<1>4. SenseInv'
  BY <1>1 DEF IInv, SenseInv, Typed
<1>5. \A u \in Thread : pc[u] \notin {"reset", "flip"}
  BY <1>1 DEF IInv, LastInv
<1>6. LastInv'
  BY <1>1, <1>5 DEF LastInv, Typed
<1>7. RegInv'
  BY <1>1 DEF IInv, RegInv, Typed
<1>8. Counted' = Counted
  BY <1>1 DEF Typed, Counted
<1>9. CountExact'
  BY <1>1, <1>5, <1>8 DEF IInv, CountExact, Typed
<1> QED
  BY <1>2, <1>3, <1>4, <1>6, <1>7, <1>9 DEF IInv

\* The increment adds the one thread that is inside the lock; a full count
\* leaves nobody else but threads that spin.
LEMMA StoreKeepsIInv ==
    ASSUME IInv, NEW t \in Thread, Store(t)
    PROVE  IInv'
<1> USE DEF Store, Goto
<1>1. /\ Typed
      /\ pc[t] = "store"
      /\ lsense[t] # release_flag
      /\ current_count' = current_count + 1
      /\ pc' = [pc EXCEPT ![t] = IF current_count + 1 = total THEN "reset" ELSE "unlock"]
      /\ UNCHANGED <<waiting, holding, release_flag, lsense, reg>>
  BY DEF IInv, RegInv, SenseInv
<1>2. \A u \in Thread \ {t} : pc[u] \notin Critical
  BY <1>1 DEF IInv, LockInv, Critical
<1>3. \A u \in Thread : pc[u] # "flip" /\ pc'[u] # "flip"
  BY <1>1, <1>2 DEF Typed, Critical
<1>4. current_count = Cardinality(Counted)
  BY <1>3 DEF IInv, CountExact
<1>5. t \notin Counted /\ Counted' = Counted \cup {t}
  BY <1>1 DEF Typed, Counted
<1>6. Typed'
  BY <1>1 DEF Typed, Critical
<1>7. LockInv'
  BY <1>1 DEF IInv, LockInv, Typed, Critical
<1>8. SenseInv'
  BY <1>1 DEF IInv, SenseInv, Typed
<1>9. LastInv'
  <2> SUFFICES ASSUME NEW v \in Thread, pc'[v] \in {"reset", "flip"},
                      NEW u \in Thread \ {v}
               PROVE  pc'[u] \in Waiting /\ lsense'[u] # release_flag'
    BY DEF LastInv
  <2>1. v = t /\ current_count + 1 = total
    BY <1>1, <1>2 DEF Typed, Critical
  <2>2. Counted \cup {t} = Thread
    BY <1>4, <1>5, <2>1, CountRoom
  <2>3. u \in Counted /\ u # t
    BY <2>1, <2>2
  <2> QED
    BY <1>1, <1>2, <2>3 DEF Counted, Critical, Typed
<1>10. RegInv'
  BY <1>1, <1>2 DEF RegInv, Typed, Critical
<1>11. CountExact'
  BY <1>1, <1>3, <1>4, <1>5, CountRoom DEF CountExact
<1> QED
  BY <1>6, <1>7, <1>8, <1>9, <1>10, <1>11 DEF IInv

LEMMA ResetKeepsIInv ==
    ASSUME IInv, NEW t \in Thread, Reset(t)
    PROVE  IInv'
<1> USE DEF Reset, Goto
<1>1. /\ Typed
      /\ pc[t] = "reset"
      /\ lsense[t] # release_flag
  BY DEF IInv, SenseInv
<1>2. \A u \in Thread \ {t} : pc[u] \in Waiting
  BY <1>1 DEF IInv, LastInv
<1>3. Typed'
  BY <1>1 DEF Typed, Critical
<1>4. LockInv'
  BY <1>1 DEF IInv, LockInv, Typed, Critical
<1>5. SenseInv' /\ LastInv' /\ RegInv'
  BY <1>1, <1>2 DEF IInv, SenseInv, LastInv, RegInv, Typed
<1>6. CountExact'
  BY <1>1 DEF CountExact, Typed
<1> QED
  BY <1>3, <1>4, <1>5, <1>6 DEF IInv

\* The flag store releases everybody at once, and leaves an empty count.
LEMMA FlipKeepsIInv ==
    ASSUME IInv, NEW t \in Thread, Flip(t)
    PROVE  IInv'
<1> USE DEF Flip, Goto
<1>1. /\ Typed
      /\ pc[t] = "flip"
      /\ lsense[t] # release_flag
      /\ current_count = 0
  BY DEF IInv, SenseInv, CountExact
<1>2. \A u \in Thread \ {t} : pc[u] \in Waiting /\ lsense[u] # release_flag
  BY <1>1 DEF IInv, LastInv
<1>3. \A u \in Thread : lsense'[u] = release_flag'
  BY <1>1, <1>2 DEF Typed, Sense
<1>4. Typed'
  BY <1>1 DEF Typed, Critical
<1>5. LockInv'
  BY <1>1 DEF IInv, LockInv, Typed, Critical
<1>6. SenseInv' /\ LastInv' /\ RegInv'
  BY <1>1, <1>2, <1>3 DEF SenseInv, LastInv, RegInv, Typed
<1>7. CountExact'
  <2>1. Counted' = {}
    BY <1>3 DEF Counted
  <2>2. current_count' = 0
    BY <1>1
  <2> QED
    BY <2>1, <2>2, FS_EmptySet DEF CountExact
<1> QED
  BY <1>4, <1>5, <1>6, <1>7 DEF IInv

\* Leaving with the sense of the flag, halting and being woken.
LEMMA WaitKeepsIInv ==
    ASSUME IInv, NEW t \in Thread, SpinOnCondition(t) \/ Halt(t) \/ Tick(t)
    PROVE  IInv'
<1> USE DEF SpinOnCondition, Halt, Tick, Goto
<1>1. /\ Typed /\ pc[t] \in Waiting
      /\ UNCHANGED <<waiting, holding, current_count, release_flag, lsense, reg>>
      /\ \/ pc' = [pc EXCEPT ![t] = "work"] /\ lsense[t] = release_flag
         \/ \E p \in Waiting : pc' = [pc EXCEPT ![t] = p]
  BY DEF IInv
<1>2. Typed'
  BY <1>1 DEF Typed
<1>3. LockInv'
  BY <1>1 DEF IInv, LockInv, Typed, Critical
<1>4. SenseInv' /\ LastInv' /\ RegInv'
  BY <1>1 DEF IInv, SenseInv, LastInv, RegInv, Typed
<1>5. Counted' = Counted
  BY <1>1 DEF Typed, Counted
<1>6. CountExact'
  BY <1>1, <1>5 DEF IInv, CountExact, Typed
<1> QED
  BY <1>2, <1>3, <1>4, <1>6 DEF IInv

LEMMA NextKeepsIInv == IInv /\ [Next]_vars => IInv'
<1> SUFFICES ASSUME IInv, [Next]_vars PROVE IInv'
  OBVIOUS
<1>1. CASE UNCHANGED vars
  BY <1>1 DEF vars, IInv, Typed, LockInv, SenseInv, LastInv, RegInv, CountExact, Counted
<1>2. CASE Next
  BY <1>2, CallKeepsIInv, MoveKeepsIInv, StoreKeepsIInv, ResetKeepsIInv, FlipKeepsIInv,
     WaitKeepsIInv DEF Next, Step
<1> QED
  BY <1>1, <1>2

THEOREM Invariance == Spec => []IInv
  BY InitIInv, NextKeepsIInv, PTL DEF Spec

-----------------------------------------------------------------------------

\* The count and every register copy of it stay within the total.
THEOREM LSenseBarrierTypeOK == Spec => []TypeOK
<1>1. IInv => TypeOK
  BY CountBounded DEF IInv, Typed, TypeOK, LockInv
<1> QED
  BY <1>1, Invariance, PTL

\* The count is exact in every state, for any finite set of threads.
THEOREM LSenseBarrierCountExact == Spec => []CountExact
<1>1. IInv => CountExact
  BY DEF IInv
<1> QED
  BY <1>1, Invariance, PTL

\* When the flag turns, every thread is inside the barrier and waits for the
\* new value.
THEOREM LSenseBarrierNobodyLeftBehind == Spec => NobodyLeftBehind
<1>1. IInv /\ [Next]_vars =>
        [release_flag' # release_flag =>
            \A t \in Thread : pc[t] # "work" /\ lsense[t] = release_flag']_vars
  <2> SUFFICES ASSUME IInv, Next, release_flag' # release_flag
               PROVE  \A u \in Thread : pc[u] # "work" /\ lsense[u] = release_flag'
    BY DEF vars
  <2>1. PICK t \in Thread : Flip(t)
    BY DEF Next, Step, Call, Lock, Load, Store, Reset, Unlock, SpinOnCondition, Halt, Tick
  <2>2. /\ Typed
        /\ pc[t] = "flip"
        /\ lsense[t] # release_flag
        /\ \A u \in Thread \ {t} : pc[u] \in Waiting /\ lsense[u] # release_flag
    BY <2>1 DEF Flip, Goto, IInv, SenseInv, LastInv
  <2> QED
    BY <2>1, <2>2 DEF Flip, Typed, Sense
<1> QED
  BY <1>1, Invariance, PTL DEF Spec, NobodyLeftBehind

\* spin_barrier_lsense of spin.c is a barrier: every step is a step of the
\* abstract one or changes nothing in it.
THEOREM LSenseBarrierImplementsBarrier == Spec => ImplementsBarrier
<1>1. Init => B!Init
  BY DEF Init, B!Init, Stage
<1>2. IInv /\ [Next]_vars => [B!Next]_Stage
  <2> SUFFICES ASSUME IInv, [Next]_vars PROVE [B!Next]_Stage
    OBVIOUS
  <2> USE DEF Goto
  <2>0. Typed
    BY DEF IInv
  <2>1. CASE UNCHANGED vars
    BY <2>1 DEF vars, Stage
  <2>2. ASSUME NEW t \in Thread, Call(t) PROVE B!Next
    <3>1. /\ pc[t] = "work" /\ lsense[t] = release_flag /\ release_flag' = release_flag
          /\ pc' = [pc EXCEPT ![t] = "lock"]
          /\ lsense' = [lsense EXCEPT ![t] = Complement(lsense[t])]
      BY <2>2 DEF IInv, SenseInv, Call
    <3>2. pc'[t] = "lock" /\ lsense'[t] # release_flag'
      BY <2>0, <3>1 DEF Typed, Sense, Complement
    <3>3. Stage[t] = "work" /\ Stage' = [Stage EXCEPT ![t] = "waiting"]
      BY <2>0, <3>1, <3>2 DEF Typed, Stage
    <3>4. B!Enter(t)
      BY <3>3 DEF B!Enter
    <3> QED
      BY <3>4 DEF B!Next
  <2>3. ASSUME NEW t \in Thread, Lock(t) \/ Load(t) \/ Store(t) \/ Reset(t) \/ Unlock(t)
        PROVE  Stage' = Stage
    <3>1. PICK p \in {"load", "store", "reset", "unlock", "flip", "wait"} :
             pc[t] # "work" /\ pc' = [pc EXCEPT ![t] = p]
      BY <2>3 DEF Lock, Load, Store, Reset, Unlock
    <3>2. UNCHANGED <<release_flag, lsense>>
      BY <2>3 DEF Lock, Load, Store, Reset, Unlock
    <3> QED
      BY <2>0, <3>1, <3>2 DEF Typed, Stage
  <2>4. ASSUME NEW t \in Thread, Flip(t) PROVE B!Next
    <3>1. /\ pc[t] = "flip"
          /\ lsense[t] # release_flag
          /\ \A u \in Thread \ {t} : pc[u] \in Waiting /\ lsense[u] # release_flag
      BY <2>4 DEF Flip, IInv, SenseInv, LastInv
    <3>2. \A u \in Thread : Stage[u] = "waiting"
      BY <3>1 DEF Stage
    <3>3. \A u \in Thread : pc'[u] # "work" /\ lsense'[u] = release_flag'
      BY <2>0, <2>4, <3>1 DEF Flip, Typed, Sense
    <3>4. Stage' = [u \in Thread |-> "released"]
      BY <3>3 DEF Stage
    <3> QED
      BY <3>2, <3>4 DEF B!Next, B!Release
  <2>5. ASSUME NEW t \in Thread, SpinOnCondition(t) PROVE B!Next
    <3>1. Stage[t] = "released" /\ Stage' = [Stage EXCEPT ![t] = "work"]
      BY <2>0, <2>5 DEF Typed, SpinOnCondition, Stage
    <3>2. B!Leave(t)
      BY <3>1 DEF B!Leave
    <3> QED
      BY <3>2 DEF B!Next
  <2>6. ASSUME NEW t \in Thread, Halt(t) \/ Tick(t) PROVE Stage' = Stage
    BY <2>0, <2>6 DEF Typed, Halt, Tick, Stage
  <2> QED
    BY <2>1, <2>2, <2>3, <2>4, <2>5, <2>6 DEF Next, Step
<1> QED
  BY <1>1, <1>2, Invariance, PTL DEF Spec, ImplementsBarrier, B!Spec

=============================================================================
