------------------------ MODULE CentralBarrierProofs -----------------------
(***************************************************************************)
(* Proofs about CentralBarrier used once, for every finite set of threads   *)
(* and either initial flag.  That it is used once is a hypothesis of each   *)
(* theorem: the run with two rounds shows that it is needed.                *)
(***************************************************************************)
EXTENDS CentralBarrier, FiniteSetTheorems, TLAPS

Inside == {"first", "clear", "load", "store", "unlock"}
After == {"unlock", "test", "reset", "flip", "wait", "return", "work"}

\* The threads that have counted themselves.
Counted == {t \in Thread : entered[t] = 1 /\ pc[t] \in After}

Typed ==
    /\ waiting \subseteq Thread
    /\ current_count \in Nat
    /\ release_flag \in {0, 1}
    /\ reg \in [Thread -> Nat]
    /\ pc \in [Thread -> Inside \cup After \cup {"lock"}]
    /\ entered \in [Thread -> {0, 1}]
    /\ returned \in [Thread -> {0, 1}]

\* Who is in a call is in its only call.
CallInv ==
    \A t \in Thread :
        /\ pc[t] # "work" => entered[t] = 1 /\ returned[t] = 0
        /\ pc[t] = "work" => returned[t] = entered[t]

LockInv ==
    /\ \A t \in Thread : pc[t] \in Inside <=> holding = {t}
    /\ holding = {} \/ \E t \in Thread : holding = {t}

\* As long as somebody has not been counted the count is exact, nobody finds
\* it full, and the flag is clear from the first count on.
GatherInv ==
    Counted # Thread =>
        /\ current_count = Cardinality(Counted)
        /\ Counted # {} => release_flag = 0
        /\ \A t \in Thread :
              /\ pc[t] \notin {"reset", "flip", "return"}
              /\ returned[t] = 0
              /\ pc[t] \in {"load", "store"} => release_flag = 0
              /\ pc[t] = "store" => reg[t] = current_count

\* Once everybody has been counted, somebody finds the count full, and resets
\* it, on the way to the store of the flag.
ReleaseInv ==
    /\ \A t \in Thread : pc[t] = "return" \/ returned[t] = 1 => release_flag = 1
    /\ Counted = Thread =>
        /\ current_count <= nthreads
        /\ release_flag = 0 =>
              \/ \E t \in Thread : pc[t] \in {"reset", "flip"}
              \/ current_count = nthreads /\ \E t \in Thread : pc[t] \in {"unlock", "test"}

RegFits == \A t \in Thread : reg[t] <= nthreads

\* The inductive invariant: before everybody has been counted the flag stays
\* clear, and afterwards nothing is counted any more.
IInv == Typed /\ CallInv /\ LockInv /\ GatherInv /\ ReleaseInv /\ RegFits

LEMMA CountedFinite ==
    /\ IsFiniteSet(Counted)
    /\ Cardinality(Counted) \in Nat
    /\ Cardinality(Counted) <= nthreads
    /\ Cardinality(Counted) = nthreads => Counted = Thread
    /\ Cardinality(Counted) = 0 => Counted = {}
<1>1. Counted \subseteq Thread
  BY DEF Counted
<1>2. IsFiniteSet(Counted)
  BY <1>1, ThreadFinite, FS_Subset
<1> QED
  BY <1>1, <1>2, ThreadFinite, FS_Subset, FS_CardinalityType, FS_EmptySet DEF nthreads

\* Nobody is left waiting for a flag that nobody is going to set.
NobodyLeftBehind == (\A t \in Thread : pc[t] = "wait") => release_flag = 1

LEMMA InitIInv == Init => IInv
<1> SUFFICES ASSUME Init PROVE IInv
  OBVIOUS
<1>1. Counted = {}
  BY DEF Init, Counted
<1>2. GatherInv /\ Counted # Thread
  BY <1>1, FS_EmptySet, ThreadFinite DEF Init, GatherInv
<1>3. 0 <= nthreads
  BY CountedFinite, <1>1, FS_EmptySet
<1> QED
  BY <1>2, <1>3 DEF Init, L!Init, IInv, Typed, CallInv, LockInv, ReleaseInv, RegFits, Inside, After

\* Two threads are not both between the lock and the unlock.
LEMMA Alone ==
    ASSUME IInv, NEW t \in Thread, pc[t] \in Inside
    PROVE  holding = {t} /\ \A u \in Thread : pc[u] \in Inside => u = t
BY DEF IInv, LockInv

\* Up to the store, a thread has not been counted.
LEMMA NotCounted ==
    ASSUME IInv, NEW t \in Thread,
           pc[t] \in {"lock", "first", "clear", "load", "store"}
    PROVE  t \notin Counted /\ Counted # Thread
BY DEF Counted, After

\* A thread that has found the count full, or waits for a flag that is set,
\* has everybody counted.
LEMMA AllCounted ==
    ASSUME IInv, NEW t \in Thread,
           pc[t] \in {"reset", "flip", "return"} \/ (pc[t] = "wait" /\ release_flag = 1)
    PROVE  Counted = Thread
<1>1. pc[t] = "wait" => t \in Counted
  BY DEF IInv, CallInv, Counted, After
<1> QED
  BY <1>1 DEF IInv, GatherInv, Typed

LEMMA CallKeepsIInv ==
    ASSUME IInv, Rounds = 1, NEW t \in Thread, Call(t)
    PROVE  IInv'
<1> USE DEF Call, Goto, L!Request
<1>1. Typed /\ pc[t] = "work" /\ entered[t] = 0
  BY DEF IInv, Typed
<1>2. Typed' /\ RegFits' /\ CallInv'
  BY <1>1 DEF IInv, Typed, RegFits, CallInv, nthreads
<1>3. Counted' = Counted /\ Counted # Thread
  BY <1>1 DEF Typed, Counted, After
<1>4. LockInv'
  BY <1>1 DEF IInv, LockInv, Typed, Inside
<1>5. GatherInv'
  BY <1>1, <1>3 DEF IInv, GatherInv, Typed
<1>6. ReleaseInv'
  BY <1>1, <1>3 DEF IInv, ReleaseInv, Typed
<1> QED
  BY <1>2, <1>4, <1>5, <1>6 DEF IInv

LEMMA LockKeepsIInv ==
    ASSUME IInv, NEW t \in Thread, Lock(t)
    PROVE  IInv'
<1> USE DEF Lock, Goto, L!Acquire
<1>1. Typed /\ pc[t] = "lock" /\ Counted # Thread
  BY NotCounted DEF IInv
<1>2. Typed' /\ RegFits' /\ CallInv'
  BY <1>1 DEF IInv, Typed, RegFits, CallInv, nthreads, Inside
<1>3. Counted' = Counted
  BY <1>1 DEF Typed, Counted, After
<1>4. LockInv'
  BY <1>1 DEF IInv, LockInv, Typed, Inside
<1>5. GatherInv'
  BY <1>1, <1>3 DEF IInv, GatherInv, Typed
<1>6. ReleaseInv'
  BY <1>1, <1>3 DEF IInv, ReleaseInv, Typed
<1> QED
  BY <1>2, <1>4, <1>5, <1>6 DEF IInv

\* A count that is not zero has been counted by somebody, after the flag was
\* cleared.
LEMMA FirstKeepsIInv ==
    ASSUME IInv, NEW t \in Thread, First(t)
    PROVE  IInv'
<1> USE DEF First, Goto
<1>1. Typed /\ pc[t] = "first" /\ Counted # Thread
  BY NotCounted DEF IInv
<1>2. Typed' /\ RegFits' /\ CallInv'
  BY <1>1 DEF IInv, Typed, RegFits, CallInv, nthreads, Inside
<1>3. Counted' = Counted
  BY <1>1 DEF Typed, Counted, After
<1>4. LockInv'
  BY <1>1 DEF IInv, LockInv, Typed, Inside
<1>5. current_count # 0 => release_flag = 0
  BY <1>1, FS_EmptySet DEF IInv, GatherInv
<1>6. GatherInv'
  BY <1>1, <1>3, <1>5 DEF IInv, GatherInv, Typed
<1>7. ReleaseInv'
  BY <1>1, <1>3 DEF IInv, ReleaseInv, Typed
<1> QED
  BY <1>2, <1>4, <1>6, <1>7 DEF IInv

LEMMA ClearKeepsIInv ==
    ASSUME IInv, NEW t \in Thread, Clear(t)
    PROVE  IInv'
<1> USE DEF Clear, Goto
<1>1. Typed /\ pc[t] = "clear" /\ Counted # Thread
  BY NotCounted DEF IInv
<1>2. Typed' /\ RegFits' /\ CallInv'
  BY <1>1 DEF IInv, Typed, RegFits, CallInv, nthreads, Inside
<1>3. Counted' = Counted
  BY <1>1 DEF Typed, Counted, After
<1>4. LockInv'
  BY <1>1 DEF IInv, LockInv, Typed, Inside
<1>5. GatherInv'
  BY <1>1, <1>3 DEF IInv, GatherInv, Typed
<1>6. ReleaseInv'
  BY <1>1, <1>3 DEF IInv, GatherInv, ReleaseInv, Typed
<1> QED
  BY <1>2, <1>4, <1>5, <1>6 DEF IInv

LEMMA LoadKeepsIInv ==
    ASSUME IInv, NEW t \in Thread, Load(t)
    PROVE  IInv'
<1> USE DEF Load, Goto
<1>1. Typed /\ pc[t] = "load" /\ Counted # Thread
  BY NotCounted DEF IInv
<1>2. Typed' /\ CallInv'
  BY <1>1 DEF IInv, Typed, CallInv, Inside
<1>3. Counted' = Counted
  BY <1>1 DEF Typed, Counted, After
<1>4. LockInv'
  BY <1>1 DEF IInv, LockInv, Typed, Inside
<1>5. GatherInv'
  BY <1>1, <1>3 DEF IInv, GatherInv, Typed
<1>6. ReleaseInv'
  BY <1>1, <1>3 DEF IInv, ReleaseInv, Typed
<1>7. RegFits'
  BY <1>1, CountedFinite DEF IInv, GatherInv, RegFits, Typed, nthreads
<1> QED
  BY <1>2, <1>4, <1>5, <1>6, <1>7 DEF IInv

\* The store counts one thread more, and the last one finds it full.
LEMMA StoreKeepsIInv ==
    ASSUME IInv, NEW t \in Thread, Store(t)
    PROVE  IInv'
<1> USE DEF Store, Goto
<1>1. Typed /\ pc[t] = "store" /\ Counted # Thread /\ t \notin Counted
  BY NotCounted DEF IInv
<1>2. current_count' = current_count + 1 /\ current_count = Cardinality(Counted)
  BY <1>1 DEF IInv, GatherInv
<1>3. Typed' /\ RegFits' /\ CallInv'
  BY <1>1, <1>2 DEF IInv, Typed, RegFits, CallInv, nthreads, Inside
<1>4. Counted' = Counted \cup {t}
  BY <1>1 DEF IInv, CallInv, Typed, Counted, After
<1>5. current_count' = Cardinality(Counted')
  BY <1>1, <1>2, <1>4, CountedFinite, FS_AddElement
<1>6. LockInv'
  BY <1>1 DEF IInv, LockInv, Typed, Inside
<1>7. release_flag' = 0
  BY <1>1 DEF IInv, GatherInv
<1>8. \A u \in Thread : pc'[u] # "store"
  BY <1>1, Alone DEF Typed, Inside
<1>9. GatherInv'
  BY <1>1, <1>5, <1>7, <1>8 DEF IInv, GatherInv, Typed
<1>10. ReleaseInv'
  <2>1. \A u \in Thread : ~ (pc'[u] = "return" \/ returned'[u] = 1)
    BY <1>1 DEF IInv, GatherInv, Typed
  <2>2. Counted' = Thread => current_count' = nthreads
    BY <1>5 DEF nthreads
  <2>3. pc'[t] = "unlock"
    BY <1>1 DEF Typed
  <2>4. nthreads \in Nat
    BY ThreadFinite, FS_CardinalityType DEF nthreads
  <2> QED
    BY <2>1, <2>2, <2>3, <2>4 DEF ReleaseInv, nthreads
<1> QED
  BY <1>3, <1>6, <1>9, <1>10 DEF IInv

LEMMA UnlockKeepsIInv ==
    ASSUME IInv, NEW t \in Thread, Unlock(t)
    PROVE  IInv'
<1> USE DEF Unlock, Goto, L!Release
<1>1. Typed /\ pc[t] = "unlock"
  BY DEF IInv
<1>2. Typed' /\ RegFits' /\ CallInv'
  BY <1>1 DEF IInv, Typed, RegFits, CallInv, nthreads, Inside, After
<1>3. Counted' = Counted
  BY <1>1 DEF Typed, Counted, After
<1>4. LockInv'
  BY <1>1, Alone DEF IInv, LockInv, Typed, Inside
<1>5. GatherInv'
  BY <1>1, <1>3 DEF IInv, GatherInv, Typed
<1>6. ReleaseInv'
  BY <1>1, <1>3 DEF IInv, ReleaseInv, Typed, nthreads
<1> QED
  BY <1>2, <1>4, <1>5, <1>6 DEF IInv

\* The count is read without the lock, but a full count does not change
\* until somebody has found it full.
LEMMA TestKeepsIInv ==
    ASSUME IInv, NEW t \in Thread, Test(t)
    PROVE  IInv'
<1> USE DEF Test, Goto
<1>1. Typed /\ pc[t] = "test"
  BY DEF IInv
<1>2. Typed' /\ RegFits' /\ CallInv'
  BY <1>1 DEF IInv, Typed, RegFits, CallInv, nthreads, Inside, After
<1>3. Counted' = Counted
  BY <1>1 DEF Typed, Counted, After
<1>4. LockInv'
  BY <1>1 DEF IInv, LockInv, Typed, Inside
<1>5. Counted # Thread => current_count # nthreads
  BY CountedFinite DEF IInv, GatherInv
<1>6. GatherInv'
  BY <1>1, <1>3, <1>5 DEF IInv, GatherInv, Typed
<1>7. ReleaseInv'
  BY <1>1, <1>3 DEF IInv, ReleaseInv, Typed, nthreads
<1> QED
  BY <1>2, <1>4, <1>6, <1>7 DEF IInv

LEMMA ResetKeepsIInv ==
    ASSUME IInv, NEW t \in Thread, Reset(t)
    PROVE  IInv'
<1> USE DEF Reset, Goto
<1>1. Typed /\ pc[t] = "reset" /\ Counted = Thread
  BY AllCounted DEF IInv
<1>2. Typed' /\ RegFits' /\ CallInv'
  BY <1>1 DEF IInv, Typed, RegFits, CallInv, nthreads, Inside, After
<1>3. Counted' = Thread
  BY <1>1 DEF Typed, Counted, After
<1>4. LockInv'
  BY <1>1 DEF IInv, LockInv, Typed, Inside
<1>5. GatherInv'
  BY <1>3 DEF GatherInv
<1>6. 0 <= nthreads
  BY ThreadFinite, FS_CardinalityType DEF nthreads
<1>7. ReleaseInv'
  BY <1>1, <1>6 DEF IInv, ReleaseInv, Typed, nthreads
<1> QED
  BY <1>2, <1>4, <1>5, <1>7 DEF IInv

LEMMA FlipKeepsIInv ==
    ASSUME IInv, NEW t \in Thread, Flip(t)
    PROVE  IInv'
<1> USE DEF Flip, Goto
<1>1. Typed /\ pc[t] = "flip" /\ Counted = Thread
  BY AllCounted DEF IInv
<1>2. Typed' /\ RegFits' /\ CallInv'
  BY <1>1 DEF IInv, Typed, RegFits, CallInv, nthreads, Inside, After
<1>3. Counted' = Thread
  BY <1>1 DEF Typed, Counted, After
<1>4. LockInv'
  BY <1>1 DEF IInv, LockInv, Typed, Inside
<1>5. GatherInv'
  BY <1>3 DEF GatherInv
<1>6. ReleaseInv'
  BY <1>1 DEF IInv, ReleaseInv, Typed, nthreads
<1> QED
  BY <1>2, <1>4, <1>5, <1>6 DEF IInv

\* Nobody leaves before the flag is set.
LEMMA LeaveKeepsIInv ==
    ASSUME IInv, NEW t \in Thread, Leave(t)
    PROVE  IInv'
<1> USE DEF Leave, Goto
<1>1. Typed /\ pc[t] \in {"wait", "return"} /\ pc' = [pc EXCEPT ![t] = "work"]
  BY DEF IInv
<1>2. Counted = Thread /\ release_flag = 1
  BY AllCounted DEF IInv, ReleaseInv
<1>3. entered[t] = 1 /\ returned[t] = 0
  BY <1>1 DEF IInv, CallInv
<1>4. Typed' /\ RegFits' /\ CallInv'
  BY <1>1, <1>3 DEF IInv, Typed, RegFits, CallInv, nthreads, Inside, After
<1>5. Counted' = Thread
  BY <1>1, <1>2 DEF Typed, Counted, After
<1>6. LockInv'
  BY <1>1 DEF IInv, LockInv, Typed, Inside
<1>7. GatherInv'
  BY <1>5 DEF GatherInv
<1>8. ReleaseInv'
  BY <1>1, <1>2 DEF IInv, ReleaseInv, Typed, nthreads
<1> QED
  BY <1>4, <1>6, <1>7, <1>8 DEF IInv

LEMMA Invariance ==
    ASSUME Rounds = 1
    PROVE  Spec => []IInv
<1>1. IInv /\ [Next]_vars => IInv'
  <2> SUFFICES ASSUME IInv, [Next]_vars PROVE IInv'
    OBVIOUS
  <2>1. CASE UNCHANGED vars
    BY <2>1 DEF vars, IInv, Typed, CallInv, LockInv, GatherInv, ReleaseInv, RegFits,
                Counted, nthreads
  <2>2. CASE Next
    BY <2>2, CallKeepsIInv, LockKeepsIInv, FirstKeepsIInv, ClearKeepsIInv, LoadKeepsIInv,
       StoreKeepsIInv, UnlockKeepsIInv, TestKeepsIInv, ResetKeepsIInv, FlipKeepsIInv,
       LeaveKeepsIInv DEF Next, Step
  <2> QED
    BY <2>1, <2>2
<1> QED
  BY <1>1, InitIInv, PTL DEF Spec

-----------------------------------------------------------------------------


(* What the barrier promises when it is used once *)

\* The lock keeps the arrivals apart, and the count stays between zero and the
\* number of threads.
THEOREM CentralBarrierTypeOK == (Rounds = 1) => (Spec => []TypeOK)
<1> SUFFICES ASSUME Rounds = 1 PROVE Spec => []TypeOK
  OBVIOUS
<1>1. IInv => TypeOK
  <2> SUFFICES ASSUME IInv PROVE TypeOK
    OBVIOUS
  <2>1. nthreads \in Nat
    BY ThreadFinite, FS_CardinalityType DEF nthreads
  <2>2. current_count <= nthreads
    BY CountedFinite DEF IInv, GatherInv, ReleaseInv
  <2>3. current_count \in 0 .. nthreads /\ reg \in [Thread -> 0 .. nthreads]
    BY <2>1, <2>2 DEF IInv, Typed, RegFits
  <2> QED
    BY <2>3 DEF IInv, Typed, LockInv, TypeOK, Inside, After
<1> QED
  BY <1>1, Invariance, PTL

\* Nobody comes back before everybody has called: a thread that has returned
\* has seen the flag set, and nobody sets it before the count is full.
THEOREM CentralBarrierNobodyLeavesEarly == (Rounds = 1) => (Spec => []NobodyLeavesEarly)
<1> SUFFICES ASSUME Rounds = 1 PROVE Spec => []NobodyLeavesEarly
  OBVIOUS
<1>1. IInv => NobodyLeavesEarly
  <2> SUFFICES ASSUME IInv, NEW t \in Thread, NEW u \in Thread
               PROVE  returned[t] <= entered[u]
    BY DEF NobodyLeavesEarly
  <2>1. CASE returned[t] = 0
    BY <2>1 DEF IInv, Typed
  <2>2. CASE Counted = Thread
    BY <2>2 DEF IInv, Typed, Counted
  <2> QED
    BY <2>1, <2>2 DEF IInv, GatherInv
<1> QED
  BY <1>1, Invariance, PTL

\* The threads cannot all be waiting for the flag with nobody left to set it,
\* although whoever tests the count does so after the unlock.
THEOREM CentralBarrierNobodyLeftBehind == (Rounds = 1) => (Spec => []NobodyLeftBehind)
<1> SUFFICES ASSUME Rounds = 1 PROVE Spec => []NobodyLeftBehind
  OBVIOUS
<1>1. IInv => NobodyLeftBehind
  <2> SUFFICES ASSUME IInv, \A t \in Thread : pc[t] = "wait" PROVE release_flag = 1
    BY DEF NobodyLeftBehind
  <2>1. Counted = Thread
    BY DEF IInv, CallInv, Counted, After
  <2> QED
    BY <2>1 DEF IInv, ReleaseInv, Typed
<1> QED
  BY <1>1, Invariance, PTL

\* A call enters the abstract barrier.
LEMMA CallEnters ==
    ASSUME IInv, Rounds = 1, NEW t \in Thread, Call(t)
    PROVE  B!Next
<1>1. Typed /\ pc[t] = "work" /\ pc' = [pc EXCEPT ![t] = "lock"] /\ release_flag' = release_flag
  BY DEF IInv, Call, Goto
<1>2. Stage[t] = "work" /\ Stage' = [Stage EXCEPT ![t] = "waiting"]
  BY <1>1 DEF Stage, Typed
<1> QED
  BY <1>2 DEF B!Next, B!Enter

\* The first store to the flag releases everybody, a later one nobody.
LEMMA FlipReleases ==
    ASSUME IInv, NEW t \in Thread, Flip(t)
    PROVE  [B!Next]_Stage
<1>1. Typed /\ pc[t] = "flip" /\ pc' = [pc EXCEPT ![t] = "return"] /\ release_flag' = 1
  BY DEF IInv, Flip, Goto
<1>2. Counted = Thread
  BY <1>1, AllCounted
<1>3. CASE release_flag = 1
  BY <1>1, <1>3 DEF Stage, Typed
<1>4. CASE release_flag = 0
  <2>1. \A u \in Thread : pc[u] # "work"
    BY <1>2, <1>4 DEF IInv, CallInv, ReleaseInv, Counted, Typed
  <2>2. \A u \in Thread : pc[u] \in After \ {"work"}
    BY <1>2, <2>1 DEF Counted
  <2>3. \A u \in Thread : Stage[u] = "waiting"
    BY <1>4, <2>1 DEF Stage
  <2>4. Stage' = [u \in Thread |-> "released"]
    BY <1>1, <2>2 DEF Stage, After, Typed
  <2> QED
    BY <2>3, <2>4 DEF B!Next, B!Release
<1> QED
  BY <1>1, <1>3, <1>4 DEF Typed

\* Every return is that of a released thread.
LEMMA LeaveLeaves ==
    ASSUME IInv, NEW t \in Thread, Leave(t)
    PROVE  B!Next
<1>1. Typed /\ pc[t] \in {"wait", "return"} /\ pc' = [pc EXCEPT ![t] = "work"]
  BY DEF IInv, Leave, Goto
<1>2. release_flag = 1 /\ release_flag' = 1
  BY DEF IInv, ReleaseInv, Leave, Goto
<1>3. Stage[t] = "released" /\ Stage' = [Stage EXCEPT ![t] = "work"]
  BY <1>1, <1>2 DEF Stage, Typed
<1> QED
  BY <1>3 DEF B!Next, B!Leave

\* Everything else happens while a thread is waiting, or released: the flag
\* is clear when a thread starts to look at it, and a clear finds nobody
\* released.
LEMMA OthersStutter ==
    ASSUME IInv, NEW t \in Thread,
           \/ Lock(t) \/ First(t) \/ Clear(t) \/ Load(t)
           \/ Store(t) \/ Unlock(t) \/ Test(t) \/ Reset(t)
    PROVE  Stage' = Stage
<1> USE DEF Goto
<1>1. Typed
  BY DEF IInv
<1>2. CASE Lock(t)
  BY <1>1, <1>2 DEF Lock, Stage, Typed
<1>3. CASE First(t)
  <2>1. Counted # Thread /\ Counted # {} => release_flag = 0
    BY DEF IInv, GatherInv
  <2>2. pc[t] = "first" /\ Counted # Thread
    BY <1>3, NotCounted DEF First
  <2>3. current_count # 0 => release_flag = 0
    BY <2>1, <2>2, FS_EmptySet DEF IInv, GatherInv
  <2> QED
    BY <1>1, <1>3, <2>2, <2>3 DEF First, Stage, Typed
<1>4. CASE Clear(t)
  <2>1. pc[t] = "clear" /\ Counted # Thread
    BY <1>4, NotCounted DEF Clear
  <2>2. CASE release_flag = 0
    BY <1>1, <1>4, <2>2 DEF Clear, Stage, Typed
  <2>3. CASE release_flag = 1
    <3>1. Counted = {}
      BY <2>1, <2>3 DEF IInv, GatherInv
    <3>2. \A u \in Thread : pc[u] \in {"work", "lock", "first", "clear"}
      BY <2>1, <2>3, <3>1 DEF IInv, GatherInv, CallInv, Typed, Counted, Inside, After
    <3> QED
      BY <1>1, <1>4, <3>2 DEF Clear, Stage, Typed
  <2> QED
    BY <1>1, <2>2, <2>3 DEF Typed
<1>5. CASE Load(t) \/ Store(t) \/ Unlock(t) \/ Test(t) \/ Reset(t)
  BY <1>1, <1>5 DEF Load, Store, Unlock, Test, Reset, Stage, Typed
<1> QED
  BY <1>2, <1>3, <1>4, <1>5

\* Used once, the barrier implements the abstract one: one store to the flag
\* releases all the threads, after all of them have come.
THEOREM CentralBarrierImplementsBarrier == (Rounds = 1) => (Spec => ImplementsBarrier)
<1> SUFFICES ASSUME Rounds = 1 PROVE Spec => ImplementsBarrier
  OBVIOUS
<1>1. Init => B!Init
  BY DEF Init, B!Init, Stage
<1>2. IInv /\ [Next]_vars => [B!Next]_Stage
  <2> SUFFICES ASSUME IInv, [Next]_vars PROVE [B!Next]_Stage
    OBVIOUS
  <2>1. CASE UNCHANGED vars
    BY <2>1 DEF vars, Stage
  <2>2. CASE Next
    BY <2>2, CallEnters, FlipReleases, LeaveLeaves, OthersStutter DEF Next, Step
  <2> QED
    BY <2>1, <2>2
<1> QED
  BY <1>1, <1>2, Invariance, PTL DEF Spec, ImplementsBarrier, B!Spec

=============================================================================
