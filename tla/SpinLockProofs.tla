--------------------------- MODULE SpinLockProofs ---------------------------
(***************************************************************************)
(* Proofs about SpinLock, for every finite set of threads and every one of  *)
(* the five implementations: mutual exclusion, the meaning and the bounds   *)
(* of the lock word, and that each lock implements the abstract one.        *)
(***************************************************************************)
EXTENDS SpinLock, FiniteSetTheorems, TLAPS

\* What one attempt leaves in the word and when it lets the thread in, and
\* what the spin loop's test says, for each implementation.
LEMMA WordFacts ==
    ASSUME NEW k \in LockKind, NEW w \in Int
    PROVE  /\ Unlocked(k) \in {0, 1}
           /\ SeesFree(k, Unlocked(k))
           /\ k \in Decrementing =>
                /\ Unlocked(k) = 1
                /\ Attempt(k, w).word = w - 1
                /\ w <= 1 => (Attempt(k, w).won <=> w = 1)
                /\ SeesFree(k, w) <=> w > 0
           /\ k \notin Decrementing =>
                /\ Attempt(k, w).word = 1 - Unlocked(k)
                /\ Attempt(k, w).won <=> w = Unlocked(k)
                /\ SeesFree(k, w) <=> w = Unlocked(k)
<1>1. /\ Unlocked(k) \in {0, 1}
      /\ k \in Decrementing => Unlocked(k) = 1
      /\ k \in Decrementing => (SeesFree(k, w) <=> w > 0)
      /\ k \notin Decrementing => (SeesFree(k, w) <=> w = Unlocked(k))
      /\ SeesFree(k, Unlocked(k))
  BY DEF Unlocked, SeesFree, Decrementing, LockKind
<1>2. CASE k = "spin_lock"
  <2>1. Attempt(k, w) = AttemptDec(w)
    BY <1>2 DEF Attempt
  <2>2. /\ AttemptDec(w).word = w - 1
        /\ AttemptDec(w).won <=> w - 1 >= 0
    BY DEF AttemptDec
  <2> QED
    BY <1>1, <1>2, <2>1, <2>2 DEF Decrementing, Unlocked
<1>3. CASE k = "spin_lock_fast"
  <2>1. Attempt(k, w) = AttemptFast(w)
    BY <1>3 DEF Attempt
  <2>2. /\ AttemptFast(w).word = w - 1
        /\ AttemptFast(w).won <=> w - 1 = 0
    BY DEF AttemptFast
  <2> QED
    BY <1>1, <1>3, <2>1, <2>2 DEF Decrementing, Unlocked
<1>4. CASE k = "spin_lock_cas"
  <2>1. Attempt(k, w) = AttemptCas(w)
    BY <1>4 DEF Attempt
  <2>2. /\ AttemptCas(w).word = 0
        /\ AttemptCas(w).won <=> w = 1
    BY DEF AttemptCas
  <2> QED
    BY <1>1, <1>4, <2>1, <2>2 DEF Decrementing, Unlocked
<1>5. CASE k = "spin_lock_xchg"
  <2>1. Attempt(k, w) = AttemptXchg(w)
    BY <1>5 DEF Attempt
  <2>2. /\ AttemptXchg(w).word = 1
        /\ AttemptXchg(w).won <=> w = 0
    BY DEF AttemptXchg
  <2> QED
    BY <1>1, <1>5, <2>1, <2>2 DEF Decrementing, Unlocked
<1>6. CASE k = "spin_lock_v2"
  <2>1. Attempt(k, w) = AttemptV2(w)
    BY <1>6 DEF Attempt
  <2>2. /\ AttemptV2(w).word = w - 1
        /\ AttemptV2(w).won <=> w - 1 >= 0
    BY DEF AttemptV2
  <2> QED
    BY <1>1, <1>6, <2>1, <2>2 DEF Decrementing, Unlocked
<1> QED
  BY <1>2, <1>3, <1>4, <1>5, <1>6 DEF LockKind, Decrementing

\* The inductive invariant.  Mutual exclusion alone is not inductive: a
\* thread gets in because of what the word says, so the word must be known to
\* tell whether anybody is inside.
IInv ==
    /\ kind \in LockKind
    /\ lock \in Int
    /\ pc \in [Thread -> {"out", "try", "spin", "in"}]
    /\ MutualExclusion
    /\ WordTellsHolder
    /\ WordBounded

\* The counted threads are finitely many; one joining or leaving them
\* changes their number by one.
LEMMA CountedFacts ==
    /\ IsFiniteSet(Counted)
    /\ Cardinality(Counted) \in Nat
    /\ Cardinality(Counted) <= Cardinality(Thread)
    /\ Cardinality(Thread) \in Nat
<1>1. Counted \subseteq Thread
  BY DEF Counted
<1> QED
  BY <1>1, ThreadFinite, FS_Subset, FS_CardinalityType

LEMMA InitIInv == Init => IInv
<1> SUFFICES ASSUME Init PROVE IInv
  OBVIOUS
<1> USE DEF Init
<1>1. Unlocked(kind) \in {0, 1} /\ SeesFree(kind, Unlocked(kind))
  BY WordFacts
<1>2. Inside = {} /\ Counted = {}
  BY DEF Inside, Counted
<1>3. kind \in Decrementing => Unlocked(kind) = 1
  BY WordFacts, <1>1
<1>4. WordBounded
  BY <1>1, <1>2, <1>3, FS_EmptySet DEF WordBounded
<1>5. MutualExclusion /\ WordTellsHolder
  BY <1>1, <1>2 DEF MutualExclusion, WordTellsHolder, Inside
<1> QED
  BY <1>1, <1>4, <1>5 DEF IInv

\* A successful attempt finds nobody inside; an unsuccessful one leaves the
\* word looking taken.
LEMMA TryKeepsIInv ==
    ASSUME IInv, NEW t \in Thread, Try(t)
    PROVE  IInv'
<1> DEFINE won == Attempt(kind, lock).won
<1>1. /\ pc[t] = "try"
      /\ pc' = [pc EXCEPT ![t] = IF won THEN "in" ELSE "spin"]
      /\ kind' = kind
      /\ lock' = Attempt(kind, lock).word
  BY DEF Try
<1>2. /\ kind \in LockKind
      /\ lock \in Int
      /\ pc \in [Thread -> {"out", "try", "spin", "in"}]
      /\ lock <= 1
  BY DEF IInv, WordBounded
<1>3. won <=> SeesFree(kind, lock)
  BY <1>2, WordFacts
<1>4. lock' \in Int
  BY <1>1, <1>2, WordFacts
<1>5. ~SeesFree(kind, lock)'
  <2>1. CASE kind \in Decrementing
    BY <1>1, <1>2, <1>4, <2>1, WordFacts
  <2>2. CASE kind \notin Decrementing
    <3>1. lock' = 1 - Unlocked(kind) /\ Unlocked(kind) \in {0, 1}
      BY <1>1, <1>2, <2>2, WordFacts
    <3>2. SeesFree(kind, lock') <=> lock' = Unlocked(kind)
      BY <1>2, <1>4, <2>2, WordFacts
    <3> QED
      BY <1>1, <3>1, <3>2
  <2> QED
    BY <2>1, <2>2
<1>6. won <=> Inside = {}
  BY <1>3 DEF IInv, WordTellsHolder
<1>7. Inside' = IF won THEN {t} ELSE Inside
  BY <1>1, <1>2, <1>6 DEF Inside
<1>8. Inside' # {}
  BY <1>6, <1>7
<1>9. WordTellsHolder'
  BY <1>5, <1>8 DEF WordTellsHolder
<1>10. MutualExclusion'
  BY <1>1, <1>2, <1>6 DEF MutualExclusion, IInv, Inside
<1>11. WordBounded'
  <2>1. Counted' = Counted \cup {t} /\ t \notin Counted
    BY <1>1, <1>2 DEF Counted
  <2>2. Cardinality(Counted') = Cardinality(Counted) + 1
    BY <2>1, CountedFacts, FS_AddElement
  <2>3. CASE kind \in Decrementing
    <3>1. lock' = lock - 1
      BY <1>1, <1>2, <2>3, WordFacts
    <3>2. lock >= 1 - Cardinality(Counted)
      BY <2>3 DEF IInv, WordBounded
    <3> QED
      BY <1>1, <1>2, <2>2, <2>3, <3>1, <3>2, CountedFacts DEF WordBounded
  <2>4. CASE kind \notin Decrementing
    BY <1>1, <1>2, <2>4, WordFacts DEF WordBounded
  <2> QED
    BY <2>3, <2>4
<1> QED
  BY <1>1, <1>2, <1>4, <1>9, <1>10, <1>11 DEF IInv

LEMMA SpinKeepsIInv ==
    ASSUME IInv, NEW t \in Thread, Spin(t)
    PROVE  IInv'
<1>1. /\ pc[t] = "spin"
      /\ SeesFree(kind, lock)
      /\ pc' = [pc EXCEPT ![t] = "try"]
      /\ kind' = kind
      /\ lock' = lock
  BY DEF Spin
<1>2. /\ kind \in LockKind
      /\ lock \in Int
      /\ pc \in [Thread -> {"out", "try", "spin", "in"}]
  BY DEF IInv
<1>3. Inside' = Inside
  BY <1>1, <1>2 DEF Inside
<1>4. WordTellsHolder' /\ MutualExclusion'
  BY <1>1, <1>2, <1>3 DEF IInv, WordTellsHolder, MutualExclusion
<1>5. WordBounded'
  <2>1. Cardinality(Counted') \in Nat
    BY CountedFacts, ThreadFinite, FS_Subset, FS_CardinalityType DEF Counted
  <2>2. kind \in Decrementing => lock > 0
    BY <1>1, <1>2, WordFacts
  <2> QED
    BY <1>1, <1>2, <2>1, <2>2 DEF IInv, WordBounded
<1> QED
  BY <1>1, <1>2, <1>4, <1>5 DEF IInv

\* spin_unlock writes the free value whatever the word was; mutual exclusion
\* is what makes nobody left inside.
LEMMA UnlockKeepsIInv ==
    ASSUME IInv, NEW t \in Thread, Unlock(t)
    PROVE  IInv'
<1>1. /\ pc[t] = "in"
      /\ pc' = [pc EXCEPT ![t] = "out"]
      /\ kind' = kind
      /\ lock' = Unlocked(kind)
  BY DEF Unlock
<1>2. /\ kind \in LockKind
      /\ lock \in Int
      /\ pc \in [Thread -> {"out", "try", "spin", "in"}]
  BY DEF IInv
<1>3. Unlocked(kind) \in {0, 1} /\ SeesFree(kind, Unlocked(kind))
  BY <1>2, WordFacts
<1>4. Inside' = {}
  BY <1>1, <1>2 DEF IInv, MutualExclusion, Inside
<1>5. WordTellsHolder'
  BY <1>1, <1>3, <1>4 DEF WordTellsHolder
<1>6. MutualExclusion'
  BY <1>1, <1>2, <1>4 DEF MutualExclusion, Inside
<1>7. WordBounded'
  <2>1. Cardinality(Counted') \in Nat
    BY ThreadFinite, FS_Subset, FS_CardinalityType DEF Counted
  <2>2. kind \in Decrementing => Unlocked(kind) = 1
    BY <1>2, WordFacts
  <2> QED
    BY <1>1, <1>3, <2>1, <2>2 DEF WordBounded
<1> QED
  BY <1>1, <1>2, <1>3, <1>5, <1>6, <1>7 DEF IInv

LEMMA CallKeepsIInv ==
    ASSUME IInv, NEW t \in Thread, Call(t)
    PROVE  IInv'
<1>1. /\ pc[t] = "out"
      /\ pc' = [pc EXCEPT ![t] = "try"]
      /\ UNCHANGED <<kind, lock>>
  BY DEF Call
<1>2. pc \in [Thread -> {"out", "try", "spin", "in"}]
  BY DEF IInv
<1>3. Inside' = Inside /\ Counted' = Counted
  BY <1>1, <1>2 DEF Inside, Counted
<1>4. WordTellsHolder' /\ WordBounded' /\ MutualExclusion'
  BY <1>1, <1>2, <1>3 DEF IInv, WordTellsHolder, WordBounded, MutualExclusion
<1> QED
  BY <1>1, <1>2, <1>4 DEF IInv

LEMMA NextKeepsIInv == IInv /\ [Next]_vars => IInv'
<1> SUFFICES ASSUME IInv, [Next]_vars PROVE IInv'
  OBVIOUS
<1>1. CASE UNCHANGED vars
  BY <1>1 DEF vars, IInv, MutualExclusion, WordTellsHolder, WordBounded, Inside, Counted
<1>2. ASSUME NEW t \in Thread, Call(t) PROVE IInv'
  BY <1>2, CallKeepsIInv
<1>3. ASSUME NEW t \in Thread, Try(t) PROVE IInv'
  BY <1>3, TryKeepsIInv
<1>4. ASSUME NEW t \in Thread, Spin(t) PROVE IInv'
  BY <1>4, SpinKeepsIInv
<1>5. ASSUME NEW t \in Thread, Unlock(t) PROVE IInv'
  BY <1>5, UnlockKeepsIInv
<1> QED
  BY <1>1, <1>2, <1>3, <1>4, <1>5 DEF Next, Step

THEOREM Invariance == Spec => []IInv
  BY InitIInv, NextKeepsIInv, PTL DEF Spec

-----------------------------------------------------------------------------

\* At most one thread is in the critical section of any of the five locks.
THEOREM SpinLockMutualExclusion == Spec => []MutualExclusion
<1>1. IInv => MutualExclusion
  BY DEF IInv
<1> QED
  BY <1>1, Invariance, PTL

\* The lock word looks free exactly when nobody is inside.
THEOREM SpinLockWordTellsHolder == Spec => []WordTellsHolder
<1>1. IInv => WordTellsHolder
  BY DEF IInv
<1> QED
  BY <1>1, Invariance, PTL

\* The decrements never take the word below the number of threads that are
\* spinning or inside, so with fewer than 2^31 threads a 32-bit word does not
\* wrap.
THEOREM SpinLockWordBounded == Spec => []WordBounded
<1>1. IInv => WordBounded
  BY DEF IInv
<1> QED
  BY <1>1, Invariance, PTL

\* Type correctness, with the range of the word that follows from the bound.
THEOREM SpinLockTypeOK == Spec => []TypeOK
<1>1. IInv => TypeOK
  <2> SUFFICES ASSUME IInv PROVE TypeOK
    OBVIOUS
  <2>1. Cardinality(Thread) >= 1
    BY ThreadFinite, FS_EmptySet, FS_CardinalityType
  <2>2. CASE kind \in Decrementing
    BY <2>2, CountedFacts DEF IInv, WordBounded, TypeOK
  <2>3. CASE kind \notin Decrementing
    <3>1. lock \in {0, 1}
      BY <2>3 DEF IInv, WordBounded
    <3> QED
      BY <2>1, <3>1, CountedFacts DEF IInv, TypeOK
  <2> QED
    BY <2>2, <2>3
<1> QED
  BY <1>1, Invariance, PTL

-----------------------------------------------------------------------------

\* Each of the five implementations is a lock: an attempt that succeeds is
\* the abstract Acquire, and every other step of the spin loop is invisible.
THEOREM SpinLockImplementsMutex == Spec => ImplementsMutex
<1> DEFINE W == {t \in Thread : pc[t] \in {"try", "spin"}}
<1>1. Init => M!Init
  BY DEF Init, M!Init, Inside
<1>2. IInv /\ [Next]_vars => [M!Next]_<<W, Inside>>
  <2> SUFFICES ASSUME IInv, [Next]_vars PROVE [M!Next]_<<W, Inside>>
    OBVIOUS
  <2>0. pc \in [Thread -> {"out", "try", "spin", "in"}]
    BY DEF IInv
  <2>1. CASE UNCHANGED vars
    BY <2>1 DEF vars, Inside
  <2>2. ASSUME NEW t \in Thread, Call(t) PROVE M!Next
    <3>1. W' = W \cup {t} /\ Inside' = Inside /\ t \notin W \cup Inside
      BY <2>0, <2>2 DEF Call, Inside
    <3> QED
      BY <3>1 DEF M!Next, M!Request
  <2>3. ASSUME NEW t \in Thread, Try(t) PROVE [M!Next]_<<W, Inside>>
    <3>1. Attempt(kind, lock).won <=> Inside = {}
      BY WordFacts DEF IInv, WordTellsHolder, WordBounded
    <3>2. CASE Attempt(kind, lock).won
      <4>1. Inside' = {t} /\ W' = W \ {t} /\ t \in W
        BY <2>0, <2>3, <3>1, <3>2 DEF Try, Inside
      <4> QED
        BY <3>1, <3>2, <4>1 DEF M!Next, M!Acquire
    <3>3. CASE ~Attempt(kind, lock).won
      BY <2>0, <2>3, <3>3 DEF Try, Inside
    <3> QED
      BY <3>2, <3>3
  <2>4. ASSUME NEW t \in Thread, Spin(t) PROVE UNCHANGED <<W, Inside>>
    BY <2>0, <2>4 DEF Spin, Inside
  <2>5. ASSUME NEW t \in Thread, Unlock(t) PROVE M!Next
    <3>1. Inside' = Inside \ {t} /\ W' = W /\ t \in Inside
      BY <2>0, <2>5 DEF Unlock, Inside
    <3> QED
      BY <3>1 DEF M!Next, M!Release
  <2> QED
    BY <2>1, <2>2, <2>3, <2>4, <2>5 DEF Next, Step
<1> QED
  BY <1>1, <1>2, Invariance, PTL DEF Spec, ImplementsMutex, M!Spec, M!mvars

=============================================================================
