------------------------- MODULE SynchBarrierProofs ------------------------
(***************************************************************************)
(* Proofs about SynchBarrier and HaltBarrier for every finite set of        *)
(* threads: although the barrier can lose arrivals and block for ever, it   *)
(* never lets a thread through too early, whether its threads spin or halt. *)
(*                                                                         *)
(* The halting barriers take the steps of the spinning one up to the wait,  *)
(* so there is one inductive invariant for both, over the program points    *)
(* of either.                                                              *)
(***************************************************************************)
EXTENDS HaltBarrier, FiniteSetTheorems, TLAPS

Points == {"work", "test", "reset", "flip", "wait", "return"}
Halting == {"halt", "halted", "recheck"}
Waits == {"wait"} \cup Halting

Typed ==
    /\ current_count \in Nat
    /\ release_flag \in {0, 1}
    /\ lsense \in [Thread -> {0, 1}]
    /\ pc \in [Thread -> Points \cup Halting]

\* The inductive invariant.  A thread outside the barrier has the sense of
\* the last release; the count of a round about to be released is zero when
\* the flag is stored, so that the next round starts from nothing.
IInv ==
    /\ Typed
    /\ CountNeverOverstates
    /\ ReleaseIsJustified
    /\ \A t \in Thread : pc[t] \in {"work", "return"} => lsense[t] = release_flag
    /\ \A t \in Thread : pc[t] = "flip" /\ lsense[t] # release_flag => current_count = 0

LEMMA ArrivedFinite ==
    /\ IsFiniteSet(Arrived)
    /\ Cardinality(Arrived) \in Nat
    /\ Cardinality(Arrived) <= Cardinality(Thread)
    /\ Cardinality(Arrived) = Cardinality(Thread) => Arrived = Thread
<1>1. Arrived \subseteq Thread
  BY DEF Arrived
<1> QED
  BY <1>1, ThreadFinite, FS_Subset, FS_CardinalityType

LEMMA InitIInv == Init => IInv
<1> SUFFICES ASSUME Init PROVE IInv
  OBVIOUS
<1>1. Arrived = {}
  BY DEF Init, Arrived
<1>2. CountNeverOverstates
  BY <1>1, FS_EmptySet DEF Init, CountNeverOverstates
<1> QED
  BY <1>2 DEF Init, IInv, Typed, Points, ReleaseIsJustified

\* An arrival adds a thread to the round and one to the count.
LEMMA ArriveKeepsIInv ==
    ASSUME IInv, NEW t \in Thread, Arrive(t)
    PROVE  IInv'
<1> USE DEF Arrive, Goto
<1>1. /\ Typed
      /\ pc[t] = "work"
      /\ lsense[t] = release_flag
  BY DEF IInv
<1>2. Typed'
  BY <1>1 DEF Typed, Points
<1>3. Arrived' = Arrived \cup {t} /\ t \notin Arrived
  BY <1>1 DEF Typed, Arrived
<1>4. Cardinality(Arrived') = Cardinality(Arrived) + 1
  BY <1>3, ArrivedFinite, FS_AddElement
<1>5. CountNeverOverstates'
  BY <1>1, <1>4, ArrivedFinite DEF IInv, CountNeverOverstates, Typed
<1>6. \A u \in Thread : pc[u] \in {"reset", "flip"} => lsense[u] = release_flag
  <2>1. Arrived # Thread
    BY <1>3
  <2> QED
    BY <2>1 DEF IInv, ReleaseIsJustified
<1>7. \A u \in Thread : pc'[u] \in {"reset", "flip"} => lsense'[u] = release_flag'
  BY <1>1, <1>6 DEF Typed
<1>8. \A u \in Thread : pc'[u] \in {"work", "return"} => lsense'[u] = release_flag'
  BY <1>1 DEF IInv, Typed
<1> QED
  BY <1>2, <1>5, <1>7, <1>8 DEF IInv, ReleaseIsJustified

\* A full count is a full round.
LEMMA TestKeepsIInv ==
    ASSUME IInv, NEW t \in Thread, Test(t)
    PROVE  IInv'
<1> USE DEF Test, Goto
<1>1. Typed /\ pc[t] = "test"
  BY DEF IInv
<1>2. Typed'
  BY <1>1 DEF Typed, Points
<1>3. Arrived' = Arrived
  BY <1>1 DEF Typed, Arrived
<1>4. current_count = nthreads => Arrived = Thread
  BY <1>1, ArrivedFinite DEF IInv, CountNeverOverstates, nthreads, Typed
<1>5. ReleaseIsJustified'
  BY <1>1, <1>3, <1>4 DEF IInv, ReleaseIsJustified, Typed
<1>6. CountNeverOverstates'
  BY <1>3 DEF IInv, CountNeverOverstates
<1> QED
  BY <1>1, <1>2, <1>5, <1>6 DEF IInv, Typed

\* The reset can only make the count smaller.
LEMMA ResetKeepsIInv ==
    ASSUME IInv, NEW t \in Thread, Reset(t)
    PROVE  IInv'
<1> USE DEF Reset, Goto
<1>1. Typed /\ pc[t] = "reset"
  BY DEF IInv
<1>2. Typed'
  BY <1>1 DEF Typed, Points
<1>3. Arrived' = Arrived
  BY <1>1 DEF Typed, Arrived
<1>4. CountNeverOverstates'
  BY <1>3, ArrivedFinite DEF CountNeverOverstates
<1>5. ReleaseIsJustified'
  BY <1>1, <1>3 DEF IInv, ReleaseIsJustified, Typed
<1> QED
  BY <1>1, <1>2, <1>4, <1>5 DEF IInv, Typed

\* The first store to the flag ends the round for everybody at once; a late
\* one changes nothing.
LEMMA FlipKeepsIInv ==
    ASSUME IInv, NEW t \in Thread, Flip(t)
    PROVE  IInv'
<1> USE DEF Flip, Goto
<1>1. Typed /\ pc[t] = "flip"
  BY DEF IInv
<1>2. Typed'
  BY <1>1 DEF Typed, Points
<1>3. CASE lsense[t] = release_flag
  <2>1. Arrived' = Arrived
    BY <1>1, <1>3 DEF Typed, Arrived
  <2>2. CountNeverOverstates'
    BY <2>1 DEF IInv, CountNeverOverstates
  <2>3. ReleaseIsJustified'
    BY <1>1, <1>3, <2>1 DEF IInv, ReleaseIsJustified, Typed
  <2> QED
    BY <1>1, <1>2, <1>3, <2>2, <2>3 DEF IInv, Typed
<1>4. CASE lsense[t] # release_flag
  <2>1. Arrived = Thread /\ current_count = 0
    BY <1>1, <1>4 DEF IInv, ReleaseIsJustified
  <2>2. \A u \in Thread : lsense'[u] = release_flag'
    BY <1>1, <1>4, <2>1 DEF Typed, Arrived
  <2>3. CountNeverOverstates'
    <3>1. Arrived' = {}
      BY <2>2 DEF Arrived
    <3> QED
      BY <2>1, <3>1, FS_EmptySet DEF CountNeverOverstates
  <2> QED
    BY <1>2, <2>2, <2>3 DEF IInv, ReleaseIsJustified
<1> QED
  BY <1>3, <1>4

\* What a thread does while it waits, and its way out once it is released,
\* change nothing but its program point.
Passive ==
    /\ UNCHANGED <<current_count, release_flag, lsense>>
    /\ pc' \in [Thread -> Points \cup Halting]
    /\ \A t \in Thread :
          \/ pc'[t] = pc[t]
          \/ pc[t] \in Waits /\ pc'[t] \in Waits
          \/ pc[t] \in Waits \cup {"return"} /\ pc'[t] = "work" /\ lsense[t] = release_flag

LEMMA PassiveKeepsIInv ==
    ASSUME IInv, Passive
    PROVE  IInv'
<1> USE DEF Passive, Waits, Halting
<1>1. Typed /\ Typed'
  BY DEF IInv, Typed
<1>2. Arrived' = Arrived
  BY DEF Arrived, IInv
<1>3. CountNeverOverstates'
  BY <1>2 DEF IInv, CountNeverOverstates
<1>4. ReleaseIsJustified'
  BY <1>2 DEF IInv, ReleaseIsJustified
<1> QED
  BY <1>1, <1>3, <1>4 DEF IInv

LEMMA SpinningIsPassive ==
    ASSUME IInv, NEW t \in Thread, SpinOnCondition(t) \/ Return(t)
    PROVE  Passive
BY DEF IInv, Typed, SpinOnCondition, Return, Goto, Passive, Waits, Points

LEMMA HaltingIsPassive ==
    ASSUME IInv, ConditionInRax = FALSE, NEW t \in Thread,
           NotYet(t) \/ Halt(t) \/ Tick(t) \/ Recheck(t) \/ HaltReturn(t)
    PROVE  Passive
<1> USE DEF IInv, Typed, Goto, Passive, Waits, Points, Halting
<1>1. CASE NotYet(t) \/ Halt(t) \/ Tick(t)
  BY <1>1 DEF NotYet, Halt, Tick
<1>2. CASE Recheck(t)
  BY <1>2 DEF Recheck, Compared
<1>3. CASE HaltReturn(t)
  BY <1>3 DEF HaltReturn
<1> QED
  BY <1>1, <1>2, <1>3

\* Up to the wait, and out of it.
SpinStep(t) ==
    Arrive(t) \/ Test(t) \/ Reset(t) \/ Flip(t) \/ SpinOnCondition(t) \/ Return(t)

LEMMA SpinStepKeepsIInv == IInv => \A t \in Thread : SpinStep(t) => IInv'
BY ArriveKeepsIInv, TestKeepsIInv, ResetKeepsIInv, FlipKeepsIInv, SpinningIsPassive,
   PassiveKeepsIInv DEF SpinStep

LEMMA StutterKeepsIInv == IInv /\ UNCHANGED vars => IInv'
BY DEF vars, IInv, Typed, CountNeverOverstates, ReleaseIsJustified, Arrived

LEMMA Invariance == Spec => []IInv
<1>1. IInv /\ [Next]_vars => IInv'
  BY SpinStepKeepsIInv, StutterKeepsIInv DEF Next, SpinStep
<1> QED
  BY <1>1, InitIInv, PTL DEF Spec

LEMMA HaltInvariance ==
    ASSUME ConditionInRax = FALSE
    PROVE  HaltSpec => []IInv
<1>1. HaltInit => IInv
  BY InitIInv DEF HaltInit
<1>2. IInv /\ [HaltNext]_haltVars => IInv'
  <2> SUFFICES ASSUME IInv, [HaltNext]_haltVars PROVE IInv'
    OBVIOUS
  <2>1. CASE UNCHANGED haltVars
    BY <2>1, StutterKeepsIInv DEF haltVars
  <2>2. CASE HaltNext
    BY <2>2, SpinStepKeepsIInv, HaltingIsPassive, PassiveKeepsIInv
       DEF HaltNext, HaltStep, Spinning, SpinStep
  <2> QED
    BY <2>1, <2>2
<1> QED
  BY <1>1, <1>2, PTL DEF HaltSpec

-----------------------------------------------------------------------------
(* The spinning barrier *)

LEMMA CountFits == IInv => current_count \in 0 .. nthreads
BY ArrivedFinite, ThreadFinite, FS_CardinalityType
   DEF IInv, Typed, CountNeverOverstates, nthreads

\* The count stays between zero and the number of threads: a lost reset is
\* possible, an overshoot is not.
THEOREM SynchBarrierTypeOK == Spec => []TypeOK
<1> DEFINE Spins == pc \in [Thread -> Points]
<1>1. Init => Spins
  BY DEF Init, Points
<1>2. Spins /\ [Next]_vars => Spins'
  BY DEF Points, vars, Next, Arrive, Test, Reset, Flip, SpinOnCondition, Return, Goto
<1>3. IInv /\ Spins => TypeOK
  BY CountFits DEF IInv, Typed, TypeOK, Points
<1> QED
  BY <1>1, <1>2, <1>3, Invariance, PTL DEF Spec

\* The count never claims more arrivals than the round has.
THEOREM SynchBarrierCountNeverOverstates == Spec => []CountNeverOverstates
<1>1. IInv => CountNeverOverstates
  BY DEF IInv
<1> QED
  BY <1>1, Invariance, PTL

\* Whoever is about to store the flag has every thread waiting for it, or is
\* about to store the value it has.
THEOREM SynchBarrierReleaseIsJustified == Spec => []ReleaseIsJustified
<1>1. IInv => ReleaseIsJustified
  BY DEF IInv
<1> QED
  BY <1>1, Invariance, PTL

\* An arrival joins the waiting.
LEMMA ArriveEnters ==
    ASSUME IInv, NEW t \in Thread, Arrive(t)
    PROVE  B!Next
<1> USE DEF Goto
<1>0. Typed
  BY DEF IInv
<1>1. Stage[t] = "work" /\ Stage' = [Stage EXCEPT ![t] = "waiting"]
  <2>1. pc[t] = "work" /\ lsense[t] = release_flag /\ release_flag' = release_flag
    BY DEF IInv, Arrive
  <2>2. pc'[t] = "test" /\ lsense'[t] = 1 - release_flag
    BY <1>0, <2>1 DEF Typed, Arrive
  <2>3. lsense'[t] # release_flag
    BY <1>0, <2>2 DEF Typed
  <2>4. \A u \in Thread \ {t} : pc'[u] = pc[u] /\ lsense'[u] = lsense[u]
    BY <1>0 DEF Typed, Arrive
  <2> QED
    BY <2>1, <2>2, <2>3, <2>4 DEF Stage
<1>2. B!Enter(t)
  BY <1>1 DEF B!Enter
<1> QED
  BY <1>2 DEF B!Next

\* The first store to the flag releases everybody, a late one nobody.
LEMMA FlipReleases ==
    ASSUME IInv, NEW t \in Thread, Flip(t)
    PROVE  [B!Next]_Stage
<1> USE DEF Goto
<1>0. Typed
  BY DEF IInv
<1>1. CASE lsense[t] = release_flag
  <2>1. release_flag' = release_flag /\ lsense' = lsense
    BY <1>1 DEF Flip
  <2>2. pc[t] = "flip" /\ pc' = [pc EXCEPT ![t] = "return"]
    BY DEF Flip
  <2> QED
    BY <1>0, <2>1, <2>2 DEF Typed, Stage
<1>2. CASE lsense[t] # release_flag
  <2>1. Arrived = Thread
    BY <1>2 DEF IInv, ReleaseIsJustified, Flip
  <2>2. \A u \in Thread : Stage[u] = "waiting"
    <3>1. \A u \in Thread : pc[u] # "work" /\ lsense[u] # release_flag
      BY <2>1 DEF Arrived
    <3> QED
      BY <3>1 DEF Stage
  <2>3. \A u \in Thread : pc'[u] # "work" /\ lsense'[u] = release_flag'
    BY <1>0, <1>2, <2>1 DEF Typed, Flip, Arrived
  <2>4. Stage' = [u \in Thread |-> "released"]
    BY <2>3 DEF Stage
  <2> QED
    BY <2>2, <2>4 DEF B!Next, B!Release
<1> QED
  BY <1>1, <1>2

\* One thread that leaves leaves the abstract barrier.
LEMMA OneLeaves ==
    ASSUME IInv, NEW t \in Thread, pc[t] \in Waits \cup {"return"}, lsense[t] = release_flag,
           UNCHANGED <<release_flag, lsense>>, pc'[t] = "work",
           \A u \in Thread \ {t} : pc'[u] = pc[u] \/ (pc[u] \in Waits /\ pc'[u] \in Waits)
    PROVE  B!Next
<1> USE DEF Waits, Halting
<1>1. Stage[t] = "released" /\ Stage' = [Stage EXCEPT ![t] = "work"]
  BY DEF Stage
<1>2. B!Leave(t)
  BY <1>1 DEF B!Leave
<1> QED
  BY <1>2 DEF B!Next

LEMMA SpinStepRefines ==
    ASSUME IInv, NEW t \in Thread, SpinStep(t)
    PROVE  [B!Next]_Stage
<1> USE DEF Goto
<1>1. CASE Arrive(t)
  BY <1>1, ArriveEnters
<1>2. CASE Test(t) \/ Reset(t)
  BY <1>2 DEF IInv, Typed, Test, Reset, Stage
<1>3. CASE Flip(t)
  BY <1>3, FlipReleases
<1>4. CASE SpinOnCondition(t) \/ Return(t)
  <2>1. /\ pc[t] \in {"wait", "return"} /\ lsense[t] = release_flag
        /\ pc' = [pc EXCEPT ![t] = "work"] /\ UNCHANGED <<release_flag, lsense>>
    BY <1>4 DEF IInv, SpinOnCondition, Return
  <2> QED
    BY <2>1, OneLeaves DEF IInv, Typed, Waits
<1> QED
  BY <1>1, <1>2, <1>3, <1>4 DEF SpinStep

\* spin_barrier_lsense never releases a round early: each of its behaviours,
\* the ones that block included, is one of the abstract barrier.
THEOREM SynchBarrierImplementsBarrier == Spec => ImplementsBarrier
<1>1. Init => B!Init
  BY DEF Init, B!Init, Stage
<1>2. IInv /\ [Next]_vars => [B!Next]_Stage
  BY SpinStepRefines DEF Next, SpinStep, vars, Stage
<1> QED
  BY <1>1, <1>2, Invariance, PTL DEF Spec, ImplementsBarrier, B!Spec

-----------------------------------------------------------------------------
(* The halting barriers *)

\* The variables keep to their values also when the threads halt; in any
\* build but one that keeps condition_val in rax.
THEOREM HaltBarrierTypeOK ==
    ASSUME ConditionInRax = FALSE
    PROVE  HaltSpec => []HaltTypeOK
<1> DEFINE Variant == sendIPI \in BOOLEAN
<1>1. HaltInit => Variant
  BY DEF HaltInit
<1>2. Variant /\ [HaltNext]_haltVars => Variant'
  BY DEF haltVars, HaltNext, HaltStep, Spinning, NotYet, Halt, Tick, Recheck, HaltReturn
<1>3. IInv /\ Variant => HaltTypeOK
  BY CountFits DEF IInv, Typed, HaltTypeOK, Points, Halting
<1> QED
  BY <1>1, <1>2, <1>3, HaltInvariance, PTL DEF HaltSpec

\* A thread comes back from a halting barrier only when the flag has its
\* sense, whatever interrupts woke it before.
THEOREM HaltBarrierBackOnlyWhenReleased ==
    ASSUME ConditionInRax = FALSE
    PROVE  HaltSpec => []BackOnlyWhenReleased
<1>1. IInv => BackOnlyWhenReleased
  BY DEF IInv, BackOnlyWhenReleased
<1> QED
  BY <1>1, HaltInvariance, PTL

\* The halting barriers keep the promise of a barrier: nobody gets out of a
\* round before everybody has come in, timer ticks and interrupts at any
\* moment included.
THEOREM HaltBarrierImplementsBarrier ==
    ASSUME ConditionInRax = FALSE
    PROVE  HaltSpec => ImplementsBarrier
<1>1. HaltInit => B!Init
  BY DEF HaltInit, Init, B!Init, Stage
<1>2. IInv /\ [HaltNext]_haltVars => [B!Next]_Stage
  <2> SUFFICES ASSUME IInv, [HaltNext]_haltVars PROVE [B!Next]_Stage
    OBVIOUS
  <2>1. CASE UNCHANGED haltVars
    BY <2>1 DEF haltVars, vars, Stage
  <2>2. ASSUME NEW t \in Thread, Spinning(t) PROVE [B!Next]_Stage
    BY <2>2, SpinStepRefines DEF Spinning, SpinStep
  <2>3. ASSUME NEW t \in Thread, NotYet(t) \/ Halt(t) \/ Tick(t) PROVE UNCHANGED Stage
    BY <2>3 DEF NotYet, Halt, Tick, Goto, IInv, Typed, Stage
  <2>4. ASSUME NEW t \in Thread, Recheck(t) PROVE [B!Next]_Stage
    <3>1. CASE release_flag = lsense[t]
      <4>1. /\ pc[t] = "recheck" /\ pc' = [pc EXCEPT ![t] = "work"]
            /\ UNCHANGED <<release_flag, lsense>>
        BY <2>4, <3>1 DEF Recheck, Compared, Goto
      <4> QED
        BY <3>1, <4>1, OneLeaves DEF IInv, Typed, Waits, Halting
    <3>2. CASE release_flag # lsense[t]
      BY <2>4, <3>2 DEF Recheck, Compared, Goto, IInv, Typed, Stage
    <3> QED
      BY <3>1, <3>2
  <2>5. ASSUME NEW t \in Thread, HaltReturn(t) PROVE B!Next
    BY <2>5, OneLeaves DEF HaltReturn, IInv, Waits, Halting
  <2> QED
    BY <2>1, <2>2, <2>3, <2>4, <2>5 DEF HaltNext, HaltStep
<1> QED
  BY <1>1, <1>2, HaltInvariance, PTL DEF HaltSpec, ImplementsBarrier, B!Spec

\* The halting barriers implement the spinning one, in a build that keeps
\* condition_val anywhere but in rax.
THEOREM HaltBarrierImplementsSpinBarrier ==
    ASSUME ConditionInRax = FALSE
    PROVE  HaltSpec => ImplementsSpinBarrier
<1>1. HaltInit => Spin!Init
  BY DEF HaltInit, Init, Spin!Init, SpinPc
<1>2. Typed /\ [HaltNext]_haltVars => [Spin!Next]_(Spin!vars)
  <2> SUFFICES ASSUME Typed, [HaltNext]_haltVars PROVE [Spin!Next]_(Spin!vars)
    OBVIOUS
  <2> USE DEF Goto, Spin!Goto
  <2>1. CASE UNCHANGED haltVars
    BY <2>1 DEF haltVars, vars, Spin!vars, SpinPc
  <2>2. ASSUME NEW t \in Thread, Arrive(t) PROVE Spin!Arrive(t)
    BY <2>2 DEF Arrive, Spin!Arrive, SpinPc, Typed
  <2>3. ASSUME NEW t \in Thread, Test(t) PROVE Spin!Test(t)
    BY <2>3 DEF Test, Spin!Test, SpinPc, Typed, nthreads, Spin!nthreads, Cardinality, Spin!Cardinality
  <2>4. ASSUME NEW t \in Thread, Reset(t) PROVE Spin!Reset(t)
    BY <2>4 DEF Reset, Spin!Reset, SpinPc, Typed
  <2>5. ASSUME NEW t \in Thread, Flip(t) PROVE Spin!Flip(t)
    BY <2>5 DEF Flip, Spin!Flip, SpinPc, Typed
  <2>6. ASSUME NEW t \in Thread, SpinOnCondition(t) PROVE Spin!SpinOnCondition(t)
    BY <2>6 DEF SpinOnCondition, Spin!SpinOnCondition, SpinPc, Typed
  <2>7. ASSUME NEW t \in Thread, NotYet(t) \/ Halt(t) \/ Tick(t) PROVE UNCHANGED Spin!vars
    BY <2>7 DEF NotYet, Halt, Tick, SpinPc, Spin!vars, Typed
  <2>8. ASSUME NEW t \in Thread, Recheck(t) PROVE [Spin!Next]_(Spin!vars)
    <3>1. CASE release_flag = lsense[t]
      <4>1. Spin!SpinOnCondition(t)
        BY <2>8, <3>1 DEF Recheck, Compared, Spin!SpinOnCondition, SpinPc, Typed
      <4> QED
        BY <4>1 DEF Spin!Next
    <3>2. CASE release_flag # lsense[t]
      BY <2>8, <3>2 DEF Recheck, Compared, SpinPc, Spin!vars, Typed
    <3> QED
      BY <3>1, <3>2
  <2>9. ASSUME NEW t \in Thread, HaltReturn(t) PROVE Spin!Return(t)
    <3>1. SpinPc[t] = "return"
      BY <2>9 DEF HaltReturn, SpinPc
    <3>2. SpinPc' = [SpinPc EXCEPT ![t] = "work"]
      BY <2>9 DEF HaltReturn, SpinPc
    <3> QED
      BY <2>9, <3>1, <3>2 DEF HaltReturn, Spin!Return
  <2> QED
    BY <2>1, <2>2, <2>3, <2>4, <2>5, <2>6, <2>7, <2>8, <2>9
       DEF HaltNext, HaltStep, Spinning, Spin!Next
<1>3. IInv => Typed
  BY DEF IInv
<1> QED
  BY <1>1, <1>2, <1>3, HaltInvariance, PTL DEF HaltSpec, ImplementsSpinBarrier, Spin!Spec

=============================================================================
