-------------------------- MODULE CounterWaitProofs -------------------------
(***************************************************************************)
(* Proofs about CounterWait, for any waiters and any final value.           *)
(***************************************************************************)
EXTENDS CounterWait, TLAPS

InSystemCall(w) == pc[w] \in {"while", "arm", "check", "mwait", "reread", "put back"}

\* A wait that ended on the program's counter ended after the program had set
\* it, so nothing sets it back, and it stays between 0 and the last value; and the program points of the system call
\* belong to waiters that were built with it.
IInv ==
    /\ TypeOK
    /\ started => counter \in 0 .. Final
    /\ \A w \in Waiter :
        /\ why[w] = "counter" => started /\ counter >= cond[w]
        /\ why[w] = "notification" => loop[w] = "spin_while_greater"
        /\ InSystemCall(w) => loop[w] = "spin_while_greater"

\* What a waiter's own step leaves alone.
LEMMA StepFrame ==
    ASSUME TypeOK, NEW w \in Waiter, Call(w) \/ Step(w) \/ Tick(w) \/ Interrupt(w)
    PROVE  /\ UNCHANGED <<kernel, loop, counter, started>>
           /\ \A u \in Waiter \ {w} : UNCHANGED <<pc[u], cond[u], why[u]>>
<1> USE DEF TypeOK, Goto, Stay, End
<1>1. CASE Call(w) \/ Interrupt(w)
  BY <1>1 DEF Call, Interrupt
<1>2. CASE First(w) \/ Halt(w) \/ Tick(w) \/ Again(w)
  BY <1>2 DEF First, Halt, Tick, Again, Leave
<1>3. CASE While(w) \/ Monitor(w) \/ Check(w)
  BY <1>3 DEF While, Monitor, Check, Found
<1>4. CASE Mwait(w) \/ Reread(w) \/ PutBack(w)
  BY <1>4 DEF Mwait, Reread, Found, PutBack
<1> QED
  BY <1>1, <1>2, <1>3, <1>4 DEF Step

\* Once it is set, the counter only grows.
LEMMA CounterGrows ==
    ASSUME started => counter \in 0 .. Final, Begin \/ Count
    PROVE  /\ counter' \in 0 .. Final
           /\ started => counter' >= counter
           /\ started'
<1>1. CASE Begin
  <2>1. counter' = 0 /\ ~started /\ started'
    BY <1>1 DEF Begin
  <2>2. 0 \in 0 .. Final
    BY FinalPositive
  <2> QED
    BY <2>1, <2>2
<1>2. CASE Count
  <2>1. counter < Final /\ counter' = counter + 1
    BY <1>2 DEF Count
  <2>2. started /\ started' = started
    BY <1>2 DEF Count
  <2>3. counter' \in 0 .. Final /\ counter' >= counter
    BY <2>1, <2>2, FinalPositive
  <2> QED
    BY <2>2, <2>3
<1> QED
  BY <1>1, <1>2

LEMMA CounterStaysInside ==
    ASSUME counter \in Anything, Begin \/ Count
    PROVE  counter' \in Anything
<1>1. counter' = 0 \/ (counter < Final /\ counter' = counter + 1)
  BY DEF Begin, Count
<1>2. Anything = -1 .. Final + 1 /\ Final \in Int /\ Final > 0
  BY FinalPositive DEF Anything
<1> QED
  BY <1>1, <1>2

LEMMA TypeInvariance == TypeOK /\ [Next]_vars => TypeOK'
<1> SUFFICES ASSUME TypeOK, [Next]_vars PROVE TypeOK'
  OBVIOUS
<1> USE FinalPositive DEF TypeOK, Goto, Stay, End
<1>1. CASE UNCHANGED vars
  BY <1>1 DEF vars
<1>2. CASE Begin \/ Count
  <2>1. started' \in BOOLEAN /\ UNCHANGED <<kernel, loop, byte, pc, cond, armed, why>>
    BY <1>2 DEF Begin, Count
  <2>2. counter' \in Anything
    BY <1>2, CounterStaysInside
  <2> QED
    BY <2>1, <2>2
<1>3. ASSUME NEW r \in {1, 2}, Notify(r) PROVE TypeOK'
  BY <1>3 DEF Notify
<1>4. ASSUME NEW w \in Waiter, Call(w) PROVE TypeOK'
  BY <1>4 DEF Call
<1>5. ASSUME NEW w \in Waiter, First(w) \/ Again(w) PROVE TypeOK'
  BY <1>5 DEF First, Again, Leave, Body, OnCounter
<1>6. ASSUME NEW w \in Waiter, While(w) \/ Check(w) PROVE TypeOK'
  BY <1>6 DEF While, Check, Found, OnCounter
<1>7. ASSUME NEW w \in Waiter, Halt(w) \/ Tick(w) \/ Mwait(w) \/ Reread(w) PROVE TypeOK'
  BY <1>7 DEF Halt, Tick, Mwait, Reread, Found
<1>8. ASSUME NEW w \in Waiter, Monitor(w) \/ Interrupt(w) PROVE TypeOK'
  BY <1>8 DEF Monitor, Interrupt
<1>9. ASSUME NEW w \in Waiter, PutBack(w) PROVE TypeOK'
  <2>1. /\ UNCHANGED <<kernel, loop, counter, started, cond, why>>
        /\ armed' \in [Waiter -> BOOLEAN]
    BY <1>9 DEF PutBack
  <2>2. pc' = [pc EXCEPT ![w] = "work"]
    BY <1>9 DEF PutBack
  <2>3. byte' \in [{1, 2} -> {"original", "notified"}]
    <3>1. Area \in {1, 2} /\ byte' = [byte EXCEPT ![Area] = "original"]
      BY <1>9 DEF PutBack, Area
    <3> QED
      BY <3>1
  <2>4. pc' \in [Waiter -> {"work", "first", "halt", "halted", "again", "while", "arm", "check",
                           "mwait", "reread", "put back"}]
    BY <2>2
  <2> QED
    BY <2>1, <2>3, <2>4
<1> QED
  BY <1>1, <1>2, <1>3, <1>4, <1>5, <1>6, <1>7, <1>8, <1>9 DEF Next, Step

\* A waiter's own step ends its wait for a reason, and enters the system call
\* only if it was built with it.
LEMMA StepOutcome ==
    ASSUME TypeOK, NEW w \in Waiter, Call(w) \/ Step(w) \/ Tick(w) \/ Interrupt(w)
    PROVE  /\ why'[w] = "counter" =>
                (why[w] = "counter" /\ cond'[w] = cond[w]) \/ (started /\ counter >= cond'[w])
           /\ why'[w] = "notification" => why[w] = "notification" \/ InSystemCall(w)
           /\ InSystemCall(w)' => InSystemCall(w) \/ loop[w] = "spin_while_greater"
<1> DEFINE Points == {"work", "first", "halt", "halted", "again", "while", "arm", "check",
                      "mwait", "reread", "put back"}
           Whys == {"nothing", "counter", "old counter", "notification"}
<1>0. pc \in [Waiter -> Points] /\ why \in [Waiter -> Whys]
  BY DEF TypeOK
<1>1. counter \in Int /\ cond[w] \in Int
  <2>1. counter \in Anything /\ cond \in [Waiter -> 0 .. Final]
    BY DEF TypeOK
  <2> QED
    BY <2>1 DEF Anything
<1> HIDE DEF Points, Whys
<1> USE DEF Goto, Stay, End, InSystemCall
<1>2. CASE Call(w)
  BY <1>0, <1>2 DEF Call
<1>3. CASE First(w) \/ Again(w)
  <2>1. cond' = cond /\ pc'[w] \in {"work", "halt", "again"}
    BY <1>0, <1>3 DEF First, Again, Leave, Body
  <2>2. why' = why \/ (why' = [why EXCEPT ![w] = OnCounter] /\ counter >= cond[w])
    BY <1>1, <1>3 DEF First, Again, Leave
  <2>3. why'[w] = "counter" => why[w] = "counter" \/ (started /\ counter >= cond'[w])
    BY <1>0, <2>1, <2>2 DEF OnCounter
  <2>4. why'[w] = "notification" => why[w] = "notification"
    BY <1>0, <2>2 DEF OnCounter
  <2> QED
    BY <2>1, <2>3, <2>4
<1>4. CASE While(w) \/ Check(w)
  BY <1>0, <1>4 DEF While, Check, Found, OnCounter
<1>5. CASE Halt(w) \/ Tick(w) \/ Mwait(w) \/ Reread(w)
  BY <1>0, <1>5 DEF Halt, Tick, Mwait, Reread, Found
<1>6. CASE Monitor(w) \/ Interrupt(w) \/ PutBack(w)
  BY <1>0, <1>6 DEF Monitor, Interrupt, PutBack
<1> QED
  BY <1>2, <1>3, <1>4, <1>5, <1>6 DEF Step

LEMMA Invariance == Spec => []IInv
<1>1. Init => IInv
  <2> SUFFICES ASSUME Init PROVE IInv
    OBVIOUS
  <2>1. TypeOK
    <3>1. counter \in Anything /\ 0 \in 0 .. Final
      BY FinalPositive DEF Init
    <3> QED
      BY <3>1 DEF Init, TypeOK
  <2> QED
    BY <2>1 DEF Init, IInv, InSystemCall
<1>2. IInv /\ [Next]_vars => IInv'
  <2> SUFFICES ASSUME IInv, [Next]_vars PROVE IInv'
    OBVIOUS
  <2>1. TypeOK /\ TypeOK'
    BY TypeInvariance DEF IInv
  <2>2. CASE UNCHANGED vars
    BY <2>1, <2>2 DEF vars, IInv, InSystemCall
  <2>3. CASE Begin \/ Count
    <3>1. UNCHANGED <<loop, pc, cond, why>>
      BY <2>3 DEF Begin, Count
    <3>2. /\ started => started' /\ counter' >= counter
          /\ counter' \in 0 .. Final
      BY <2>3, CounterGrows DEF IInv
    <3>3. \A w \in Waiter : cond[w] \in Int /\ counter \in Int /\ counter' \in Int
      <4>1. counter \in Anything /\ counter' \in Anything /\ cond \in [Waiter -> 0 .. Final]
        BY <2>1 DEF TypeOK
      <4> QED
        BY <4>1 DEF Anything
    <3>4. \A w \in Waiter : why[w] = "counter" => started' /\ counter' >= cond[w]
      BY <3>2, <3>3 DEF IInv
    <3> QED
      BY <2>1, <3>1, <3>2, <3>4 DEF IInv, InSystemCall
  <2>4. ASSUME NEW r \in {1, 2}, Notify(r) PROVE IInv'
    BY <2>1, <2>4 DEF Notify, IInv, InSystemCall
  <2>5. ASSUME NEW w \in Waiter, Call(w) \/ Step(w) \/ Tick(w) \/ Interrupt(w) PROVE IInv'
    BY <2>1, <2>5, StepFrame, StepOutcome DEF IInv, InSystemCall
  <2> QED
    BY <2>2, <2>3, <2>4, <2>5 DEF Next
<1> QED
  BY <1>1, <1>2, PTL DEF Spec

\* The variables keep to their values; and the counter, whatever was in the page
\* before, stays between 0 and the last value from when the program sets it.
THEOREM CounterWaitTypeCorrect == Spec => [](TypeOK /\ (started => counter \in 0 .. Final))
<1>1. IInv => TypeOK /\ (started => counter \in 0 .. Final)
  BY DEF IInv
<1> QED
  BY <1>1, Invariance, PTL

\* Whoever has left a wait because of the program's counter may go on relying
\* on it having reached the condition, and no loop of spin.h or synch.h ends
\* on a notification; for any number of waiters and any conditions.
THEOREM CounterWaitReturnsJustified == Spec => []ReturnsJustified
<1>1. IInv => ReturnsJustified
  BY DEF IInv, ReturnsJustified
<1> QED
  BY <1>1, Invariance, PTL

=============================================================================
