-------------------------- MODULE PrimitivesProofs --------------------------
(***************************************************************************)
(* Proofs about Primitives, for every number of synchronisations.           *)
(***************************************************************************)
EXTENDS Primitives, TLAPS

CvPoints == {"wait", "waiting", "relock", "unlock"}

\* TypeOK but for the monitor and the bound on lost
Typed ==
    /\ primitive \in {"MWMON", "SPINPAUSE", "SPINHALT", "PTHREAD"}
    /\ word \in {"original", "notified"}
    /\ cv_mutex \in {"free", "heavy", "light"}
    /\ heavy \in {"work", "notify", "ioctl", "signal", "unlock"}
    /\ light \in {"work", "sleep", "check", "mwait", "reread", "halt", "halted",
                  "recheck", "reset"} \cup CvPoints
    /\ sent \in 0 .. Syncs /\ woken \in 0 .. Syncs /\ lost \in Nat

\* A thread inside an iteration has not had its last one.
InsideLoop ==
    /\ heavy \in {"notify", "signal"} => sent < Syncs
    /\ light # "work" => woken < Syncs

\* The program points of the condition variable and of the words are apart.
OwnPoints ==
    /\ primitive = "PTHREAD" => light \in {"work", "sleep"} \cup CvPoints
    /\ primitive # "PTHREAD" => light \notin CvPoints /\ heavy # "signal"

\* What the light thread is about to put back is a notification.
ResetsNotified == light = "reset" => word = "notified"

IInv ==
    /\ Typed /\ InsideLoop /\ OwnPoints /\ ResetsNotified
    /\ lost <= sent
    /\ NotificationsAccountedFor

LEMMA InitIInv == Init => IInv
<1> SUFFICES ASSUME Init PROVE IInv
  OBVIOUS
<1>1. Typed /\ InsideLoop /\ OwnPoints /\ ResetsNotified /\ lost <= sent
  BY SyncsPositive DEF Init, Typed, InsideLoop, OwnPoints, ResetsNotified, CvPoints
<1>2. word # "notified" /\ sent = 0 /\ woken = 0 /\ lost = 0
  BY DEF Init
<1>3. NotificationsAccountedFor
  BY <1>2 DEF NotificationsAccountedFor
<1>4. QED
  BY <1>1, <1>3 DEF IInv

LEMMA HeavyKeepsIInv ==
  ASSUME IInv, Heavy
  PROVE  IInv'
<1> USE SyncsPositive DEF IInv, Typed, InsideLoop, OwnPoints, ResetsNotified, CvPoints, NotificationsAccountedFor
<1>1. CASE Work
  BY <1>1 DEF Work
<1>2. CASE Notify
  <2>1. Typed' /\ InsideLoop' /\ OwnPoints' /\ ResetsNotified' /\ lost' <= sent'
    BY <1>2 DEF Notify
  <2>2. word' = "notified" /\ sent' = sent + 1 /\ woken' = woken /\ primitive' = primitive
    BY <1>2 DEF Notify
  <2>3. CASE word = "notified"
    <3>1. lost' = lost + 1
      BY <1>2, <2>3 DEF Notify
    <3>2. NotificationsAccountedFor'
      BY <2>2, <2>3, <3>1
    <3>3. QED
      BY <2>1, <3>2
  <2>4. CASE word # "notified"
    <3>1. lost' = lost
      BY <1>2, <2>4 DEF Notify
    <3>2. NotificationsAccountedFor'
      BY <2>2, <2>4, <3>1
    <3>3. QED
      BY <2>1, <3>2
  <2>5. QED
    BY <2>3, <2>4
<1>3. CASE Wakeup
  BY <1>3 DEF Wakeup
<1>4. CASE CvLock
  BY <1>4 DEF CvLock
<1>5. CASE CvSignal
  BY <1>5 DEF CvSignal, LightGoto
<1>6. CASE CvUnlock
  BY <1>6 DEF CvUnlock
<1>7. QED
  BY <1>1, <1>2, <1>3, <1>4, <1>5, <1>6 DEF Heavy

\* The steps of the light thread that end no sleep.
LEMMA LightMoveKeepsIInv ==
  ASSUME IInv,
         Iterate \/ Monitor \/ Check \/ Mwait \/ Reread \/ SpinPause \/ SpinHalt \/ CvWait
  PROVE  IInv'
<1> USE SyncsPositive DEF IInv, Typed, InsideLoop, OwnPoints, ResetsNotified, CvPoints,
                          NotificationsAccountedFor, LightGoto, others
<1>1. CASE Iterate
  BY <1>1 DEF Iterate
<1>2. CASE Monitor
  BY <1>2 DEF Monitor
<1>3. CASE Check
  BY <1>3 DEF Check
<1>4. CASE Mwait
  BY <1>4 DEF Mwait
<1>5. CASE Reread
  BY <1>5 DEF Reread
<1>6. CASE SpinPause
  BY <1>6 DEF SpinPause
<1>7. CASE SpinHalt
  BY <1>7 DEF SpinHalt
<1>8. CASE CvWait
  BY <1>8 DEF CvWait
<1>9. QED
  BY <1>1, <1>2, <1>3, <1>4, <1>5, <1>6, <1>7, <1>8

LEMMA NextKeepsIInv == IInv /\ [Next]_vars => IInv'
<1> SUFFICES ASSUME IInv, [Next]_vars PROVE IInv'
  OBVIOUS
<1>1. CASE Heavy
  BY <1>1, HeavyKeepsIInv
<1>2. CASE Light
  <2>1. CASE Reset
    <3>1. Typed' /\ InsideLoop' /\ OwnPoints' /\ ResetsNotified' /\ lost' <= sent'
      BY <2>1, SyncsPositive DEF Reset, LightGoto, others, IInv, Typed, InsideLoop, OwnPoints,
                                 ResetsNotified, CvPoints
    <3>2. word = "notified" /\ word' # "notified" /\ woken' = woken + 1
      BY <2>1 DEF Reset, LightGoto, IInv, ResetsNotified
    <3>3. NotificationsAccountedFor'
      BY <2>1, <3>2 DEF Reset, others, IInv, Typed, NotificationsAccountedFor
    <3>4. QED
      BY <3>1, <3>3 DEF IInv
  <2>2. CASE CvDone
    BY <2>2, SyncsPositive DEF CvDone, LightGoto, IInv, Typed, InsideLoop, OwnPoints,
                               ResetsNotified, CvPoints, NotificationsAccountedFor
  <2>3. QED
    BY <1>2, <2>1, <2>2, LightMoveKeepsIInv DEF Light
<1>3. CASE Interrupt \/ Tick \/ CvSpurious \/ UNCHANGED vars
  BY <1>3 DEF Interrupt, Tick, CvSpurious, LightGoto, others, vars, IInv, Typed, InsideLoop,
              OwnPoints, ResetsNotified, CvPoints, NotificationsAccountedFor
<1>4. QED
  BY <1>1, <1>2, <1>3 DEF Next

\* The inductive invariant of Primitives holds in every reachable state.
THEOREM Invariance == Spec => []IInv
<1>1. QED
  BY InitIInv, NextKeepsIInv, PTL DEF Spec

LEMMA ArmedBoolean == Spec => [](armed \in BOOLEAN)
<1>1. Init => armed \in BOOLEAN
  BY Zenon DEF Init
<1>2. armed \in BOOLEAN /\ [Next]_vars => (armed \in BOOLEAN)'
  BY Zenon DEF Next, Heavy, Light, Work, Notify, Wakeup, CvLock, CvSignal, CvUnlock, Iterate,
               Monitor, Check, Mwait, Reread, SpinPause, SpinHalt, Reset, CvWait, CvDone,
               Interrupt, Tick, CvSpurious, others, vars
<1>3. QED
  BY <1>1, <1>2, PTL DEF Spec

\* Both counters of the loops, and the notifications lost, stay within the
\* number of synchronisations.
THEOREM PrimitivesTypeOK == Spec => []TypeOK
<1>1. IInv /\ armed \in BOOLEAN => TypeOK
  BY SyncsPositive DEF IInv, Typed, CvPoints, TypeOK
<1>2. QED
  BY <1>1, Invariance, ArmedBoolean, PTL

\* A notification stored ends one sleep, waits in the word, or fell on one
\* that was still there, however many there are.
THEOREM PrimitivesNotificationsAccountedFor == Spec => []NotificationsAccountedFor
<1>1. IInv => NotificationsAccountedFor
  BY DEF IInv
<1>2. QED
  BY <1>1, Invariance, PTL

-----------------------------------------------------------------------------
(* Who waits for whom *)

LightDone == light = "work" /\ woken = Syncs
HeavyDone == heavy = "work" /\ sent = Syncs

\* The light thread waits for a notification.
Asleep ==
    \/ light = "mwait" /\ armed
    \/ light = "waiting"
    \/ /\ primitive \in {"SPINPAUSE", "SPINHALT"}
       /\ light \in {"sleep", "halt", "halted", "recheck"}
       /\ word = "original"

\* A thread cannot take its next step, or only look again.
LightHeld ==
    Asleep \/ (primitive = "PTHREAD" /\ light \in {"sleep", "relock"} /\ cv_mutex # "free")
HeavyHeld == primitive = "PTHREAD" /\ heavy = "notify" /\ cv_mutex # "free"

\* The safe half of LightEndsUnlessLost: only a lost notification makes both
\* loops stop before their end.
StopsOnlyIfLost ==
    lost = 0 => \/ LightDone /\ HeavyDone
                \/ ~LightDone /\ ~LightHeld
                \/ ~HeavyDone /\ ~HeavyHeld

\* The processor is stopped on an armed monitor only with nothing stored.
SleepsOnNothing == light = "mwait" /\ armed => word = "original"

MutexInv ==
    /\ cv_mutex = "light" <=> light \in {"wait", "unlock"}
    /\ cv_mutex = "heavy" <=> heavy \in {"signal", "unlock"}

\* Each signal was lost or let the light thread out of pthread_cond_wait,
\* which it may also leave by itself.
SignalsAccountedFor ==
    primitive = "PTHREAD" =>
        sent <= woken + lost + (IF light \in {"relock", "unlock"} THEN 1 ELSE 0)

WaitInv == SleepsOnNothing /\ MutexInv /\ SignalsAccountedFor

LEMMA HeavyKeepsWaitInv ==
    ASSUME IInv, WaitInv, Heavy
    PROVE  WaitInv'
<1> USE DEF IInv, Typed, WaitInv, SleepsOnNothing, MutexInv
<1>1. CASE Work \/ Wakeup \/ CvLock \/ CvUnlock
  BY <1>1 DEF Work, Wakeup, CvLock, CvUnlock, SignalsAccountedFor, OwnPoints, CvPoints
<1>2. CASE Notify
  BY <1>2 DEF Notify, SignalsAccountedFor
<1>3. CASE CvSignal
  <2>1. SleepsOnNothing' /\ MutexInv'
    BY <1>3 DEF CvSignal, LightGoto
  <2>2. CASE light = "waiting" /\ lost' = lost
    BY <1>3, <2>2 DEF CvSignal, LightGoto, SignalsAccountedFor
  <2>3. CASE light # "waiting"
    BY <1>3, <2>3 DEF CvSignal, LightGoto, SignalsAccountedFor
  <2> QED
    BY <1>3, <2>1, <2>2, <2>3 DEF CvSignal
<1> QED
  BY <1>1, <1>2, <1>3 DEF Heavy

LEMMA LightKeepsWaitInv ==
    ASSUME IInv, WaitInv, Light \/ Interrupt \/ Tick \/ CvSpurious
    PROVE  WaitInv'
<1> USE DEF IInv, Typed, WaitInv, SleepsOnNothing, MutexInv, SignalsAccountedFor, OwnPoints,
            CvPoints, LightGoto, others
<1>1. CASE Iterate \/ Monitor \/ Check \/ Mwait \/ Interrupt
  BY <1>1 DEF Iterate, Monitor, Check, Mwait, Interrupt
<1>2. CASE Reread \/ SpinPause \/ SpinHalt \/ Tick
  BY <1>2 DEF Reread, SpinPause, SpinHalt, Tick
<1>3. CASE Reset
  BY <1>3 DEF Reset
<1>4. CASE CvWait
  BY <1>4 DEF CvWait
<1>5. CASE CvDone \/ CvSpurious
  BY <1>5 DEF CvDone, CvSpurious
<1> QED
  BY <1>1, <1>2, <1>3, <1>4, <1>5 DEF Light

LEMMA WaitInvariance == Spec => [](IInv /\ WaitInv)
<1>1. Init => WaitInv
  BY DEF Init, WaitInv, SleepsOnNothing, MutexInv, SignalsAccountedFor
<1>2. IInv /\ WaitInv /\ [Next]_vars => WaitInv'
  <2>1. IInv /\ WaitInv /\ UNCHANGED vars => WaitInv'
    BY DEF vars, WaitInv, SleepsOnNothing, MutexInv, SignalsAccountedFor
  <2> QED
    BY <2>1, HeavyKeepsWaitInv, LightKeepsWaitInv DEF Next
<1> QED
  BY <1>1, <1>2, Invariance, PTL DEF Spec

\* With no notification lost the light thread is never left asleep after the
\* last one, whichever primitive it sleeps on, and neither thread waits for
\* the mutex of the condition variable while its holder waits for something.
THEOREM PrimitivesStopsOnlyIfLost == Spec => []StopsOnlyIfLost
<1>1. IInv /\ WaitInv => StopsOnlyIfLost
  <2> SUFFICES ASSUME IInv, WaitInv, lost = 0, HeavyDone \/ HeavyHeld,
                      LightDone \/ LightHeld, ~(LightDone /\ HeavyDone)
               PROVE  FALSE
    BY DEF StopsOnlyIfLost
  <2> USE DEF IInv, Typed, InsideLoop, WaitInv, MutexInv
  <2>1. HeavyDone /\ LightHeld
    BY DEF HeavyHeld, LightHeld, LightDone, HeavyDone, Asleep, OwnPoints, CvPoints
  <2>2. Asleep
    BY <2>1 DEF LightHeld, HeavyDone
  <2>3. light # "work" /\ light \notin {"relock", "unlock"} /\ woken < Syncs
    BY <2>2 DEF Asleep
  <2>4. CASE primitive = "PTHREAD"
    BY <2>1, <2>3, <2>4, SyncsPositive DEF HeavyDone, SignalsAccountedFor
  <2>5. CASE primitive # "PTHREAD"
    <3>1. word = "original"
      BY <2>2, <2>5 DEF Asleep, SleepsOnNothing, OwnPoints, CvPoints
    <3> QED
      BY <2>1, <2>3, <2>5, <3>1, SyncsPositive DEF HeavyDone, NotificationsAccountedFor
  <2> QED
    BY <2>4, <2>5
<1> QED
  BY <1>1, WaitInvariance, PTL

=============================================================================
