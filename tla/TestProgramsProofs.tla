------------------------- MODULE TestProgramsProofs ------------------------
(***************************************************************************)
(* Proofs about TestPrograms, for every set of machines, with a kernel that *)
(* preempts and one that does not, and for both widths.                    *)
(***************************************************************************)
EXTENDS TestPrograms, FiniteSetTheorems, TLAPS

Knot == "thread_test_kmon_knot"

\* The page is there from its allocation until it is freed, and the node of
\* the device only while the driver is loaded.
DriverInv ==
    /\ node => driver \in {"in", "kfree", "cdev_del", "rm"}
    /\ cdev => driver \in {"kmalloc", "fill", "mknod", "in", "kfree", "cdev_del"}
    /\ driver \in {"fill", "mknod", "in", "kfree"} => page = "live"
    /\ users # {} => driver = "in"
    /\ wild => leftover

\* Whoever has opened the device: nothing but its own exit takes it away.
HoldInv ==
    /\ UsesDevice /\ main \in {"map", "create", "join", "end", "exit"} => "main" \in users
    /\ main \in {"map", "exit"} => UsesDevice

\* Threads there are only between pthread_create and pthread_join.
ThreadInv == \A t \in Thread : pc[t] # "none" => main = "join" /\ t \in Threads

\* The kernel's memory is live from init to finalize unless init has failed
\* and said so.
PointerInv ==
    /\ program # Knot => pointer = "null"
    /\ program = Knot /\ main \in {"create", "join", "end"} =>
         pointer = "live" \/ (pointer = "null" /\ result = -1)
    /\ \A t \in Thread : InCall(t) => Backed
    /\ main = "setup" => ~oops

\* A notification that a sleeper may see is one of this run.
NotifiedInv ==
    main \in {"map", "create", "join"} /\ Backed =>
        \A t \in Sleeper \cap Threads :
            Look(t) = "notified" => AreaOf(t) \in stored \/ garbage

LEMMA AreaOfType == \A t \in Thread : AreaOf(t) \in Region
BY DEF AreaOf, Region

LEMMA WrappedFacts == Wrapped(CPU_BITS, 0) = 0 /\ Wrapped(CPU_BITS, -ENOMEM) = -1
BY CPU_BITSKnown DEF Wrapped, ErrorResults, ENOMEM

-----------------------------------------------------------------------------
(* The driver *)

LEMMA DriverStepKeepsDriverInv ==
    ASSUME DriverInv, Driver
    PROVE  DriverInv'
<1> USE DEF DriverInv, Goto
<1>1. CASE insmod
  BY <1>1 DEF insmod
<1>2. CASE Register
  BY <1>2 DEF Register
<1>3. CASE CdevAdd
  BY <1>3 DEF CdevAdd
<1>4. CASE Kmalloc
  BY <1>4 DEF Kmalloc
<1>5. CASE Fill
  BY <1>5 DEF Fill
<1>6. CASE mknod
  BY <1>6 DEF mknod
<1>7. CASE rmmod
  BY <1>7 DEF rmmod
<1>8. CASE Kfree
  BY <1>8 DEF Kfree
<1>9. CASE CdevDel
  BY <1>9 DEF CdevDel
<1>10. CASE rm
  BY <1>10 DEF rm
<1> QED
  BY <1>1, <1>2, <1>3, <1>4, <1>5, <1>6, <1>7, <1>8, <1>9, <1>10 DEF Driver, DriverNext

\* An open that finds the page runs while the driver is in.
LEMMA OpenFindsDriver ==
    ASSUME DriverInv, Found, HasPage
    PROVE  driver = "in"
BY DEF DriverInv, Found, HasPage

\* An open without the page is one of a device that a failed load left.
LEMMA WildOpen ==
    ASSUME DriverInv, Found, ~HasPage
    PROVE  leftover
BY DEF DriverInv, Found, HasPage

\* What the programs do to the driver: they open its device when it is in,
\* touch what a failed load left, or close, map and store.
Effect ==
    /\ UNCHANGED <<driver, cdev, leftover, page, node>>
    /\ users' # {} => users # {} \/ driver = "in"
    /\ wild' => wild \/ leftover

LEMMA EffectKeepsDriverInv == DriverInv /\ Effect => DriverInv'
BY DEF DriverInv, Effect

LEMMA UnchangedEffect == UNCHANGED driverVars => Effect
BY DEF driverVars, Effect

LEMMA OpenEffect == DriverInv => \A p : Open(p) => Effect
BY OpenFindsDriver DEF Open, Effect

LEMMA OpenWildEffect == DriverInv /\ OpenWild => Effect
BY WildOpen DEF OpenWild, Effect

LEMMA ReleaseEffect == \A p : Release(p) => Effect
BY DEF Release, Effect

LEMMA StoreEffect == \A r, v : Store(r, v) => Effect
BY DEF Store, Effect

LEMMA MainEffect == DriverInv /\ Main => Effect
<1> SUFFICES ASSUME DriverInv, Main PROVE Effect
  OBVIOUS
<1>1. CASE Start
  BY <1>1, UnchangedEffect DEF Start
<1>2. CASE OpenDevice
  BY <1>2, UnchangedEffect, OpenEffect, OpenWildEffect DEF OpenDevice
<1>3. CASE MapDevice \/ Exit
  BY <1>3, UnchangedEffect, ReleaseEffect DEF MapDevice, Exit
<1>4. CASE KernelInit \/ MallocAligned \/ Create
  BY <1>4, UnchangedEffect DEF KernelInit, MallocAligned, Create
<1>5. CASE Join \/ Finalize \/ Return
  BY <1>5, UnchangedEffect DEF Join, Finalize, Return
<1>6. CASE NotifyNobody
  BY <1>6 DEF NotifyNobody, Effect
<1> QED
  BY <1>1, <1>2, <1>3, <1>4, <1>5, <1>6 DEF Main

LEMMA OtherEffect == DriverInv /\ Other => Effect
BY UnchangedEffect, OpenEffect, OpenWildEffect, ReleaseEffect, StoreEffect
   DEF Other, OtherOpen, NotifyMemory, WriteTen, OtherExit

LEMMA ThreadEffect == \A t \in Thread : ThreadStep(t) => Effect
<1> SUFFICES ASSUME NEW t \in Thread, ThreadStep(t) PROVE Effect
  OBVIOUS
<1>1. CASE GetsGoing(t)
  BY <1>1, UnchangedEffect DEF GetsGoing, Pin, Arrive, Pass, Oops
<1>2. CASE Notify(t) \/ ResetByte(t)
  BY <1>2, UnchangedEffect, StoreEffect DEF Notify, ResetByte, Put
<1>3. CASE Monitor(t) \/ Check(t) \/ Mwait(t) \/ Reread(t)
  BY <1>3, UnchangedEffect DEF Monitor, Check, Mwait, Reread
<1> QED
  BY <1>1, <1>2, <1>3 DEF ThreadStep, sleeper, notifier

LEMMA NextKeepsDriverInv == DriverInv /\ [Next]_vars => DriverInv'
<1> SUFFICES ASSUME DriverInv, [Next]_vars PROVE DriverInv'
  OBVIOUS
<1>1. CASE Driver
  BY <1>1, DriverStepKeepsDriverInv
<1>2. CASE Main \/ Other \/ \E t \in Thread : ThreadStep(t)
  BY <1>2, MainEffect, OtherEffect, ThreadEffect, EffectKeepsDriverInv
<1>3. CASE UNCHANGED vars \/ \E r \in Region : Interrupt(r)
  BY <1>3, UnchangedEffect, EffectKeepsDriverInv DEF vars, Interrupt
<1> QED
  BY <1>1, <1>2, <1>3 DEF Next

LEMMA DriverInvariance == Spec => []DriverInv
<1>1. Init => DriverInv
  BY DEF Init, DriverInit, DriverInv
<1> QED
  BY <1>1, NextKeepsDriverInv, PTL DEF Spec

\* Nobody who has the device open or mapped loses its page, and an open runs
\* without one only if a failed load has left a device behind.
THEOREM TestProgramsPageOutlivesItsUsers == Spec => []PageOutlivesItsUsers
<1>1. DriverInv => PageOutlivesItsUsers
  BY DEF DriverInv, PageOutlivesItsUsers
<1> QED
  BY <1>1, DriverInvariance, PTL

-----------------------------------------------------------------------------
(* The programs *)

\* Enough about the functions to change one element at a time.
Shape ==
    /\ pc \in [Thread -> {"none", "pin", "barrier", "wait", "sleep", "notify", "arm",
                          "check", "mwait", "reread", "reset", "done", "killed"}]
    /\ mem \in [Region -> Byte]

LEMMA OpenShape == \A p : Open(p) => mem' = Originals
BY DEF Open

LEMMA ThreadShape == \A t \in Thread : Shape /\ ThreadStep(t) => Shape'
<1> SUFFICES ASSUME NEW t \in Thread, Shape, ThreadStep(t) PROVE Shape'
  OBVIOUS
<1> USE DEF Shape, ThreadGoto, driverVars
<1>1. CASE GetsGoing(t)
  BY <1>1 DEF GetsGoing, Pin, Arrive, Pass, Oops, Work
<1>2. CASE Notify(t)
  BY <1>2, AreaOfType DEF Notify, Put, Store, Byte
<1>3. CASE ResetByte(t)
  BY <1>3, AreaOfType DEF ResetByte, Put, Store, Byte
<1>4. CASE Monitor(t) \/ Check(t) \/ Mwait(t) \/ Reread(t)
  BY <1>4 DEF Monitor, Check, Mwait, Reread
<1> QED
  BY <1>1, <1>2, <1>3, <1>4 DEF ThreadStep, sleeper, notifier

LEMMA MainShape == Shape /\ Main => Shape'
<1> SUFFICES ASSUME Shape, Main PROVE Shape'
  OBVIOUS
<1> USE DEF Shape, driverVars, Originals, Byte
<1>1. CASE Start \/ Create \/ Join
  BY <1>1 DEF Start, Create, Join
<1>2. CASE OpenDevice
  BY <1>2 DEF OpenDevice, Open, OpenWild
<1>3. CASE MapDevice \/ Exit
  BY <1>3 DEF MapDevice, Exit, Release
<1>4. CASE KernelInit \/ MallocAligned \/ Finalize \/ Return
  BY <1>4 DEF KernelInit, MallocAligned, Finalize, Return
<1>5. CASE NotifyNobody
  BY <1>5 DEF NotifyNobody
<1> QED
  BY <1>1, <1>2, <1>3, <1>4, <1>5 DEF Main

LEMMA OtherShape == Shape /\ Other => Shape'
BY DEF Shape, Originals, Byte, Region, Other, OtherOpen, NotifyMemory, WriteTen, OtherExit,
   Open, OpenWild, Release, Store

LEMMA DriverShape == Shape /\ Driver => Shape'
<1> SUFFICES ASSUME Shape, Driver PROVE Shape'
  OBVIOUS
<1> USE DEF Shape, Driver, programVars, Originals, Byte
<1>1. CASE insmod \/ Register \/ CdevAdd \/ Kmalloc \/ Fill \/ mknod
  BY <1>1 DEF insmod, Register, CdevAdd, Kmalloc, Fill, mknod
<1>2. CASE rmmod \/ Kfree \/ CdevDel \/ rm
  BY <1>2 DEF rmmod, Kfree, CdevDel, rm
<1> QED
  BY <1>1, <1>2 DEF Driver, DriverNext

LEMMA ShapeInvariance == Spec => []Shape
<1>1. Init => Shape
  BY DEF Init, DriverInit, Shape, Originals, Byte
<1>2. Shape /\ [Next]_vars => Shape'
  <2> SUFFICES ASSUME Shape, [Next]_vars PROVE Shape'
    OBVIOUS
  <2>1. CASE UNCHANGED vars \/ \E r \in Region : Interrupt(r)
    BY <2>1 DEF vars, driverVars, programVars, Interrupt, Shape
  <2> QED
    BY <2>1, ThreadShape, MainShape, OtherShape, DriverShape DEF Next
<1> QED
  BY <1>1, <1>2, PTL DEF Spec

ProgramInv ==
    /\ HoldInv /\ ThreadInv /\ PointerInv /\ NotifiedInv /\ ReturnIsJustified
    /\ oops => result = -1

\* Only its own thread moves, a notification is recorded, and memory that is
\* not there is touched only if it is not there.
LEMMA ThreadFacts ==
    ASSUME NEW t \in Thread, Shape, ThreadStep(t)
    PROVE  /\ pc[t] # "none"
           /\ \A u \in Thread \ {t} : pc'[u] = pc[u]
           /\ UNCHANGED <<program, main, pointer, result, garbage, users>>
           /\ stored \subseteq stored'
           /\ oops' => oops \/ ~Backed
<1> USE DEF Shape, ThreadGoto, driverVars, setup, history
<1>1. CASE GetsGoing(t)
  BY <1>1 DEF GetsGoing, Pin, Arrive, Pass, Oops
<1>2. CASE Notify(t) \/ ResetByte(t)
  BY <1>2 DEF Notify, ResetByte, Put, Store
<1>3. CASE Monitor(t) \/ Check(t) \/ Mwait(t) \/ Reread(t)
  BY <1>3 DEF Monitor, Check, Mwait, Reread
<1> QED
  BY <1>1, <1>2, <1>3 DEF ThreadStep, sleeper, notifier

\* A sleeper sees what was there, or a notification that was recorded.
LEMMA ThreadLook ==
    ASSUME NEW t \in Thread, Shape, ThreadInv, ThreadStep(t),
           NEW u \in Sleeper \cap Threads, Look(u)' = "notified"
    PROVE  Look(u) = "notified" \/ AreaOf(u) \in stored'
<1> USE DEF Shape, ThreadGoto, driverVars, setup, history, Look, UsesDevice
<1>1. CASE GetsGoing(t)
  BY <1>1 DEF GetsGoing, Pin, Arrive, Pass, Oops
<1>2. CASE Notify(t)
  <2>1. t \in Threads
    BY <1>2 DEF ThreadInv, Notify
  <2>2. stored' = stored \cup {AreaOf(t)}
    BY <1>2 DEF Notify
  <2>3. CASE UsesDevice
    BY <1>2, <2>2, <2>3, AreaOfType DEF Notify, Put, Store, Sleeper, Thread
  <2>4. CASE ~UsesDevice
    <3>1. t \in Pair /\ u \in Pair
      BY <2>1, <2>4 DEF Threads
    <3> QED
      BY <2>2, <3>1 DEF AreaOf
  <2> QED
    BY <2>3, <2>4
<1>3. CASE ResetByte(t)
  BY <1>3, AreaOfType DEF ResetByte, Put, Store, Sleeper, Thread
<1>4. CASE Monitor(t) \/ Check(t) \/ Mwait(t) \/ Reread(t)
  BY <1>4 DEF Monitor, Check, Mwait, Reread
<1> QED
  BY <1>1, <1>2, <1>3, <1>4 DEF ThreadStep, sleeper, notifier

\* A thread gets into its call with its memory there, and to the end of it
\* with the notification seen.
LEMMA ThreadOutcome ==
    ASSUME NEW t \in Thread, Shape, ThreadStep(t)
    PROVE  /\ InCall(t)' => InCall(t) \/ Backed
           /\ t \in Sleeper /\ pc'[t] \in {"reset", "done"} =>
                pc[t] = "reset" \/ (InCall(t) /\ Look(t) = "notified")
<1> USE DEF Shape, ThreadGoto, InCall
<1>1. CASE GetsGoing(t)
  BY <1>1 DEF GetsGoing, Pin, Arrive, Pass, Oops, Work
<1>2. CASE Notify(t) /\ t \notin Sleeper
  BY <1>2 DEF Notify
<1>3. CASE ResetByte(t) \/ Monitor(t)
  BY <1>3 DEF ResetByte, Monitor
<1>4. CASE Check(t) \/ Mwait(t) \/ Reread(t)
  BY <1>4 DEF Check, Mwait, Reread
<1> QED
  BY <1>1, <1>2, <1>3, <1>4 DEF ThreadStep, sleeper, notifier

LEMMA ThreadKeepsProgramInv ==
    ASSUME NEW t \in Thread, Shape, ProgramInv, ThreadStep(t)
    PROVE  ProgramInv'
<1> USE DEF ProgramInv
<1>1. main = "join" /\ t \in Threads /\ Threads' = Threads /\ UsesDevice' = UsesDevice
      /\ Backed' = Backed
  BY ThreadFacts DEF ThreadInv, Threads, UsesDevice, Backed
<1>2. HoldInv' /\ ThreadInv'
  BY <1>1, ThreadFacts DEF HoldInv, ThreadInv
<1>3. PointerInv'
  BY <1>1, ThreadFacts, ThreadOutcome DEF PointerInv, InCall
<1>4. NotifiedInv'
  <2> SUFFICES ASSUME Backed, NEW u \in Sleeper \cap Threads, Look(u)' = "notified"
               PROVE  AreaOf(u) \in stored' \/ garbage'
    BY <1>1, ThreadFacts DEF NotifiedInv, AreaOf
  <2>1. Look(u) = "notified" \/ AreaOf(u) \in stored'
    BY ThreadLook
  <2> QED
    BY <1>1, <2>1, ThreadFacts DEF NotifiedInv
<1>5. ReturnIsJustified'
  <2> SUFFICES ASSUME NEW u \in Sleeper, pc'[u] \in {"reset", "done"}
               PROVE  AreaOf(u) \in stored' \/ garbage'
    BY DEF ReturnIsJustified, AreaOf
  <2>1. u \in Thread
    BY DEF Sleeper, Thread
  <2>2. CASE u # t \/ pc[u] = "reset"
    BY <2>1, <2>2, ThreadFacts DEF ReturnIsJustified
  <2>3. CASE u = t /\ pc[u] # "reset"
    <3>1. InCall(t) /\ Look(t) = "notified"
      BY <2>3, ThreadOutcome
    <3>2. Backed
      BY <3>1 DEF PointerInv
    <3> QED
      BY <1>1, <2>3, <3>1, <3>2, ThreadFacts DEF NotifiedInv
  <2> QED
    BY <2>2, <2>3
<1>6. oops' => result' = -1
  BY <1>1, ThreadFacts DEF PointerInv, Backed, Knot
<1> QED
  BY <1>2, <1>3, <1>4, <1>5, <1>6

\* A driver that is in use stays in.
LEMMA DriverKeepsProgramInv ==
    ASSUME DriverInv, ProgramInv, Driver
    PROVE  ProgramInv'
<1> USE DEF ProgramInv, Driver, programVars
<1>1. UNCHANGED <<buf, users>>
  <2>1. CASE insmod \/ Register \/ CdevAdd \/ Kmalloc \/ Fill \/ mknod
    BY <2>1 DEF insmod, Register, CdevAdd, Kmalloc, Fill, mknod
  <2>2. CASE rmmod \/ Kfree \/ CdevDel \/ rm
    BY <2>2 DEF rmmod, Kfree, CdevDel, rm
  <2> QED
    BY <2>1, <2>2 DEF DriverNext
<1>2. users # {} => mem' = mem
  <2>1. users # {} => driver = "in"
    BY DEF DriverInv
  <2> QED
    BY <2>1 DEF DriverNext, Goto, insmod, Register, CdevAdd, Kmalloc, Fill, mknod, rmmod, Kfree,
       CdevDel, rm
<1>3. HoldInv' /\ ThreadInv' /\ ReturnIsJustified' /\ (oops' => result' = -1)
  BY <1>1 DEF HoldInv, UsesDevice, ThreadInv, Threads, ReturnIsJustified, AreaOf
<1>4. PointerInv'
  BY DEF PointerInv, Backed, InCall
<1>5. NotifiedInv'
  BY <1>1, <1>2 DEF NotifiedInv, HoldInv, Backed, Look, UsesDevice, Threads, AreaOf
<1> QED
  BY <1>3, <1>4, <1>5

\* The other program clears, or notifies for all to see.
LEMMA OtherKeepsProgramInv ==
    ASSUME Shape, ProgramInv, Other
    PROVE  ProgramInv'
<1> USE DEF ProgramInv, setup, barrier, history
<1>1. /\ UNCHANGED <<program, main, pc, buf, pointer, result, garbage, oops>>
      /\ "main" \in users => "main" \in users'
      /\ stored \subseteq stored'
  BY DEF Other, OtherOpen, NotifyMemory, WriteTen, OtherExit, Open, OpenWild, Store, Release
<1>2. UsesDevice => \A r \in Region : mem'[r] = "notified" => mem[r] = "notified" \/ r \in stored'
  BY DEF Shape, Originals, Other, OtherOpen, NotifyMemory, WriteTen, OtherExit, Open, OpenWild,
     Store, Release
<1>3. HoldInv' /\ ThreadInv' /\ ReturnIsJustified' /\ (oops' => result' = -1)
  BY <1>1 DEF HoldInv, UsesDevice, ThreadInv, Threads, ReturnIsJustified, AreaOf
<1>4. PointerInv'
  BY <1>1 DEF PointerInv, Backed, InCall
<1>5. NotifiedInv'
  <2> SUFFICES ASSUME main \in {"map", "create", "join"}, Backed,
                      NEW u \in Sleeper \cap Threads, Look(u)' = "notified"
               PROVE  AreaOf(u) \in stored' \/ garbage'
    BY <1>1 DEF NotifiedInv, Backed, Threads, AreaOf
  <2>1. Look(u) = "notified" \/ AreaOf(u) \in stored'
    BY <1>1, <1>2, AreaOfType DEF Look, UsesDevice, Sleeper, Thread, AreaOf
  <2> QED
    BY <1>1, <2>1 DEF NotifiedInv
<1> QED
  BY <1>3, <1>4, <1>5

LEMMA MainKeepsProgramInv ==
    ASSUME Shape, ProgramInv, Main
    PROVE  ProgramInv'
<1> USE DEF ProgramInv, setup, barrier, history, driverVars, MainGoto
<1>0. program' = program
  BY DEF Main, Start, OpenDevice, MapDevice, KernelInit, MallocAligned, Create, Join,
     NotifyNobody, Exit, Finalize, Return
<1>1. HoldInv'
  BY <1>0 DEF HoldInv, UsesDevice, Main, Start, OpenDevice, Open, MapDevice, Release, KernelInit,
     MallocAligned, Create, Join, NotifyNobody, Exit, Finalize, Return
<1>2. ThreadInv'
  <2>1. CASE Create \/ Join
    BY <1>0, <2>1 DEF Create, Join, ThreadInv, Threads
  <2>2. CASE ~(Create \/ Join)
    <3>1. main # "join" /\ pc' = pc
      BY <2>2 DEF Main, Start, OpenDevice, MapDevice, KernelInit,
         MallocAligned, NotifyNobody, Exit, Finalize, Return
    <3> QED
      BY <1>0, <3>1 DEF ThreadInv, Threads
  <2> QED
    BY <2>1, <2>2
<1>3. ASSUME NEW t \in Thread PROVE pc'[t] \in {"none", "pin"}
  <2>1. CASE Create \/ Join
    BY <2>1 DEF Create, Join
  <2>2. CASE ~(Create \/ Join)
    BY <2>2 DEF ThreadInv, Main, Start, OpenDevice, MapDevice, KernelInit, MallocAligned,
       NotifyNobody, Exit, Finalize, Return
  <2> QED
    BY <2>1, <2>2
<1>4. PointerInv'
  <2>1. program # Knot => pointer' = "null"
    BY DEF Main, Start, OpenDevice, MapDevice, KernelInit, MallocAligned, Create, Join,
       NotifyNobody, Exit, Finalize, Return, PointerInv, Knot
  <2>2. program = Knot /\ main' \in {"create", "join", "end"} =>
          pointer' = "live" \/ (pointer' = "null" /\ result' = -1)
    BY WrappedFacts DEF Main, Start, OpenDevice, MapDevice, KernelInit, MallocAligned, Create,
       Join, NotifyNobody, Exit, Finalize, Return, PointerInv, HoldInv, UsesDevice, Knot
  <2>3. main' = "setup" => ~oops'
    BY DEF Main, Start, OpenDevice, MapDevice, KernelInit, MallocAligned, Create, Join,
       NotifyNobody, Exit, Finalize, Return
  <2> QED
    BY <1>0, <1>3, <2>1, <2>2, <2>3 DEF PointerInv, InCall
<1>5. NotifiedInv'
  <2> SUFFICES ASSUME main' \in {"map", "create", "join"}, Backed',
                      NEW u \in Sleeper \cap Threads, Look(u)' = "notified"
               PROVE  AreaOf(u) \in stored' \/ garbage'
    BY <1>0 DEF NotifiedInv, Threads, AreaOf
  <2>1. AreaOf(u) \in Region
    BY AreaOfType DEF Sleeper, Thread
  <2>2. CASE OpenDevice
    BY <1>0, <2>1, <2>2, OpenShape DEF OpenDevice, Look, UsesDevice, Originals, AreaOf
  <2>3. CASE MapDevice \/ Create
    <3>1. main \in {"map", "create"} /\ UNCHANGED <<mem, buf, pointer, stored, garbage>>
      BY <2>3 DEF MapDevice, Create, Release
    <3> QED
      BY <1>0, <3>1 DEF NotifiedInv, Look, UsesDevice, Backed, AreaOf
  <2>4. CASE KernelInit
    BY <1>0, <2>4 DEF KernelInit, Look, UsesDevice, Backed, PointerInv, Knot
  <2>5. CASE MallocAligned
    <3>1. ~UsesDevice'
      BY <1>0, <2>5 DEF MallocAligned, UsesDevice
    <3>2. buf' = "notified"
      BY <3>1 DEF Look
    <3>3. garbage' = (buf' = "notified")
      BY <2>5 DEF MallocAligned
    <3> QED
      BY <3>2, <3>3
  <2>6. CASE Start \/ Join \/ NotifyNobody \/ Exit \/ Finalize \/ Return
    BY <2>6 DEF Start, Join, NotifyNobody, Exit, Finalize, Return
  <2> QED
    BY <2>2, <2>3, <2>4, <2>5, <2>6 DEF Main
<1>6. ReturnIsJustified'
  <2>1. Sleeper \subseteq Thread
    BY DEF Sleeper, Thread
  <2> QED
    BY <1>3, <2>1 DEF ReturnIsJustified
<1>7. oops' => result' = -1
  BY DEF Main, Start, OpenDevice, MapDevice, KernelInit, MallocAligned, Create, Join,
     NotifyNobody, Exit, Finalize, Return, PointerInv
<1> QED
  BY <1>1, <1>2, <1>4, <1>5, <1>6, <1>7

LEMMA NextKeepsProgramInv ==
    ASSUME DriverInv, Shape, ProgramInv, [Next]_vars
    PROVE  ProgramInv'
<1>1. CASE UNCHANGED vars \/ \E r \in Region : Interrupt(r)
  <2>1. UNCHANGED <<driverVars, machine, program, main, pc, buf, pointer, result, garbage,
                    stored, oops>>
    BY <1>1 DEF vars, programVars, Interrupt, setup, history
  <2> QED
    BY <2>1 DEF driverVars, ProgramInv, HoldInv, ThreadInv, PointerInv, NotifiedInv,
       ReturnIsJustified, UsesDevice, Threads, Backed, Look, InCall, AreaOf
<1> QED
  BY <1>1, ThreadKeepsProgramInv, MainKeepsProgramInv, OtherKeepsProgramInv,
     DriverKeepsProgramInv DEF Next

LEMMA ProgramInvariance == Spec => []ProgramInv
<1>1. Init => ProgramInv
  <2> SUFFICES ASSUME Init PROVE ProgramInv
    OBVIOUS
  <2>1. \A t \in Thread : pc[t] = "none"
    BY DEF Init
  <2>2. Sleeper \subseteq Thread
    BY DEF Sleeper, Thread
  <2> QED
    BY <2>1, <2>2 DEF Init, ProgramInv, HoldInv, ThreadInv, PointerInv, NotifiedInv,
       ReturnIsJustified, InCall
<1> QED
  BY <1>1, NextKeepsProgramInv, DriverInvariance, ShapeInvariance, PTL DEF Spec

\* No sleep of these programs ends on a notification of an earlier run or of
\* the other region, whatever the driver and other programs do meanwhile;
\* only memory straight from malloc can end one that nobody notified.
THEOREM TestProgramsReturnIsJustified == Spec => []ReturnIsJustified
<1>1. ProgramInv => ReturnIsJustified
  BY DEF ProgramInv
<1> QED
  BY <1>1, ProgramInvariance, PTL

\* Nothing sleeps on, notifies or frees memory of mwmon_kernel_init that is
\* not there, except in a program that went on after init told it of no
\* memory.
THEOREM TestProgramsKernelMemorySafe == Spec => []KernelMemorySafe
<1>1. ProgramInv => KernelMemorySafe
  <2>1. Sleeper \subseteq Thread
    BY DEF Sleeper, Thread
  <2> QED
    BY <2>1 DEF ProgramInv, PointerInv, KernelMemorySafe, Backed, Knot
<1> QED
  BY <1>1, ProgramInvariance, PTL

-----------------------------------------------------------------------------
(* Types *)

\* The types of the variables that Shape leaves, in parts that each step keeps
\* by itself.
Points ==
    /\ machine \in Machine
    /\ program \in Program
    /\ main \in {"idle", "setup", "map", "create", "join", "end", "exit"}
    /\ other \in {"idle", "notify_memory", "kmem_mapper_test", "written"}
    /\ driver \in {"out", "register", "cdev_add", "kmalloc", "fill", "mknod",
                   "in", "kfree", "cdev_del", "rm"}

Values ==
    /\ buf \in Byte
    /\ pointer \in {"null", "live", "freed"}
    /\ result \in {0, -1}
    /\ page \in {"none", "live", "freed"}
    /\ gathered \in 0 .. 3

Sets ==
    /\ users \subseteq {"main", "other"}
    /\ stored \subseteq Region

DriverTruth ==
    /\ region \in BOOLEAN /\ cdev \in BOOLEAN /\ leftover \in BOOLEAN
    /\ node \in BOOLEAN /\ wild \in BOOLEAN

Truth ==
    /\ preempts \in BOOLEAN
    /\ flag \in BOOLEAN /\ garbage \in BOOLEAN /\ wiped \in BOOLEAN /\ oops \in BOOLEAN
    /\ armed \in [Region -> BOOLEAN]

LEMMA PointsInvariance == Spec => []Points
<1>1. Init => Points
  BY DEF Init, DriverInit, Points, Byte
<1>2. Points /\ [Next]_vars => Points'
  <2> SUFFICES ASSUME Points, [Next]_vars PROVE Points'
    OBVIOUS
  <2> USE DEF Points, driverVars, programVars, setup, barrier, history
  <2>1. CASE UNCHANGED vars \/ \E r \in Region : Interrupt(r)
    BY <2>1 DEF vars, Interrupt
  <2>2. CASE Driver
    BY <2>2 DEF Driver, DriverNext, Goto, insmod, Register, CdevAdd, Kmalloc, Fill, mknod,
       rmmod, Kfree, CdevDel, rm
  <2>3. CASE Main
    BY <2>3 DEF Main, MainGoto, Start, OpenDevice, Open, OpenWild, MapDevice,
       Release, KernelInit, MallocAligned, Create, Join, NotifyNobody, Exit, Finalize, Return
  <2>4. CASE Other
    BY <2>4 DEF Other, OtherOpen, NotifyMemory, WriteTen, OtherExit, Open, OpenWild, Release,
       Store, Touched, Region
  <2>5. ASSUME NEW t \in Thread, ThreadStep(t) PROVE Points'
    <3>1. CASE GetsGoing(t)
      BY <2>5, <3>1 DEF GetsGoing, Pin, Arrive, Pass, Oops
    <3>2. CASE Notify(t) \/ ResetByte(t)
      BY <2>5, <3>2, AreaOfType DEF Notify, ResetByte, Put, Store, Byte
    <3>3. CASE Monitor(t) \/ Check(t) \/ Mwait(t) \/ Reread(t)
      BY <2>5, <3>3, AreaOfType DEF Monitor, Check, Mwait, Reread
    <3> QED
      BY <2>5, <3>1, <3>2, <3>3 DEF ThreadStep, sleeper, notifier
  <2> QED
    BY <2>1, <2>2, <2>3, <2>4, <2>5 DEF Next
<1> QED
  BY <1>1, <1>2, PTL DEF Spec

LEMMA ValuesInvariance == Spec => []Values
<1>1. Init => Values
  BY DEF Init, DriverInit, Values, Byte
<1>2. Values /\ [Next]_vars => Values'
  <2> SUFFICES ASSUME Values, [Next]_vars PROVE Values'
    OBVIOUS
  <2> USE DEF Values, driverVars, programVars, setup, barrier, history
  <2>1. CASE UNCHANGED vars \/ \E r \in Region : Interrupt(r)
    BY <2>1 DEF vars, Interrupt
  <2>2. CASE Driver
    BY <2>2 DEF Driver, DriverNext, Goto, insmod, Register, CdevAdd, Kmalloc, Fill, mknod,
       rmmod, Kfree, CdevDel, rm
  <2>3. CASE Main
    <3>1. CASE Start \/ OpenDevice \/ MapDevice \/ Exit
      BY <3>1 DEF Start, OpenDevice, Open, OpenWild, MapDevice, Exit, Release
    <3>2. CASE KernelInit \/ MallocAligned \/ Finalize \/ Return
      BY <3>2, WrappedFacts DEF KernelInit, MallocAligned, Finalize, Return, Byte
    <3>3. CASE Create \/ Join \/ NotifyNobody
      BY <3>3 DEF Create, Join, NotifyNobody
    <3> QED
      BY <2>3, <3>1, <3>2, <3>3 DEF Main
  <2>4. CASE Other
    BY <2>4 DEF Other, OtherOpen, NotifyMemory, WriteTen, OtherExit, Open, OpenWild, Release,
       Store, Touched, Region
  <2>5. ASSUME NEW t \in Thread, ThreadStep(t) PROVE Values'
    <3>1. CASE GetsGoing(t)
      BY <2>5, <3>1 DEF GetsGoing, Pin, Arrive, Pass, Oops
    <3>2. CASE Notify(t) \/ ResetByte(t)
      BY <2>5, <3>2, AreaOfType DEF Notify, ResetByte, Put, Store, Byte
    <3>3. CASE Monitor(t) \/ Check(t) \/ Mwait(t) \/ Reread(t)
      BY <2>5, <3>3, AreaOfType DEF Monitor, Check, Mwait, Reread
    <3> QED
      BY <2>5, <3>1, <3>2, <3>3 DEF ThreadStep, sleeper, notifier
  <2> QED
    BY <2>1, <2>2, <2>3, <2>4, <2>5 DEF Next
<1> QED
  BY <1>1, <1>2, PTL DEF Spec

LEMMA SetsInvariance == Spec => []Sets
<1>1. Init => Sets
  BY DEF Init, DriverInit, Sets, Byte
<1>2. Sets /\ [Next]_vars => Sets'
  <2> SUFFICES ASSUME Sets, [Next]_vars PROVE Sets'
    OBVIOUS
  <2> USE DEF Sets, driverVars, programVars, setup, barrier, history
  <2>1. CASE UNCHANGED vars \/ \E r \in Region : Interrupt(r)
    BY <2>1 DEF vars, Interrupt
  <2>2. CASE Driver
    BY <2>2 DEF Driver, DriverNext, Goto, insmod, Register, CdevAdd, Kmalloc, Fill, mknod,
       rmmod, Kfree, CdevDel, rm
  <2>3. CASE Main
    BY <2>3 DEF Main, MainGoto, Start, OpenDevice, Open, OpenWild, MapDevice,
       Release, KernelInit, MallocAligned, Create, Join, NotifyNobody, Exit, Finalize, Return
  <2>4. CASE Other
    BY <2>4 DEF Other, OtherOpen, NotifyMemory, WriteTen, OtherExit, Open, OpenWild, Release,
       Store, Touched, Region
  <2>5. ASSUME NEW t \in Thread, ThreadStep(t) PROVE Sets'
    <3>1. CASE GetsGoing(t)
      BY <2>5, <3>1 DEF GetsGoing, Pin, Arrive, Pass, Oops
    <3>2. CASE Notify(t) \/ ResetByte(t)
      BY <2>5, <3>2, AreaOfType DEF Notify, ResetByte, Put, Store, Byte
    <3>3. CASE Monitor(t) \/ Check(t) \/ Mwait(t) \/ Reread(t)
      BY <2>5, <3>3, AreaOfType DEF Monitor, Check, Mwait, Reread
    <3> QED
      BY <2>5, <3>1, <3>2, <3>3 DEF ThreadStep, sleeper, notifier
  <2> QED
    BY <2>1, <2>2, <2>3, <2>4, <2>5 DEF Next
<1> QED
  BY <1>1, <1>2, PTL DEF Spec

LEMMA DriverTruthInvariance == Spec => []DriverTruth
<1>1. Init => DriverTruth
  BY DEF Init, DriverInit, DriverTruth, Byte
<1>2. DriverTruth /\ [Next]_vars => DriverTruth'
  <2> SUFFICES ASSUME DriverTruth, [Next]_vars PROVE DriverTruth'
    OBVIOUS
  <2> USE DEF DriverTruth, driverVars, programVars, setup, barrier, history
  <2>1. CASE UNCHANGED vars \/ \E r \in Region : Interrupt(r)
    BY <2>1 DEF vars, Interrupt
  <2>2. CASE Driver
    BY <2>2 DEF Driver, DriverNext, Goto, insmod, Register, CdevAdd, Kmalloc, Fill, mknod,
       rmmod, Kfree, CdevDel, rm
  <2>3. CASE Main
    BY <2>3 DEF Main, MainGoto, Start, OpenDevice, Open, OpenWild, MapDevice,
       Release, KernelInit, MallocAligned, Create, Join, NotifyNobody, Exit, Finalize, Return
  <2>4. CASE Other
    BY <2>4 DEF Other, OtherOpen, NotifyMemory, WriteTen, OtherExit, Open, OpenWild, Release,
       Store, Touched, Region
  <2>5. ASSUME NEW t \in Thread, ThreadStep(t) PROVE DriverTruth'
    <3>1. CASE GetsGoing(t)
      BY <2>5, <3>1 DEF GetsGoing, Pin, Arrive, Pass, Oops
    <3>2. CASE Notify(t) \/ ResetByte(t)
      BY <2>5, <3>2, AreaOfType DEF Notify, ResetByte, Put, Store, Byte
    <3>3. CASE Monitor(t) \/ Check(t) \/ Mwait(t) \/ Reread(t)
      BY <2>5, <3>3, AreaOfType DEF Monitor, Check, Mwait, Reread
    <3> QED
      BY <2>5, <3>1, <3>2, <3>3 DEF ThreadStep, sleeper, notifier
  <2> QED
    BY <2>1, <2>2, <2>3, <2>4, <2>5 DEF Next
<1> QED
  BY <1>1, <1>2, PTL DEF Spec

LEMMA TruthInvariance == Spec => []Truth
<1>1. Init => Truth
  BY DEF Init, DriverInit, Truth, Byte
<1>2. Truth /\ [Next]_vars => Truth'
  <2> SUFFICES ASSUME Truth, [Next]_vars PROVE Truth'
    OBVIOUS
  <2> USE DEF Truth, driverVars, programVars, setup, barrier, history
  <2>1. CASE UNCHANGED vars \/ \E r \in Region : Interrupt(r)
    BY <2>1 DEF vars, Interrupt
  <2>2. CASE Driver
    BY <2>2 DEF Driver, DriverNext, Goto, insmod, Register, CdevAdd, Kmalloc, Fill, mknod,
       rmmod, Kfree, CdevDel, rm
  <2>3. CASE Main
    BY <2>3 DEF Main, MainGoto, Start, OpenDevice, Open, OpenWild, MapDevice,
       Release, KernelInit, MallocAligned, Create, Join, NotifyNobody, Exit, Finalize, Return
  <2>4. CASE Other
    BY <2>4 DEF Other, OtherOpen, NotifyMemory, WriteTen, OtherExit, Open, OpenWild, Release,
       Store, Touched, Region
  <2>5. ASSUME NEW t \in Thread, ThreadStep(t) PROVE Truth'
    <3>1. CASE GetsGoing(t)
      BY <2>5, <3>1 DEF GetsGoing, Pin, Arrive, Pass, Oops
    <3>2. CASE Notify(t) \/ ResetByte(t)
      BY <2>5, <3>2, AreaOfType DEF Notify, ResetByte, Put, Store, Byte
    <3>3. CASE Monitor(t) \/ Check(t) \/ Mwait(t) \/ Reread(t)
      BY <2>5, <3>3, AreaOfType DEF Monitor, Check, Mwait, Reread
    <3> QED
      BY <2>5, <3>1, <3>2, <3>3 DEF ThreadStep, sleeper, notifier
  <2> QED
    BY <2>1, <2>2, <2>3, <2>4, <2>5 DEF Next
<1> QED
  BY <1>1, <1>2, PTL DEF Spec

\* Every variable keeps to its values, on any set of machines: the count of
\* the programs' own barrier never gets to four, and a system call returns 0
\* or -1 on either width.
THEOREM TestProgramsTypeCorrect == Spec => []TypeOK
<1>1. Shape /\ Points /\ Values /\ Sets /\ DriverTruth /\ Truth => TypeOK
  BY DEF Shape, Points, Values, Sets, DriverTruth, Truth, TypeOK, DriverTypeOK
<1> QED
  BY <1>1, ShapeInvariance, PointsInvariance, ValuesInvariance, SetsInvariance,
     DriverTruthInvariance, TruthInvariance, PTL

-----------------------------------------------------------------------------
(* Notifications and sleeps *)

\* A sleeper that has nothing left to see.
Over(t) == pc[t] \in {"reset", "done", "killed"}

\* What the notifier of a sleeper has stored is there until the sleeper has
\* seen it, and a sleeper goes to sleep on an armed monitor only with nothing
\* stored.
SleepInv ==
    \A t \in Sleeper \cap Threads :
        /\ pc[t + 1] = "done" => Over(t) \/ wiped \/ Look(t) = "notified"
        /\ pc[t] = "mwait" /\ armed[AreaOf(t)] => Look(t) # "notified"

LEMMA SleeperFacts ==
    \A t \in Sleeper :
        /\ t \in Thread /\ t + 1 \in Thread /\ t + 1 \notin Sleeper
        /\ AreaOf(t) \in Region /\ AreaOf(t + 1) = AreaOf(t)
        /\ \A u \in Sleeper : AreaOf(u) = AreaOf(t) => u = t
        /\ \A x \in Thread : x \notin Sleeper /\ AreaOf(x) = AreaOf(t) => x = t + 1
BY DEF Sleeper, Thread, Pair, AreaOf, Region

\* Programs without the device have one sleeper and one notifier.
LEMMA OnlyPair ==
    ~UsesDevice => Threads = Pair /\ \A t \in Sleeper \cap Threads : t = 0
BY DEF UsesDevice, Threads, Pair, Sleeper

\* Nothing of this changes with what a step leaves alone; a step that only
\* undoes monitors keeps it too.
LEMMA QuietKeepsSleepInv ==
    ASSUME SleepInv, UNCHANGED <<program, pc, buf>>, wiped => wiped',
           \A t \in Sleeper \cap Threads : armed'[AreaOf(t)] => armed[AreaOf(t)],
           UsesDevice /\ main = "join" => mem' = mem,
           ThreadInv
    PROVE  SleepInv'
<1>1. Threads' = Threads /\ UsesDevice' = UsesDevice
  BY DEF Threads, UsesDevice
<1> SUFFICES ASSUME NEW t \in Sleeper \cap Threads
             PROVE  /\ pc[t + 1] = "done" => Over(t) \/ wiped' \/ Look(t)' = "notified"
                    /\ pc[t] = "mwait" /\ armed'[AreaOf(t)] => Look(t)' # "notified"
  BY <1>1 DEF SleepInv, Over, AreaOf
<1>2. CASE main = "join"
  BY <1>1, <1>2 DEF SleepInv, Look, AreaOf
<1>3. CASE main # "join"
  BY <1>3, SleeperFacts DEF ThreadInv
<1> QED
  BY <1>2, <1>3

LEMMA MainKeepsSleepInv ==
    ASSUME Shape, ProgramInv, SleepInv, Main
    PROVE  SleepInv'
<1> USE DEF setup, barrier, history, driverVars, MainGoto
<1>1. ASSUME NEW t \in Thread PROVE pc'[t] \in {"none", "pin"}
  <2>1. CASE Create \/ Join
    BY <2>1 DEF Create, Join
  <2>2. CASE ~(Create \/ Join)
    BY <2>2 DEF ProgramInv, ThreadInv, Main, Start, OpenDevice, MapDevice, KernelInit,
       MallocAligned, NotifyNobody, Exit, Finalize, Return
  <2> QED
    BY <2>1, <2>2
<1> QED
  BY <1>1, SleeperFacts DEF SleepInv

LEMMA DriverKeepsSleepInv ==
    ASSUME DriverInv, ProgramInv, SleepInv, Driver
    PROVE  SleepInv'
<1> USE DEF Driver, programVars
<1>1. users # {} => mem' = mem
  <2>1. users # {} => driver = "in"
    BY DEF DriverInv
  <2> QED
    BY <2>1 DEF DriverNext, Goto, insmod, Register, CdevAdd, Kmalloc, Fill, mknod, rmmod, Kfree,
       CdevDel, rm
<1> QED
  BY <1>1, QuietKeepsSleepInv DEF ProgramInv, HoldInv

\* The other program can only undo monitors, and what it overwrites is
\* recorded.
LEMMA OtherKeepsSleepInv ==
    ASSUME Shape, ProgramInv, armed \in [Region -> BOOLEAN], SleepInv, Other
    PROVE  SleepInv'
<1> USE DEF setup, barrier, history, driverVars
<1>1. /\ UNCHANGED <<program, main, pc, buf>>
      /\ wiped => wiped'
      /\ \A r \in Region : armed'[r] => armed[r]
  <2>1. armed' = armed \/ \E rs : armed' = Touched(rs)
    BY DEF Other, OtherOpen, NotifyMemory, WriteTen, OtherExit
  <2>2. \A r \in Region : armed'[r] => armed[r]
    BY <2>1, Zenon DEF Touched
  <2>3. wiped => wiped'
    <3>1. wiped' = wiped \/ \E a : wiped' = (wiped \/ a)
      BY DEF Other, OtherOpen, NotifyMemory, WriteTen, OtherExit
    <3> QED
      BY <3>1, Zenon
  <2>4. UNCHANGED <<program, main, pc, buf>>
    BY DEF Other, OtherOpen, NotifyMemory, WriteTen, OtherExit
  <2> QED
    BY <2>2, <2>3, <2>4
<1>2. Threads' = Threads /\ UsesDevice' = UsesDevice
  BY <1>1 DEF Threads, UsesDevice
<1>3. UsesDevice =>
        \A r \in Region :
            mem[r] = "notified" /\ mem'[r] # "notified" /\ Pending(r) => wiped'
  BY DEF Shape, Other, OtherOpen, NotifyMemory, WriteTen, OtherExit, Open, OpenWild, Store,
     Release
<1>4. UsesDevice => \A r \in Region : mem'[r] = "notified" /\ armed'[r] => mem[r] = "notified"
  BY DEF Shape, Originals, Other, OtherOpen, NotifyMemory, WriteTen, OtherExit, Open, OpenWild,
     Store, Release, Touched
<1> SUFFICES ASSUME NEW t \in Sleeper \cap Threads
             PROVE  /\ pc[t + 1] = "done" => Over(t) \/ wiped' \/ Look(t)' = "notified"
                    /\ pc[t] = "mwait" /\ armed'[AreaOf(t)] => Look(t)' # "notified"
  BY <1>1, <1>2 DEF SleepInv, Over, AreaOf
<1>5. pc[t + 1] = "done" => Over(t) \/ wiped' \/ Look(t)' = "notified"
  <2> SUFFICES ASSUME UsesDevice, pc[t + 1] = "done", ~Over(t), ~wiped',
                      mem[AreaOf(t)] = "notified"
               PROVE  mem'[AreaOf(t)] = "notified"
    BY <1>1, <1>2 DEF SleepInv, Look, AreaOf
  <2>1. main = "join"
    BY SleeperFacts DEF ProgramInv, ThreadInv
  <2>2. Pending(AreaOf(t))
    BY <2>1 DEF Pending, Over
  <2> QED
    BY <1>3, <2>2, SleeperFacts
<1>6. pc[t] = "mwait" /\ armed'[AreaOf(t)] => Look(t)' # "notified"
  BY <1>1, <1>2, <1>4, SleeperFacts DEF SleepInv, Look, AreaOf
<1> QED
  BY <1>5, <1>6

\* A notification undoes the monitor of its sleeper.
LEMMA NotifyKeepsSleepInv ==
    ASSUME NEW x \in Thread, x \notin Sleeper, Shape, ThreadInv, SleepInv, Notify(x),
           armed \in [Region -> BOOLEAN]
    PROVE  SleepInv'
<1> USE DEF Notify, ThreadGoto, setup, barrier, driverVars
<1>1. Threads' = Threads /\ UsesDevice' = UsesDevice
  BY DEF Threads, UsesDevice
<1>2. x \in Threads
  BY DEF ThreadInv
<1> SUFFICES ASSUME NEW t \in Sleeper \cap Threads
             PROVE  /\ pc'[t + 1] = "done" => Over(t)' \/ wiped' \/ Look(t)' = "notified"
                    /\ pc'[t] = "mwait" /\ armed'[AreaOf(t)] => Look(t)' # "notified"
  BY <1>1 DEF SleepInv, AreaOf
<1>3. pc'[t] = pc[t]
  BY SleeperFacts DEF Shape
<1>4. CASE AreaOf(x) = AreaOf(t)
  <2>1. ~armed'[AreaOf(t)]
    BY <1>4, SleeperFacts
  <2>2. Look(t)' = "notified"
    BY <1>1, <1>4, SleeperFacts DEF Put, Store, Look, Shape, AreaOf
  <2> QED
    BY <2>1, <2>2
<1>5. CASE AreaOf(x) # AreaOf(t)
  <2>1. UsesDevice
    BY <1>2, <1>5, OnlyPair DEF AreaOf, Pair
  <2>2. x # t + 1
    BY <1>5, SleeperFacts
  <2>3. pc'[t + 1] = pc[t + 1] /\ armed'[AreaOf(t)] = armed[AreaOf(t)]
    BY <1>5, <2>2, SleeperFacts, AreaOfType DEF Shape
  <2>4. Look(t)' = Look(t)
    BY <1>1, <1>5, <2>1, SleeperFacts, AreaOfType DEF Put, Store, Look, Shape, AreaOf
  <2> QED
    BY <1>3, <2>3, <2>4 DEF SleepInv, Over
<1> QED
  BY <1>4, <1>5

\* A step of a sleeper does nothing to the region of another.
LEMMA SleeperKeepsSleepInv ==
    ASSUME NEW x \in Sleeper, Shape, ThreadInv, SleepInv, armed \in [Region -> BOOLEAN],
           Monitor(x) \/ Check(x) \/ Mwait(x) \/ Reread(x) \/ ResetByte(x)
    PROVE  SleepInv'
<1> USE DEF ThreadGoto, setup, barrier, history, driverVars
<1>1. x \in Threads /\ UNCHANGED <<program, wiped>> /\ \A u \in Thread \ {x} : pc'[u] = pc[u]
  BY SleeperFacts DEF Shape, ThreadInv, Monitor, Check, Mwait, Reread, ResetByte
<1>2. Threads' = Threads /\ UsesDevice' = UsesDevice
  BY <1>1 DEF Threads, UsesDevice
<1> SUFFICES ASSUME NEW t \in Sleeper \cap Threads
             PROVE  /\ pc'[t + 1] = "done" => Over(t)' \/ wiped' \/ Look(t)' = "notified"
                    /\ pc'[t] = "mwait" /\ armed'[AreaOf(t)] => Look(t)' # "notified"
  BY <1>2 DEF SleepInv, AreaOf
<1>3. pc'[t + 1] = pc[t + 1]
  BY <1>1, SleeperFacts
<1>4. CASE x # t
  <2>1. pc'[t] = pc[t]
    BY <1>1, <1>4, SleeperFacts
  <2>2. UsesDevice /\ AreaOf(x) # AreaOf(t)
    BY <1>1, <1>4, OnlyPair, SleeperFacts
  <2>3. armed'[AreaOf(t)] = armed[AreaOf(t)] /\ Look(t)' = Look(t)
    BY <1>2, <2>2, SleeperFacts DEF Monitor, Check, Mwait, Reread, ResetByte, Put, Store, Look,
       Shape, AreaOf
  <2> QED
    BY <1>1, <1>3, <2>1, <2>3 DEF SleepInv, Over
<1>5. CASE x = t /\ ResetByte(t)
  BY <1>5, SleeperFacts DEF ResetByte, Shape, Over
<1>6. CASE x = t /\ (Monitor(t) \/ Check(t) \/ Mwait(t) \/ Reread(t))
  <2>1. Look(t)' = Look(t)
    BY <1>2, <1>6 DEF Monitor, Check, Mwait, Reread, Look, AreaOf
  <2>2. ~Over(t)
    BY <1>6 DEF Monitor, Check, Mwait, Reread, Over
  <2>3. pc'[t] = "mwait" => Look(t) # "notified"
    BY <1>6, SleeperFacts DEF Monitor, Check, Mwait, Reread, Shape
  <2> QED
    BY <1>1, <1>3, <2>1, <2>2, <2>3 DEF SleepInv
<1> QED
  BY <1>4, <1>5, <1>6

LEMMA GetsGoingKeepsSleepInv ==
    ASSUME NEW x \in Thread, Shape, SleepInv, GetsGoing(x)
    PROVE  SleepInv'
<1> USE DEF GetsGoing, Pin, Arrive, Pass, Oops, ThreadGoto, setup, barrier, history, driverVars
<1>1. /\ UNCHANGED <<program, wiped, mem, buf, armed>>
      /\ \A u \in Thread \ {x} : pc'[u] = pc[u]
      /\ pc[x] \in {"pin", "barrier", "wait", "sleep", "notify"}
      /\ pc'[x] \in {"barrier", "wait", "sleep", "notify", "killed"}
  BY DEF Shape, Work
<1>2. Threads' = Threads /\ UsesDevice' = UsesDevice
  BY <1>1 DEF Threads, UsesDevice
<1> QED
  BY <1>1, <1>2, SleeperFacts DEF SleepInv, Over, Look, AreaOf

LEMMA NextKeepsSleepInv ==
    ASSUME DriverInv, Shape, ProgramInv, Truth, SleepInv, [Next]_vars
    PROVE  SleepInv'
<1>1. CASE UNCHANGED vars \/ \E r \in Region : Interrupt(r)
  <2>1. UNCHANGED <<mem, program, pc, buf, wiped>>
    BY <1>1 DEF vars, driverVars, programVars, Interrupt, setup, history
  <2>2. \A r \in Region : armed'[r] => armed[r]
    BY <1>1 DEF vars, programVars, Interrupt, Truth
  <2> QED
    BY <2>1, <2>2, QuietKeepsSleepInv, SleeperFacts DEF ProgramInv
<1>2. ASSUME NEW t \in Thread, ThreadStep(t) PROVE SleepInv'
  BY <1>2, GetsGoingKeepsSleepInv, NotifyKeepsSleepInv, SleeperKeepsSleepInv
     DEF ThreadStep, sleeper, notifier, ProgramInv, Truth
<1> QED
  BY <1>1, <1>2, MainKeepsSleepInv, DriverKeepsSleepInv, OtherKeepsSleepInv DEF Next, Truth

\* No sleeper stops its processor, its monitor armed, on a byte that says
\* notified or after its notifier has come and gone: the call looks after it
\* has armed, and a notification that comes later undoes the monitor.
THEOREM TestProgramsNoNotificationSleptThrough == Spec => []NoNotificationSleptThrough
<1>1. Init => SleepInv
  BY SleeperFacts DEF Init, SleepInv
<1>2. SleepInv => NoNotificationSleptThrough
  BY DEF SleepInv, NoNotificationSleptThrough, Over
<1> QED
  BY <1>1, <1>2, NextKeepsSleepInv, DriverInvariance, ShapeInvariance, ProgramInvariance,
     TruthInvariance, PTL DEF Spec

-----------------------------------------------------------------------------
(* Nobody waits for nobody *)

TwoRegions == "thread_test_kmon_unot_2regions"

Finished(t) == pc[t] \in {"done", "killed"}

\* A thread that cannot take its next step by itself: its processor is kept
\* by a sleeper, or it waits at the barrier, or its processor is stopped.
Held(t) ==
    \/ ~Runs(t)
    \/ pc[t] = "wait" /\ ~flag
    \/ pc[t] = "mwait" /\ armed[AreaOf(t)]

\* The safe half of RunEnds: there is always a thread to take the next step.
RunGoesOn ==
    main = "join" /\ ~wiped /\ (preempts \/ EnoughCpus) =>
        \/ \A t \in Threads : Finished(t)
        \/ \E t \in Threads : ~Finished(t) /\ ~Held(t)

Gathered == {t \in Thread : pc[t] = "wait"}

\* The barrier of the two-region program counts who has come, and the fourth
\* sets the flag; nobody is beyond it before.
BarrierInv ==
    main = "join" =>
        /\ \A t \in Threads : pc[t] # "none"
        /\ program # TwoRegions => \A t \in Thread : pc[t] \notin {"barrier", "wait"}
        /\ program = TwoRegions /\ ~flag =>
              /\ gathered = Cardinality(Gathered) /\ Gathered # Thread
              /\ \A t \in Thread : pc[t] \in {"pin", "barrier", "wait"}
        /\ program = TwoRegions /\ flag => \A t \in Thread : pc[t] \notin {"pin", "barrier"}

\* Only sleepers are in a call, and a thread is killed only for want of memory.
PlaceInv ==
    \A t \in Thread :
        /\ InCall(t) => t \in Sleeper
        /\ pc[t] = "killed" => ~Backed

RunInv == BarrierInv /\ PlaceInv

\* No two entries of a machine's table name the same processor.
LEMMA CpusApart ==
    ASSUME NEW m \in DOMAIN cpus,
           NEW p \in {0, 1}, NEW s \in {0, 1}, NEW q \in {0, 1}, NEW r \in {0, 1},
           Listed(m, p, s), Listed(m, q, r), cpu_number(m, p, s) = cpu_number(m, q, r)
    PROVE  p = q /\ s = r
<1>1. cpus[m][p + 1][s + 1] = cpus[m][q + 1][r + 1]
  BY DEF cpu_number
<1>2. CASE m = "CPU_XEON"
  <2>1. cpus[m] = << <<0, 2>>, <<1, 3>> >>
    BY <1>2 DEF cpus
  <2> QED
    BY <1>1, <2>1
<1>3. CASE m \in {"CPU_CORE", "CPU_AMD"}
  <2>1. cpus[m] = << <<0, 1>>, <<2, 3>> >>
    BY <1>3 DEF cpus
  <2> QED
    BY <1>1, <2>1
<1>4. CASE m = "CPU_CORE_SINGLE"
  <2>1. cpus[m] = << <<0, 1>> >>
    BY <1>4 DEF cpus
  <2> QED
    BY <1>1, <2>1 DEF Listed
<1>5. CASE m = "CPU_P6"
  <2>1. cpus[m] = << <<0>>, <<1>> >>
    BY <1>5 DEF cpus
  <2> QED
    BY <1>1, <2>1 DEF Listed
<1>6. DOMAIN cpus = {"CPU_XEON", "CPU_CORE", "CPU_CORE_SINGLE", "CPU_AMD", "CPU_P6"}
  BY DEF cpus
<1> QED
  BY <1>2, <1>3, <1>4, <1>5, <1>6

\* On a machine with an entry for each thread no sleeper keeps another thread
\* off its processor.
LEMMA EveryoneRuns ==
    ASSUME machine \in Machine, ThreadInv, preempts \/ EnoughCpus, NEW t \in Threads
    PROVE  Runs(t)
<1> SUFFICES ASSUME EnoughCpus, NEW u \in Sleeper \ {t}, InCall(u), CpuOf(u) = CpuOf(t)
             PROVE  FALSE
  BY DEF Runs
<1>1. u \in Threads
  BY SleeperFacts DEF ThreadInv, InCall
<1>2. t \in 0 .. 3 /\ u \in 0 .. 3
  BY <1>1 DEF Threads, Thread, Pair
<1>3. t \div 2 \in {0, 1} /\ t % 2 \in {0, 1} /\ u \div 2 \in {0, 1} /\ u % 2 \in {0, 1}
  BY <1>2
<1>4. t \div 2 = u \div 2 /\ t % 2 = u % 2
  <2>1. Listed(machine, t \div 2, t % 2) /\ Listed(machine, u \div 2, u % 2)
    BY <1>1 DEF EnoughCpus
  <2>2. machine \in DOMAIN cpus
    BY MachineKnown
  <2> QED
    BY <1>3, <2>1, <2>2, CpusApart DEF CpuOf
<1> QED
  BY <1>2, <1>4

LEMMA FourThreads == IsFiniteSet(Thread) /\ Cardinality(Thread) = 4
<1>1. Thread = 0 .. 3
  BY DEF Thread
<1>2. IsFiniteSet(0 .. 3) /\ Cardinality(0 .. 3) = IF 0 > 3 THEN 0 ELSE 3 - 0 + 1
  <2>1. 0 \in Int /\ 3 \in Int
    OBVIOUS
  <2> QED
    BY <2>1, FS_Interval, Zenon
<1> QED
  BY <1>1, <1>2

LEMMA GatheredFinite ==
    /\ IsFiniteSet(Gathered)
    /\ Cardinality(Gathered) = 4 <=> Gathered = Thread
<1>1. Gathered \subseteq Thread
  BY DEF Gathered
<1> QED
  BY <1>1, FourThreads, FS_Subset

LEMMA ArriveKeepsBarrierInv ==
    ASSUME NEW x \in Thread, Shape, ThreadInv, BarrierInv, flag \in BOOLEAN, Arrive(x)
    PROVE  BarrierInv'
<1> USE DEF Arrive, ThreadGoto, setup, history
<1>1. /\ main = "join" /\ program = TwoRegions /\ ~flag /\ Threads = Thread
      /\ pc[x] = "barrier" /\ UNCHANGED <<main, program>>
  BY DEF ThreadInv, BarrierInv, Threads, TwoRegions
<1>2. Threads' = Thread
  BY <1>1 DEF Threads, TwoRegions
<1>3. Gathered' = Gathered \cup {x} /\ x \notin Gathered
  BY <1>1 DEF Gathered, Shape
<1>4. Cardinality(Gathered') = gathered + 1
  <2>1. gathered = Cardinality(Gathered)
    BY <1>1 DEF BarrierInv
  <2> QED
    BY <1>3, <2>1, GatheredFinite, FS_AddElement
<1>5. Cardinality(Gathered') = 4 <=> Gathered' = Thread
  <2>1. Gathered' \subseteq Thread
    BY DEF Gathered
  <2> QED
    BY <2>1, FourThreads, FS_Subset
<1>6. \A t \in Thread : pc'[t] \in {"pin", "barrier", "wait"}
  BY <1>1 DEF BarrierInv, Shape
<1>7. CASE gathered + 1 = 4
  <2>1. flag' /\ \A t \in Thread : pc'[t] = "wait"
    BY <1>4, <1>5, <1>7 DEF Gathered
  <2> QED
    BY <1>1, <1>2, <2>1 DEF BarrierInv
<1>8. CASE gathered + 1 # 4
  <2>1. ~flag' /\ gathered' = Cardinality(Gathered') /\ Gathered' # Thread
    BY <1>1, <1>4, <1>5, <1>8
  <2> QED
    BY <1>1, <1>2, <1>6, <2>1 DEF BarrierInv
<1> QED
  BY <1>7, <1>8

\* Every other step of a thread.
LEMMA ThreadKeepsBarrierInv ==
    ASSUME NEW x \in Thread, Shape, ThreadInv, BarrierInv, flag \in BOOLEAN,
           ThreadStep(x), ~Arrive(x)
    PROVE  BarrierInv'
<1> USE DEF ThreadGoto, setup, history, barrier
<1>1. /\ UNCHANGED <<main, program, gathered, flag>>
      /\ main = "join"
      /\ \A t \in Thread \ {x} : pc'[t] = pc[t]
      /\ pc[x] # "none" /\ pc'[x] \notin {"none", "pin", "wait"}
      /\ pc'[x] = "barrier" <=> pc[x] = "pin" /\ program = TwoRegions
      /\ pc[x] = "wait" => flag
  <2>1. CASE GetsGoing(x)
    BY <2>1 DEF GetsGoing, Pin, Pass, Oops, Work, Shape, ThreadInv, TwoRegions
  <2>2. CASE Notify(x) \/ ResetByte(x)
    BY <2>2 DEF Notify, ResetByte, Shape, ThreadInv
  <2>3. CASE Monitor(x) \/ Check(x) \/ Mwait(x) \/ Reread(x)
    BY <2>3 DEF Monitor, Check, Mwait, Reread, Shape, ThreadInv
  <2> QED
    BY <2>1, <2>2, <2>3 DEF ThreadStep, sleeper, notifier
<1>2. Threads' = Threads /\ Threads \subseteq Thread
  BY <1>1 DEF Threads, Pair, Thread
<1>3. program = TwoRegions /\ ~flag => pc[x] = "pin"
  <2> SUFFICES ASSUME program = TwoRegions, ~flag PROVE pc[x] = "pin"
    OBVIOUS
  <2>1. pc[x] \in {"pin", "barrier", "wait"}
    BY <1>1 DEF BarrierInv
  <2>2. pc[x] # "barrier"
    BY DEF ThreadStep, sleeper, notifier, GetsGoing, Pin, Pass, Oops, Notify, Monitor, Check,
       Mwait, Reread, ResetByte
  <2> QED
    BY <1>1, <2>1, <2>2
<1>4. program = TwoRegions /\ ~flag => Gathered' = Gathered
  BY <1>1, <1>3 DEF Gathered
<1> QED
  BY <1>1, <1>2, <1>3, <1>4 DEF BarrierInv

LEMMA ThreadKeepsPlaceInv ==
    ASSUME NEW x \in Thread, Shape, PlaceInv, ThreadStep(x)
    PROVE  PlaceInv'
<1> USE DEF ThreadGoto
<1>1. Backed' = Backed /\ \A t \in Thread \ {x} : pc'[t] = pc[t]
  BY ThreadFacts DEF Backed
<1>2. pc'[x] = "killed" => ~Backed
  <2>1. CASE GetsGoing(x)
    BY <2>1 DEF GetsGoing, Pin, Arrive, Pass, Oops, Work, Shape
  <2>2. CASE Notify(x) \/ ResetByte(x)
    BY <2>2 DEF Notify, ResetByte, Shape
  <2>3. CASE Monitor(x) \/ Check(x) \/ Mwait(x) \/ Reread(x)
    BY <2>3 DEF Monitor, Check, Mwait, Reread, Shape
  <2> QED
    BY <2>1, <2>2, <2>3 DEF ThreadStep, sleeper, notifier
<1>3. InCall(x)' => x \in Sleeper
  <2>1. CASE GetsGoing(x)
    BY <2>1 DEF GetsGoing, Pin, Arrive, Pass, Oops, Work, Shape, InCall
  <2>2. CASE Notify(x)
    BY <2>2 DEF Notify, Shape, InCall
  <2> QED
    BY <2>1, <2>2 DEF ThreadStep, sleeper, notifier
<1> QED
  BY <1>1, <1>2, <1>3 DEF PlaceInv, InCall

\* Before pthread_create and after pthread_join there is nothing to keep.
LEMMA MainKeepsRunInv ==
    ASSUME Shape, ProgramInv, RunInv, Main
    PROVE  RunInv'
<1> USE DEF setup, barrier, history, driverVars, MainGoto
<1>1. CASE Create
  <2>1. \A t \in Thread : pc'[t] = IF t \in Threads THEN "pin" ELSE "none"
    BY <1>1 DEF Create
  <2>2. program' = program /\ Threads' = Threads /\ Threads \subseteq Thread
    BY <1>1 DEF Create, Threads, Thread, Pair
  <2>3. Gathered' = {} /\ gathered' = 0 /\ ~flag'
    BY <1>1, <2>1 DEF Create, Gathered
  <2>4. Gathered' # Thread /\ Cardinality(Gathered') = 0
    BY <2>3, FS_EmptySet DEF Thread
  <2>5. program = TwoRegions => Threads = Thread
    BY DEF TwoRegions, Threads
  <2> QED
    BY <2>1, <2>2, <2>3, <2>4, <2>5 DEF RunInv, BarrierInv, PlaceInv, InCall
<1>2. CASE ~Create
  <2>1. main' # "join" /\ \A t \in Thread : pc'[t] = "none"
    BY <1>2 DEF ProgramInv, ThreadInv, Main, Start, OpenDevice, MapDevice, KernelInit,
       MallocAligned, Join, NotifyNobody, Exit, Finalize, Return
  <2> QED
    BY <2>1 DEF RunInv, BarrierInv, PlaceInv, InCall
<1> QED
  BY <1>1, <1>2

LEMMA NextKeepsRunInv ==
    ASSUME Shape, ProgramInv, Truth, RunInv, [Next]_vars
    PROVE  RunInv'
<1>1. CASE Driver \/ Other \/ UNCHANGED vars \/ \E r \in Region : Interrupt(r)
  <2>1. UNCHANGED <<program, main, pc, gathered, flag, pointer>>
    BY <1>1 DEF Driver, vars, programVars, Interrupt, setup, history, barrier, Other, OtherOpen,
       NotifyMemory, WriteTen, OtherExit
  <2> QED
    BY <2>1 DEF RunInv, BarrierInv, PlaceInv, Gathered, Threads, InCall, Backed
<1>2. ASSUME NEW t \in Thread, ThreadStep(t) PROVE RunInv'
  BY <1>2, ArriveKeepsBarrierInv, ThreadKeepsBarrierInv, ThreadKeepsPlaceInv
     DEF RunInv, ProgramInv, Truth
<1> QED
  BY <1>1, <1>2, MainKeepsRunInv DEF Next

\* The state predicate behind the theorem below.
LEMMA SomebodyGoesOn ==
    machine \in Machine /\ ProgramInv /\ SleepInv /\ RunInv => RunGoesOn
<1> SUFFICES ASSUME machine \in Machine, ProgramInv, SleepInv, RunInv,
                    main = "join", ~wiped, preempts \/ EnoughCpus,
                    NEW t \in Threads, ~Finished(t),
                    \A u \in Threads : Finished(u) \/ Held(u)
             PROVE  FALSE
  BY DEF RunGoesOn
<1>1. \A u \in Threads : Runs(u) /\ u \in Thread
  BY EveryoneRuns DEF ProgramInv, Threads, Pair, Thread
<1>2. CASE pc[t] = "wait" /\ ~flag
  <2>1. program = TwoRegions
    BY <1>1, <1>2 DEF RunInv, BarrierInv
  <2>2. PICK u \in Thread : u \notin Gathered
    BY <1>2, <2>1 DEF RunInv, BarrierInv, Gathered
  <2>3. pc[u] \in {"pin", "barrier"}
    BY <1>2, <2>1, <2>2 DEF RunInv, BarrierInv, Gathered
  <2>4. u \in Threads
    BY <2>1 DEF Threads, TwoRegions
  <2> QED
    BY <1>1, <2>3, <2>4 DEF Finished, Held
<1>3. CASE pc[t] = "mwait" /\ armed[AreaOf(t)]
  <2>1. t \in Sleeper /\ Backed
    BY <1>1, <1>3 DEF RunInv, PlaceInv, InCall, ProgramInv, PointerInv
  <2>2. t + 1 \in Threads /\ t + 1 \notin Sleeper /\ t + 1 \in Thread
    BY <2>1, SleeperFacts DEF Threads, Pair, Sleeper
  <2>3. ~Finished(t + 1)
    BY <1>3, <2>1, <2>2 DEF SleepInv, Over, RunInv, PlaceInv, Finished
  <2>4. pc[t + 1] = "wait" /\ ~flag
    BY <1>1, <2>2, <2>3 DEF Held, RunInv, PlaceInv, InCall
  <2>5. program = TwoRegions
    BY <2>2, <2>4 DEF RunInv, BarrierInv
  <2> QED
    BY <1>1, <1>3, <2>4, <2>5 DEF RunInv, BarrierInv
<1> QED
  BY <1>1, <1>2, <1>3 DEF Held

\* While a program has its threads, they never all wait for one another: on a
\* machine with a processor for each, or under a kernel that preempts, some
\* thread that is not through can take its next step, unless another program
\* has overwritten a notification.
THEOREM TestProgramsRunGoesOn == Spec => []RunGoesOn
<1>1. Init => SleepInv /\ RunInv
  BY SleeperFacts DEF Init, SleepInv, RunInv, BarrierInv, PlaceInv, InCall
<1>2. Points => machine \in Machine
  BY DEF Points
<1> QED
  BY <1>1, <1>2, SomebodyGoesOn, NextKeepsSleepInv, NextKeepsRunInv, DriverInvariance,
     ShapeInvariance, ProgramInvariance, TruthInvariance, PointsInvariance, PTL DEF Spec

=============================================================================
