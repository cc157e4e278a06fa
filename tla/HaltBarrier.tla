----------------------------- MODULE HaltBarrier ----------------------------
(***************************************************************************)
(* spin_barrier_lsense_cpuhalt() and spin_barrier_lsense_cpuhalt_sendIPI()  *)
(* of synch.h: spin_barrier_lsense, of which they take the arrival and the  *)
(* release over unchanged, with a waiting loop that halts the processor in  *)
(* a system call after each look at the flag.                              *)
(*                                                                         *)
(* A halted processor runs again at its next interrupt: a timer tick, or    *)
(* the interrupt that the sendIPI variant has the cpuctrl driver send to    *)
(* all the others.  One sent between a thread's look at the flag and its    *)
(* halt wakes nobody.                                                      *)
(***************************************************************************)
EXTENDS SynchBarrier

CONSTANT ConditionInRax   \* the build keeps condition_val in rax

ASSUME ConditionInRaxBoolean == ConditionInRax \in BOOLEAN

VARIABLE sendIPI   \* the program uses the variant that sends interrupts

haltVars == <<vars, sendIPI>>

HaltInit ==
    /\ Init
    /\ sendIPI \in BOOLEAN

\* The arrival, the test, the reset and the flag store; a thread that finds
\* its sense in the flag at the first look leaves without halting.
Spinning(t) ==
    /\ Arrive(t) \/ Test(t) \/ Reset(t) \/ Flip(t) \/ SpinOnCondition(t)
    /\ UNCHANGED sendIPI

\* The first look at the flag fails.
NotYet(t) ==
    /\ release_flag # lsense[t]
    /\ Goto(t, "wait", "halt")
    /\ UNCHANGED <<current_count, release_flag, lsense, sendIPI>>

\* A wrong system call: it halts without enabling interrupts.
HaltMasked(t) ==
    /\ Goto(t, "halt", "masked")
    /\ UNCHANGED <<current_count, release_flag, lsense, sendIPI>>

\* sys_cpu_halt: sti; hlt
Halt(t) ==
    /\ Goto(t, "halt", "halted")
    /\ UNCHANGED <<current_count, release_flag, lsense, sendIPI>>

\* A timer interrupt, or any other.
Tick(t) ==
    /\ Goto(t, "halted", "recheck")
    /\ UNCHANGED <<current_count, release_flag, lsense, sendIPI>>

\* A wrong loop: having been woken is taken for having been released.
RecheckNothing(t) ==
    /\ Goto(t, "recheck", "work")
    /\ UNCHANGED <<current_count, release_flag, lsense, sendIPI>>

\* What the flag is compared with after a halt.  The system call returns 0 in
\* rax, and the asm that makes it does not say that rax changes; a build that
\* keeps condition_val there compares with the 0.
Compared(t) == IF ConditionInRax THEN 0 ELSE lsense[t]

Recheck(t) ==
    /\ Goto(t, "recheck", IF release_flag = Compared(t) THEN "work" ELSE "halt")
    /\ UNCHANGED <<current_count, release_flag, lsense, sendIPI>>

\* The last arrival returns, in the sendIPI variant after the ioctl that
\* wakes every processor but its own.
HaltReturn(t) ==
    /\ pc[t] = "return"
    /\ pc' = [u \in Thread |->
                IF u = t THEN "work"
                ELSE IF sendIPI /\ pc[u] = "halted" THEN "recheck"
                ELSE pc[u]]
    /\ UNCHANGED <<current_count, release_flag, lsense, sendIPI>>

HaltStep(t) == Spinning(t) \/ NotYet(t) \/ Halt(t) \/ Recheck(t) \/ HaltReturn(t)

HaltNext == \E t \in Thread : HaltStep(t) \/ Tick(t)

\* A thread inside the barrier keeps running, and a halted processor has its
\* next timer tick.  Nothing makes a thread call the barrier.
HaltFairness == \A t \in Thread : WF_haltVars(pc[t] # "work" /\ HaltStep(t)) /\ WF_haltVars(Tick(t))

HaltSpec == HaltInit /\ [][HaltNext]_haltVars

HaltFairSpec == HaltSpec /\ HaltFairness

-----------------------------------------------------------------------------

HaltTypeOK ==
    /\ current_count \in 0 .. nthreads
    /\ release_flag \in {0, 1}
    /\ lsense \in [Thread -> {0, 1}]
    /\ pc \in [Thread -> {"work", "test", "reset", "flip", "wait", "return",
                          "halt", "halted", "recheck"}]
    /\ sendIPI \in BOOLEAN

\* A thread that is back from the barrier was released: the flag has its
\* sense, whichever interrupt woke it and however often it was woken before.
\* A build that keeps the condition in rax breaks it in every second round.
BackOnlyWhenReleased ==
    \A t \in Thread : pc[t] = "work" => lsense[t] = release_flag

SpinPc == [t \in Thread |-> IF pc[t] \in {"halt", "halted", "recheck"} THEN "wait" ELSE pc[t]]

Spin == INSTANCE SynchBarrier WITH pc <- SpinPc

\* Halting is only a way of waiting: to the count, the flag and the other
\* threads this is spin_barrier_lsense, with all that is right about it and
\* what is wrong with it.
ImplementsSpinBarrier == Spin!Spec

\* A released thread returns, also when it halts after the interrupt of the
\* release was sent: it waits for its next timer tick.
ReleasedThreadReturns == B!EveryReleaseReturns

=============================================================================
