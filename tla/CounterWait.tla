---------------------------- MODULE CounterWait -----------------------------
(***************************************************************************)
(* Waiting for a counter to reach a value: the inequality loops of spin.h   *)
(* and synch.h, with pause or with a halt after each look, and the system   *)
(* call mwmon_mmap_spin_while_greater.  The counter is the one of           *)
(* thread_test_kmon_unot.c: a long in the page of the device, that one      *)
(* thread sets to 0 and counts up, and that nobody sets before.             *)
(*                                                                         *)
(* The system call monitors the byte of the page, not the counter, and      *)
(* relies on interrupts.  Its number is 263 in cpu_control_syscalls.c; the  *)
(* 2.6.13.1 kernel for two packages has mwmon_mmap_sleep2 there.  The one   *)
(* for a single package has one region only and goes with a driver older    *)
(* than kmem_mapper.c, which sets the pointers to two.                      *)
(***************************************************************************)
EXTENDS Integers

CONSTANTS Waiter,
          Final     \* the counter stops here

ASSUME FinalPositive == Final \in Nat \ {0}

\* What the page may hold where the counter is, before the program sets it:
\* anything, of which only the order among the conditions tells.
Anything == -1 .. Final + 1

VARIABLES kernel,   \* onepackageonly or twopackages
          loop,     \* the loop each waiter was built with
          counter,
          started,  \* the counting thread has set the counter to 0
          byte,     \* the first byte of either region of the page
          pc,       \* program point of each waiter
          cond,     \* condition_val of its wait, or of the last one
          armed,    \* its processor has its monitor armed
          why       \* what its last wait ended on

vars == <<kernel, loop, counter, started, byte, pc, cond, armed, why>>

Loop == {"INEQ", "INEQ_HLT", "spin_while_greater"}

Init ==
    /\ kernel \in {"onepackageonly", "twopackages"}
    /\ loop \in [Waiter -> Loop]
    /\ counter \in Anything
    /\ started = FALSE
    /\ byte = [r \in {1, 2} |-> "original"]
    /\ pc = [w \in Waiter |-> "work"]
    /\ cond = [w \in Waiter |-> 0]
    /\ armed = [w \in Waiter |-> FALSE]
    /\ why = [w \in Waiter |-> "nothing"]

\* The region the call monitors: number 263 is mwmon_mmap_spin_while_greater,
\* or else mwmon_mmap_sleep2.
Area == IF kernel = "onepackageonly" THEN 1 ELSE 2

Goto(w, from, to) ==
    /\ pc[w] = from
    /\ pc' = [pc EXCEPT ![w] = to]

-----------------------------------------------------------------------------
(* The counting thread, and whoever notifies *)

\* for((*lint_counter_addr)=0; ...
Begin ==
    /\ ~started
    /\ started' = TRUE
    /\ counter' = 0
    /\ UNCHANGED <<kernel, loop, byte, pc, cond, armed, why>>

\* ... (*lint_counter_addr)<20; (*lint_counter_addr)++)
Count ==
    /\ started
    /\ counter < Final
    /\ counter' = counter + 1
    /\ UNCHANGED <<kernel, loop, started, byte, pc, cond, armed, why>>

\* Some program stores the notified value into a region.
Notify(r) ==
    /\ byte[r] = "original"
    /\ byte' = [byte EXCEPT ![r] = "notified"]
    /\ armed' = [w \in Waiter |-> armed[w] /\ r # Area]
    /\ UNCHANGED <<kernel, loop, counter, started, pc, cond, why>>

-----------------------------------------------------------------------------
(* The waits *)

\* What a wait that ends on the counter ends on: the one of the program, or
\* whatever was there before the program's.
OnCounter == IF started THEN "counter" ELSE "old counter"

Call(w) ==
    /\ Goto(w, "work", IF loop[w] # "spin_while_greater" THEN "first"
                       ELSE IF kernel = "onepackageonly" THEN "while" ELSE "arm")
    /\ cond' \in {[cond EXCEPT ![w] = c] : c \in 0 .. Final}
    /\ why' = [why EXCEPT ![w] = "nothing"]
    /\ UNCHANGED <<kernel, loop, counter, started, byte, armed>>

End(w, from, to, reason) ==
    /\ Goto(w, from, to)
    /\ why' = [why EXCEPT ![w] = reason]
    /\ UNCHANGED <<kernel, loop, counter, started, byte, cond, armed>>

Leave(w, from, reason) == End(w, from, "work", reason)

\* The system call has a byte to put back before it returns.
Found(w, from, reason) == End(w, from, "put back", reason)

Stay(w, from, to) ==
    /\ Goto(w, from, to)
    /\ UNCHANGED <<kernel, loop, counter, started, byte, cond, armed, why>>

\* pause, and the halt of the loops that have one.
Body(w) == IF loop[w] = "INEQ_HLT" THEN "halt" ELSE "again"

\* A wrong first look: jle for jge.
FirstLess(w) ==
    \/ counter <= cond[w] /\ Leave(w, "first", OnCounter)
    \/ counter > cond[w] /\ Stay(w, "first", Body(w))

\* A wrong first look: jg for jge.
FirstPast(w) ==
    \/ counter > cond[w] /\ Leave(w, "first", OnCounter)
    \/ counter <= cond[w] /\ Stay(w, "first", Body(w))

\* cmpl; jge 2f
First(w) ==
    \/ counter >= cond[w] /\ Leave(w, "first", OnCounter)
    \/ counter < cond[w] /\ Stay(w, "first", Body(w))

\* The halt of the ioctl or of cpu_halt, and the next interrupt.
Halt(w) == Stay(w, "halt", "halted")

Tick(w) == Stay(w, "halted", "again")

\* cmpl; jle 1b: here the counter has to be past the condition.
Again(w) ==
    \/ counter > cond[w] /\ Leave(w, "again", OnCounter)
    \/ counter <= cond[w] /\ Stay(w, "again", Body(w))

\* sys_mwmon_mmap_spin_while_greater: test, ...
While(w) ==
    \/ counter >= cond[w] /\ Found(w, "while", OnCounter)
    \/ counter < cond[w] /\ Stay(w, "while", "arm")

\* ... arm, where the sleep call begins, ...
Monitor(w) ==
    /\ Goto(w, "arm", "check")
    /\ armed' = [armed EXCEPT ![w] = TRUE]
    /\ UNCHANGED <<kernel, loop, counter, started, byte, cond, why>>

\* ... stop if the byte has been notified, ...
Check(w) ==
    \/ byte[Area] = "notified" /\ Found(w, "check", "notification")
    \/ byte[Area] # "notified" /\ Stay(w, "check", "mwait")

\* ... sleep until the byte is written to or an interrupt comes ...
Mwait(w) ==
    /\ ~armed[w]
    /\ Stay(w, "mwait", IF kernel = "onepackageonly" THEN "while" ELSE "reread")

\* ... (the sleep call looks at the byte again; the build may test the value it
\* read before) ...
Reread(w) ==
    \/ Stay(w, "reread", "arm")
    \/ byte[Area] = "notified" /\ Found(w, "reread", "notification")

Interrupt(w) ==
    /\ armed[w]
    /\ armed' = [armed EXCEPT ![w] = FALSE]
    /\ UNCHANGED <<kernel, loop, counter, started, byte, pc, cond, why>>

\* ... and put the byte back, also when it had nothing to do with the return.
PutBack(w) ==
    /\ Goto(w, "put back", "work")
    /\ byte' = [byte EXCEPT ![Area] = "original"]
    /\ armed' = [u \in Waiter |-> FALSE]
    /\ UNCHANGED <<kernel, loop, counter, started, cond, why>>

Step(w) ==
    \/ First(w) \/ Halt(w) \/ Again(w)
    \/ While(w) \/ Monitor(w) \/ Check(w) \/ Mwait(w) \/ Reread(w) \/ PutBack(w)

-----------------------------------------------------------------------------

Next ==
    \/ Begin \/ Count
    \/ \E r \in {1, 2} : Notify(r)
    \/ \E w \in Waiter : Call(w) \/ Step(w) \/ Tick(w) \/ Interrupt(w)

\* The counting thread counts to the end, a thread in a wait runs, and a
\* processor has its next timer tick.  Nothing calls a wait or notifies.
Fairness ==
    /\ WF_vars(Begin) /\ WF_vars(Count)
    /\ \A w \in Waiter : WF_vars(Step(w)) /\ WF_vars(Tick(w)) /\ WF_vars(Interrupt(w))

Spec == Init /\ [][Next]_vars

FairSpec == Spec /\ Fairness

-----------------------------------------------------------------------------

TypeOK ==
    /\ kernel \in {"onepackageonly", "twopackages"}
    /\ loop \in [Waiter -> Loop]
    /\ counter \in Anything
    /\ started \in BOOLEAN
    /\ byte \in [{1, 2} -> {"original", "notified"}]
    /\ pc \in [Waiter -> {"work", "first", "halt", "halted", "again", "while", "arm", "check",
                          "mwait", "reread", "put back"}]
    /\ cond \in [Waiter -> 0 .. Final]
    /\ armed \in [Waiter -> BOOLEAN]
    /\ why \in [Waiter -> {"nothing", "counter", "old counter", "notification"}]

\* A wait that ended on the counter left it at the condition or beyond, where
\* it still is; only the system call ends on anything else.  The counter the
\* program has not set yet may end it too.
ReturnsJustified ==
    \A w \in Waiter :
        /\ why[w] = "counter" => counter >= cond[w]
        /\ why[w] = "notification" => loop[w] = "spin_while_greater"

\* A loop that is entered when the counter has stopped.
ComesLate(w) == pc[w] = "first" /\ started /\ counter = Final

\* What the end of a wait takes: for a loop that the counter goes past the
\* condition, as its second test is not its first, or has stopped before the
\* first test; for the system call that the counter gets there, if number 263 is
\* that call.
CanEnd(w) ==
    IF loop[w] = "spin_while_greater" THEN kernel = "onepackageonly"
                                      ELSE cond[w] < Final \/ ComesLate(w)

\* Every wait that can end does, whatever it halts or sleeps through.
WaitEnds == \A w \in Waiter : pc[w] # "work" /\ CanEnd(w) ~> pc[w] = "work"

=============================================================================
