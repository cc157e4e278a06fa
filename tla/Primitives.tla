----------------------------- MODULE Primitives -----------------------------
(***************************************************************************)
(* test_primitives.c: a heavy thread that works and notifies, and a light   *)
(* one that sleeps, N / sync_period times each, over the primitive the      *)
(* program was built with: the monitor/mwait system call, a spin loop with  *)
(* pause, a spin loop with halt, or a pthread condition variable.           *)
(*                                                                         *)
(* A notification of the first three is a store of a constant that the      *)
(* light thread puts back when it has seen it, so a second one before that  *)
(* counts for nothing; a signal counts for nothing when nobody is waiting.  *)
(* `lost` counts those.                                                    *)
(***************************************************************************)
EXTENDS Integers

CONSTANT Syncs    \* the iterations of either loop with !(i % sync_period)

ASSUME SyncsPositive == Syncs \in Nat \ {0}

VARIABLES primitive,  \* MWMON, SPINPAUSE, SPINHALT or PTHREAD
          word,       \* spin_var, or the byte of the mapped page
          armed,      \* the light thread's processor has its monitor armed
          cv_mutex,   \* who holds the mutex of the condition variable
          heavy,      \* program point of the heavy thread
          light,      \* program point of the light thread
          sent,       \* notifications so far
          woken,      \* sleeps of the light thread that have ended
          lost        \* notifications that no sleep will end for

vars == <<primitive, word, armed, cv_mutex, heavy, light, sent, woken, lost>>

\* The light thread's variables, and the ones a step of its loops leaves alone
others == <<primitive, cv_mutex, heavy, sent, lost>>

Init ==
    /\ primitive \in {"MWMON", "SPINPAUSE", "SPINHALT", "PTHREAD"}
    /\ word = "original"
    /\ armed = FALSE
    /\ cv_mutex = "free"
    /\ heavy = "work" /\ light = "work"
    /\ sent = 0 /\ woken = 0 /\ lost = 0

LightGoto(from, to) ==
    /\ light = from
    /\ light' = to

-----------------------------------------------------------------------------
(* heavy() *)

\* A wrong loop: one iteration more.
WorkOneMore ==
    /\ heavy = "work"
    /\ sent <= Syncs
    /\ heavy' = "notify"
    /\ UNCHANGED <<primitive, word, armed, cv_mutex, light, sent, woken, lost>>

\* Work up to the next iteration that notifies.
Work ==
    /\ heavy = "work"
    /\ sent < Syncs
    /\ heavy' = "notify"
    /\ UNCHANGED <<primitive, word, armed, cv_mutex, light, sent, woken, lost>>

\* The store of the notified value, which triggers the monitor.
Notify ==
    /\ primitive # "PTHREAD"
    /\ heavy = "notify"
    /\ heavy' = IF primitive = "SPINHALT" THEN "ioctl" ELSE "work"
    /\ word' = "notified"
    /\ armed' = FALSE
    /\ sent' = sent + 1
    /\ lost' = IF word = "notified" THEN lost + 1 ELSE lost
    /\ UNCHANGED <<primitive, cv_mutex, light, woken>>

\* CPUCTRL_IOC_WAKEUP: an interrupt to the light thread's processor, which
\* does nothing unless it is halted.
Wakeup ==
    /\ heavy = "ioctl"
    /\ heavy' = "work"
    /\ light' = IF light = "halted" THEN "recheck" ELSE light
    /\ UNCHANGED <<primitive, word, armed, cv_mutex, sent, woken, lost>>

CvLock ==
    /\ primitive = "PTHREAD"
    /\ heavy = "notify"
    /\ cv_mutex = "free"
    /\ cv_mutex' = "heavy"
    /\ heavy' = "signal"
    /\ UNCHANGED <<primitive, word, armed, light, sent, woken, lost>>

CvSignal ==
    /\ heavy = "signal"
    /\ heavy' = "unlock"
    /\ sent' = sent + 1
    /\ \/ LightGoto("waiting", "relock") /\ UNCHANGED lost
       \/ light # "waiting" /\ lost' = lost + 1 /\ UNCHANGED light
    /\ UNCHANGED <<primitive, word, armed, cv_mutex, woken>>

CvUnlock ==
    /\ heavy = "unlock"
    /\ heavy' = "work"
    /\ cv_mutex' = "free"
    /\ UNCHANGED <<primitive, word, armed, light, sent, woken, lost>>

-----------------------------------------------------------------------------
(* light() *)

\* Up to the next iteration that sleeps.
Iterate ==
    /\ woken < Syncs
    /\ LightGoto("work", "sleep")
    /\ UNCHANGED <<others, word, armed, woken>>

\* sys_mwmon_mmap_sleep: arm the monitor ...
Monitor ==
    /\ primitive = "MWMON"
    /\ LightGoto("sleep", "check")
    /\ armed' = TRUE
    /\ UNCHANGED <<others, word, woken>>

\* A wrong order: the byte is not looked at once the monitor is armed.
NoCheck ==
    /\ LightGoto("check", "mwait")
    /\ UNCHANGED <<others, word, armed, woken>>

\* ... look at the byte ...
Check ==
    /\ LightGoto("check", IF word = "notified" THEN "reset" ELSE "mwait")
    /\ UNCHANGED <<others, word, armed, woken>>

\* ... stop the processor until the monitor is triggered or undone ...
Mwait ==
    /\ ~armed
    /\ LightGoto("mwait", "reread")
    /\ UNCHANGED <<others, word, armed, woken>>

\* ... and look again; the build may test the value read before the sleep,
\* which was not the notified one.
Reread ==
    /\ \/ LightGoto("reread", "sleep")
       \/ word = "notified" /\ LightGoto("reread", "reset")
    /\ UNCHANGED <<others, word, armed, woken>>

\* An interrupt undoes the monitor.
Interrupt ==
    /\ armed
    /\ armed' = FALSE
    /\ UNCHANGED <<others, word, light, woken>>

\* spin_on_condition(&spin_var, NOTIFIED_VALUE)
SpinPause ==
    /\ primitive = "SPINPAUSE"
    /\ word = "notified"
    /\ LightGoto("sleep", "reset")
    /\ UNCHANGED <<others, word, armed, woken>>

\* spin_on_condition_cpuhalt(&spin_var, NOTIFIED_VALUE): each look at the
\* variable that fails is followed by a halt.
SpinHalt ==
    /\ primitive = "SPINHALT"
    /\ \/ LightGoto("sleep", IF word = "notified" THEN "reset" ELSE "halt")
       \/ LightGoto("recheck", IF word = "notified" THEN "reset" ELSE "halt")
       \/ LightGoto("halt", "halted")
    /\ UNCHANGED <<others, word, armed, woken>>

\* The next interrupt of a halted processor.
Tick ==
    /\ LightGoto("halted", "recheck")
    /\ UNCHANGED <<others, word, armed, woken>>

\* A wrong end of the sleep: the notification stays where it is.
ResetNothing ==
    /\ LightGoto("reset", "work")
    /\ woken' = woken + 1
    /\ UNCHANGED <<others, word, armed>>

\* The sleep ends: the light thread, or the system call, puts the value back.
\* Whatever was stored since it was seen goes with it.
Reset ==
    /\ LightGoto("reset", "work")
    /\ word' = "original"
    /\ woken' = woken + 1
    /\ UNCHANGED <<others, armed>>

\* pthread_mutex_lock, pthread_cond_wait (which may also wake for no reason),
\* its re-lock, and pthread_mutex_unlock
CvWait ==
    /\ \/ /\ primitive = "PTHREAD"
          /\ cv_mutex = "free"
          /\ LightGoto("sleep", "wait")
          /\ cv_mutex' = "light"
       \/ LightGoto("wait", "waiting") /\ cv_mutex' = "free"
       \/ LightGoto("relock", "unlock") /\ cv_mutex = "free" /\ cv_mutex' = "light"
    /\ UNCHANGED <<primitive, word, armed, heavy, sent, woken, lost>>

CvSpurious ==
    /\ LightGoto("waiting", "relock")
    /\ UNCHANGED <<others, word, armed, woken>>

CvDone ==
    /\ LightGoto("unlock", "work")
    /\ cv_mutex' = "free"
    /\ woken' = woken + 1
    /\ UNCHANGED <<primitive, word, armed, heavy, sent, lost>>

-----------------------------------------------------------------------------

Heavy == Work \/ Notify \/ Wakeup \/ CvLock \/ CvSignal \/ CvUnlock

Light ==
    \/ Iterate \/ Monitor \/ Check \/ Mwait \/ Reread \/ SpinPause \/ SpinHalt
    \/ Reset \/ CvWait \/ CvDone

Next == Heavy \/ Light \/ Interrupt \/ Tick \/ CvSpurious

\* Each thread has a processor of its own and runs its loop to the end, and a
\* halted processor has its next timer tick.  pthread mutexes are not fair,
\* but the heavy thread asks for it a bounded number of times.
Fairness == WF_vars(Heavy) /\ WF_vars(Light) /\ WF_vars(Tick)

Spec == Init /\ [][Next]_vars

FairSpec == Spec /\ Fairness

-----------------------------------------------------------------------------

TypeOK ==
    /\ primitive \in {"MWMON", "SPINPAUSE", "SPINHALT", "PTHREAD"}
    /\ word \in {"original", "notified"}
    /\ armed \in BOOLEAN
    /\ cv_mutex \in {"free", "heavy", "light"}
    /\ heavy \in {"work", "notify", "ioctl", "signal", "unlock"}
    /\ light \in {"work", "sleep", "check", "mwait", "reread", "halt", "halted",
                  "recheck", "reset", "wait", "waiting", "relock", "unlock"}
    /\ sent \in 0 .. Syncs /\ woken \in 0 .. Syncs /\ lost \in 0 .. Syncs

\* Every notification stored ended one sleep, is in the word, or fell on one
\* that was still there; the light thread never wakes twice for one.
NotificationsAccountedFor ==
    primitive # "PTHREAD" =>
        sent = woken + lost + (IF word = "notified" THEN 1 ELSE 0)

\* The other way to lose one does not exist: unless notifications fell
\* together or a signal found nobody, the light thread gets through its loop,
\* whenever it arms its monitor, halts or waits.  When some did, it may wait
\* for ever for a notification that was already spent.
LightEndsUnlessLost == <>(lost > 0 \/ (light = "work" /\ woken = Syncs))

\* And also then, the word does not keep a notification nobody looks at.
NotificationIsTaken == word = "notified" ~> word = "original"

=============================================================================
