---------------------------- MODULE TestPrograms ----------------------------
(***************************************************************************)
(* The programs that try the notifications out: thread_test_kmon_knot,      *)
(* thread_test_umon_unot, thread_test_kmon_unot and its two-region sibling. *)
(* In each a sleeper enters a monitor/mwait system call and a notifier ends *)
(* its sleep; what differs is whose memory is monitored, who allocates it   *)
(* and how it is notified.  notify_memory and kmem_mapper_test may have the *)
(* device open at the same time, and the driver comes and goes.             *)
(*                                                                         *)
(* One of the programs is run again and again, one instance at a time.  The *)
(* seconds a thread sleeps before its call or its store are any time at     *)
(* all.  A thread is bound to a processor, and keeps it for as long as it   *)
(* is in its system call unless the kernel preempts.  The patches for two    *)
(* packages set CONFIG_PREEMPT; the kernel they start from had it off, and   *)
(* the patch for one package leaves it as it was: it may be either.         *)
(***************************************************************************)
EXTENDS KmemMapper, Cpus

CONSTANTS Machine,          \* the machines the programs are built for
          CPU_BITS          \* -DCPU_BITS

ASSUME MachineKnown == Machine \subseteq DOMAIN cpus
ASSUME CPU_BITSKnown == CPU_BITS \in {32, 64}

VARIABLES machine,   \* the one this behaviour is about
          preempts,  \* CONFIG_PREEMPT of its kernel
          program,
          main,      \* program point of main
          pc,        \* program points of its threads
          gathered,  \* current_count of the barrier of the two-region program
          flag,      \* its release_flag
          armed,     \* the monitor on each region, or on the program's own memory
          buf,       \* first byte of the memory the program monitors if not the device's
          pointer,   \* __mwmon_kernel_memory: null, live or freed
          result,    \* what mwmon_kernel_init returned
          other,     \* another program that uses the device
          garbage,   \* malloc returned memory with a notified first byte
          stored,    \* regions where a notification was stored since the program began
          wiped,     \* a notification was overwritten before its sleeper saw it
          oops       \* the kernel touched memory that is not there

programVars == <<machine, preempts, program, main, pc, gathered, flag, armed, buf, pointer,
                 result, other, garbage, stored, wiped, oops>>
vars == <<driverVars, programVars>>

\* What the threads of a program leave alone, and what they may touch
setup == <<machine, preempts, program, pointer, result, garbage>>
barrier == <<gathered, flag>>
history == <<stored, wiped, oops>>

Program == {"thread_test_kmon_knot", "thread_test_umon_unot",
            "thread_test_kmon_unot", "thread_test_kmon_unot_2regions"}
Thread == 0 .. 3
Sleeper == {0, 2}
Pair == {0, 1}

UsesDevice == program \in {"thread_test_kmon_unot", "thread_test_kmon_unot_2regions"}
Threads == IF program = "thread_test_kmon_unot_2regions" THEN Thread ELSE Pair

\* The region a thread sleeps on or notifies.
AreaOf(t) == IF t \in Pair THEN "mwmon_mmap_area" ELSE "mwmon_mmap_area2"

\* A wrong table of threads: everyone on the first sibling.
CpuOfFirst(t) == cpu_number(machine, t \div 2, 0)

\* The processor a thread is bound to.
CpuOf(t) == cpu_number(machine, t \div 2, t % 2)

Init ==
    /\ DriverInit
    /\ machine \in Machine
    /\ preempts \in BOOLEAN
    /\ program \in Program
    /\ main = "idle"
    /\ pc = [t \in Thread |-> "none"]
    /\ gathered = 0 /\ flag = FALSE
    /\ armed = [r \in Region |-> FALSE]
    /\ buf = "original"
    /\ pointer = "null"
    /\ result = 0
    /\ other = "idle"
    /\ garbage = FALSE
    /\ stored = {}
    /\ wiped = FALSE
    /\ oops = FALSE

MainGoto(from, to) ==
    /\ main = from
    /\ main' = to

-----------------------------------------------------------------------------
(* main, up to pthread_create *)

Start ==
    /\ MainGoto("idle", "setup")
    /\ result' = 0 /\ garbage' = FALSE /\ stored' = {} /\ wiped' = FALSE /\ oops' = FALSE
    /\ UNCHANGED <<driverVars, barrier, machine, preempts, program, pc, armed, buf,
                   pointer, other>>

\* open("/dev/kmem_mapper"), which may fail for any reason and then ends the
\* program.
OpenDevice ==
    /\ UsesDevice
    /\ \/ MainGoto("setup", "map") /\ Open("main")
       \/ MainGoto("setup", "idle") /\ UNCHANGED driverVars
       \/ MainGoto("setup", "idle") /\ OpenWild
    /\ UNCHANGED <<setup, barrier, history, pc, armed, buf, other>>

\* mmap, or its failure.
MapDevice ==
    /\ \/ MainGoto("map", "create") /\ UNCHANGED driverVars
       \/ MainGoto("map", "idle") /\ Release("main")
    /\ UNCHANGED <<setup, barrier, history, pc, armed, buf, other>>

\* mwmon_kernel_init: memory at its original value, or no memory.  The program
\* goes on in either case.  my_kmalloc_align rounds up what kmalloc returns,
\* which without CONFIG_DEBUG_SLAB is on a cache line, so that the pointer that
\* finalize frees is the one that was allocated.
KernelInit ==
    /\ program = "thread_test_kmon_knot"
    /\ MainGoto("setup", "create")
    /\ \/ pointer' = "live" /\ buf' = "original" /\ result' = Wrapped(CPU_BITS, 0)
       \/ pointer' = "null" /\ result' = Wrapped(CPU_BITS, -ENOMEM) /\ UNCHANGED buf
    /\ UNCHANGED <<driverVars, barrier, history, machine, preempts, program, pc, armed,
                   other, garbage>>

\* malloc_aligned: the memory holds whatever it holds.
MallocAligned ==
    /\ program = "thread_test_umon_unot"
    /\ \/ /\ MainGoto("setup", "create")
          /\ buf' \in Byte
          /\ garbage' = (buf' = "notified")
       \/ MainGoto("setup", "idle") /\ UNCHANGED <<buf, garbage>>
    /\ UNCHANGED <<driverVars, barrier, history, machine, preempts, program, pc, armed,
                   pointer, result, other>>

\* spin_barrier_init and pthread_create
Create ==
    /\ MainGoto("create", "join")
    /\ pc' = [t \in Thread |-> IF t \in Threads THEN "pin" ELSE "none"]
    /\ gathered' = 0 /\ flag' = FALSE
    /\ UNCHANGED <<driverVars, setup, history, armed, buf, other>>

-----------------------------------------------------------------------------
(* The threads *)

InCall(t) == pc[t] \in {"arm", "check", "mwait", "reread", "reset"}

\* Nobody else keeps the processor of thread t.
Runs(t) == preempts \/ \A u \in Sleeper \ {t} : InCall(u) => CpuOf(u) # CpuOf(t)

ThreadGoto(t, from, to) ==
    /\ pc[t] = from
    /\ pc' = [pc EXCEPT ![t] = to]

Work(t) == IF t \in Sleeper THEN "sleep" ELSE "notify"

\* my_sched_setaffinity; the thread may have been anywhere before.
Pin(t) ==
    /\ ThreadGoto(t, "pin", IF program = "thread_test_kmon_unot_2regions"
                            THEN "barrier" ELSE Work(t))
    /\ UNCHANGED <<driverVars, setup, barrier, history, main, armed, buf, other>>

\* SPIN_BARRIER_LSENSE: what it does under its lock ...
Arrive(t) ==
    /\ Runs(t)
    /\ ThreadGoto(t, "barrier", "wait")
    /\ IF gathered + 1 = 4 THEN gathered' = 0 /\ flag' = TRUE
                           ELSE gathered' = gathered + 1 /\ UNCHANGED flag
    /\ UNCHANGED <<driverVars, setup, history, main, armed, buf, other>>

\* ... and SPIN_ON_CONDITION.
Pass(t) ==
    /\ Runs(t) /\ flag
    /\ ThreadGoto(t, "wait", Work(t))
    /\ UNCHANGED <<driverVars, setup, barrier, history, main, armed, buf, other>>

\* The memory of thread t is there; the device's is, as long as it is mapped.
Backed == program = "thread_test_kmon_knot" => pointer = "live"

Look(t) == IF UsesDevice THEN mem[AreaOf(t)] ELSE buf

Put(t, v) ==
    IF UsesDevice THEN Store(AreaOf(t), v) /\ UNCHANGED buf
                  ELSE buf' = v /\ UNCHANGED driverVars

\* The store of the notifier, or mwmon_kernel_notify.
Notify(t) ==
    /\ Runs(t) /\ Backed
    /\ ThreadGoto(t, "notify", "done")
    /\ Put(t, "notified")
    /\ stored' = stored \cup {AreaOf(t)}
    /\ armed' = [armed EXCEPT ![AreaOf(t)] = FALSE]
    /\ UNCHANGED <<setup, barrier, main, other, wiped, oops>>

\* The first touch of memory that is not there kills the thread.
Oops(t) ==
    /\ Runs(t) /\ ~Backed
    /\ pc[t] \in {"sleep", "notify"}
    /\ pc' = [pc EXCEPT ![t] = "killed"]
    /\ oops' = TRUE
    /\ UNCHANGED <<driverVars, setup, barrier, main, armed, buf, other, stored, wiped>>

\* The sleep call: arm the monitor ...
Monitor(t) ==
    /\ Runs(t) /\ Backed
    /\ ThreadGoto(t, "sleep", "check") \/ ThreadGoto(t, "arm", "check")
    /\ armed' = [armed EXCEPT ![AreaOf(t)] = TRUE]
    /\ UNCHANGED <<driverVars, setup, barrier, history, main, buf, other>>

\* A wrong call: it does not look again once the monitor is armed.
CheckNothing(t) ==
    /\ ThreadGoto(t, "check", "mwait")
    /\ UNCHANGED <<driverVars, setup, barrier, history, main, armed, buf, other>>

\* ... look at the byte ...
Check(t) ==
    /\ ThreadGoto(t, "check", IF Look(t) = "notified" THEN "reset" ELSE "mwait")
    /\ UNCHANGED <<driverVars, setup, barrier, history, main, armed, buf, other>>

\* ... stop the processor until the monitor is triggered or undone ...
Mwait(t) ==
    /\ ~armed[AreaOf(t)]
    /\ ThreadGoto(t, "mwait", "reread")
    /\ UNCHANGED <<driverVars, setup, barrier, history, main, armed, buf, other>>

\* ... and look again; the build may test the value it read before.
Reread(t) ==
    /\ \/ ThreadGoto(t, "reread", "arm")
       \/ Look(t) = "notified" /\ ThreadGoto(t, "reread", "reset")
    /\ UNCHANGED <<driverVars, setup, barrier, history, main, armed, buf, other>>

\* The call puts the byte back and returns.
ResetByte(t) ==
    /\ ThreadGoto(t, "reset", "done")
    /\ Put(t, "original")
    /\ armed' = [armed EXCEPT ![AreaOf(t)] = FALSE]
    /\ UNCHANGED <<setup, barrier, history, main, other>>

\* An interrupt undoes the monitor.
Interrupt(r) ==
    /\ armed[r]
    /\ armed' = [armed EXCEPT ![r] = FALSE]
    /\ UNCHANGED <<driverVars, setup, barrier, history, main, pc, buf, other>>

GetsGoing(t) == Pin(t) \/ Arrive(t) \/ Pass(t) \/ Oops(t)

sleeper(t) ==
    /\ t \in Sleeper
    /\ \/ GetsGoing(t)
       \/ Monitor(t) \/ Check(t) \/ Mwait(t) \/ Reread(t) \/ ResetByte(t)

notifier(t) ==
    /\ t \notin Sleeper
    /\ GetsGoing(t) \/ Notify(t)

ThreadStep(t) == sleeper(t) \/ notifier(t)

-----------------------------------------------------------------------------
(* main, from pthread_join *)

\* A wrong main: it does not wait for the notifier.
JoinSleepers ==
    /\ MainGoto("join", "end")
    /\ \A t \in Sleeper \cap Threads : pc[t] \in {"done", "killed"}
    /\ UNCHANGED <<driverVars, setup, barrier, history, pc, armed, buf, other>>

\* pthread_join, for each thread.
Join ==
    /\ MainGoto("join", "end")
    /\ \A t \in Threads : pc[t] \in {"done", "killed"}
    /\ pc' = [t \in Thread |-> "none"]
    /\ UNCHANGED <<driverVars, setup, barrier, history, armed, buf, other>>

\* The notified value into each region, for nobody.
NotifyNobody ==
    /\ UsesDevice
    /\ MainGoto("end", "exit")
    /\ mem' = [r \in Region |-> IF \E t \in Threads : AreaOf(t) = r
                                THEN "notified" ELSE mem[r]]
    /\ UNCHANGED <<driver, region, cdev, leftover, page, node, users, wild>>
    /\ UNCHANGED <<setup, barrier, history, pc, armed, buf, other>>

Exit ==
    /\ MainGoto("exit", "idle")
    /\ Release("main")
    /\ UNCHANGED <<setup, barrier, history, pc, armed, buf, other>>

\* mwmon_kernel_finalize: kfree, which takes a null pointer too; the pointer
\* stays.
Finalize ==
    /\ program = "thread_test_kmon_knot"
    /\ MainGoto("end", "idle")
    /\ pointer' = IF pointer = "live" THEN "freed" ELSE pointer
    /\ oops' = (oops \/ pointer = "freed")
    /\ UNCHANGED <<driverVars, barrier, machine, preempts, program, result, garbage,
                   stored, wiped, pc, armed, buf, other>>

Return ==
    /\ program = "thread_test_umon_unot"
    /\ MainGoto("end", "idle")
    /\ UNCHANGED <<driverVars, setup, barrier, history, pc, armed, buf, other>>

Main ==
    \/ Start \/ OpenDevice \/ MapDevice \/ KernelInit \/ MallocAligned \/ Create
    \/ Join \/ NotifyNobody \/ Exit \/ Finalize \/ Return

-----------------------------------------------------------------------------
(* notify_memory and kmem_mapper_test, from another process *)

\* A sleeper still has to see the notification that is in region r.
Pending(r) ==
    /\ UsesDevice /\ main = "join" /\ mem[r] = "notified"
    /\ \E t \in Sleeper \cap Threads :
          AreaOf(t) = r /\ pc[t] \notin {"reset", "done", "killed"}

\* Stores of another process to regions rs reach the sleepers of a program
\* that uses the device.
Touched(rs) == [r \in Region |-> armed[r] /\ ~(UsesDevice /\ r \in rs)]

OtherOpen ==
    /\ other = "idle"
    /\ \/ /\ Open("other")
          /\ other' \in {"notify_memory", "kmem_mapper_test"}
          /\ armed' = Touched(Region)
          /\ wiped' = (wiped \/ \E r \in Region : Pending(r))
       \/ OpenWild /\ UNCHANGED <<other, armed, wiped>>
    /\ UNCHANGED <<setup, barrier, main, pc, buf, stored, oops>>

\* The loop of notify_memory stores its value as often as its argument says.
NotifyMemory ==
    /\ other = "notify_memory"
    /\ Store("mwmon_mmap_area", "notified")
    /\ stored' = IF UsesDevice THEN stored \cup {"mwmon_mmap_area"} ELSE stored
    /\ armed' = Touched({"mwmon_mmap_area"})
    /\ UNCHANGED <<setup, barrier, main, pc, buf, other, wiped, oops>>

\* kmem_mapper_test writes values of its own to the first ten bytes.
WriteTen ==
    /\ other = "kmem_mapper_test"
    /\ Store("mwmon_mmap_area", "other")
    /\ other' = "written"
    /\ armed' = Touched({"mwmon_mmap_area"})
    /\ wiped' = (wiped \/ Pending("mwmon_mmap_area"))
    /\ UNCHANGED <<setup, barrier, main, pc, buf, stored, oops>>

OtherExit ==
    /\ other # "idle"
    /\ other' = "idle"
    /\ Release("other")
    /\ UNCHANGED <<setup, barrier, history, main, pc, armed, buf>>

Other == OtherOpen \/ NotifyMemory \/ WriteTen \/ OtherExit

-----------------------------------------------------------------------------

Driver == DriverNext /\ UNCHANGED programVars

Next ==
    \/ Driver \/ Main \/ Other
    \/ \E t \in Thread : ThreadStep(t)
    \/ \E r \in Region : Interrupt(r)

\* The threads of a program and its main run.  Nothing loads the driver, opens
\* the device or interrupts a processor.
Fairness == WF_vars(Main) /\ \A t \in Thread : WF_vars(ThreadStep(t))

Spec == Init /\ [][Next]_vars

FairSpec == Spec /\ Fairness

-----------------------------------------------------------------------------

TypeOK ==
    /\ DriverTypeOK
    /\ users \subseteq {"main", "other"}
    /\ machine \in Machine
    /\ preempts \in BOOLEAN
    /\ program \in Program
    /\ main \in {"idle", "setup", "map", "create", "join", "end", "exit"}
    /\ pc \in [Thread -> {"none", "pin", "barrier", "wait", "sleep", "notify", "arm", "check",
                          "mwait", "reread", "reset", "done", "killed"}]
    /\ gathered \in 0 .. 3
    /\ flag \in BOOLEAN
    /\ armed \in [Region -> BOOLEAN]
    /\ buf \in Byte
    /\ pointer \in {"null", "live", "freed"}
    /\ result \in {0, -1}
    /\ other \in {"idle", "notify_memory", "kmem_mapper_test", "written"}
    /\ garbage \in BOOLEAN
    /\ stored \subseteq Region
    /\ wiped \in BOOLEAN
    /\ oops \in BOOLEAN

\* No sleep ends on the notification of an earlier run, of the other region,
\* or on none at all: the open of the device and mwmon_kernel_init see to
\* that.  Memory from malloc is as it comes, and only the program that
\* monitors such memory may wake before it was notified.
ReturnIsJustified ==
    \A t \in Sleeper :
        pc[t] \in {"reset", "done"} => AreaOf(t) \in stored \/ garbage

\* Nothing touches the memory of mwmon_kernel_init before it is there or after
\* mwmon_kernel_finalize freed it, nor is it freed twice; unless there was
\* none, and then the program was told so and went on.
KernelMemorySafe ==
    /\ oops => result = -1
    /\ pointer = "freed" => \A t \in Sleeper : ~InCall(t)

\* A sleeper whose processor is stopped, with the monitor still armed, has
\* nothing to wake for: its byte does not say notified, and its notifier is
\* still to come, unless another program has overwritten the notification.
NoNotificationSleptThrough ==
    \A t \in Sleeper \cap Threads :
        pc[t] = "mwait" /\ armed[AreaOf(t)] =>
            /\ Look(t) # "notified"
            /\ pc[t + 1] = "done" => wiped

\* Each thread has a processor of its own in the table of the machine.
EnoughCpus == \A t \in Threads : Listed(machine, t \div 2, t % 2)

\* Every program that has its threads going comes to its end: no notification
\* is slept through, whichever of the two comes first.  A program of which
\* another opened the device, or wrote to it, in between may not; nor, where the
\* kernel does not preempt, one that binds the notifier to the processor its
\* sleeper does not let go of.
RunEnds ==
    (main = "join" /\ (preempts \/ EnoughCpus)) ~> (main # "join" \/ wiped)

=============================================================================
