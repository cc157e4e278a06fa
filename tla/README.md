# htsynch in TLA+

htsynch puts two threads on the two hardware contexts of one processor and
makes them wait for each other as cheaply as possible: with a patched kernel
whose system calls stop a context with MONITOR/MWAIT or HLT, a driver that maps
the monitored page into the program, and hand-written spin locks and barriers
for comparison. What it has to get right is small and hard to test: a wake-up
that falls between a look and a sleep, an unlocked re-read, a barrier that is
used again before everybody has left it.

## Inventory

| Component (source) | State | Operations | What makes it correct |
|---|---|---|---|
| Spin locks (`mwait_barrier/synch.h`, `spin.c`, `spin.h`) | the lock word | five lock loops, one unlock store | exclusion; the word tells whether anybody is inside and does not drift; somebody gets in |
| Spin loops (`synch.h`) | the flag | `spin_on_condition`, `_cpuhalt`, `_ineq`, `_ineq_cpuhalt` | returns exactly when the condition holds |
| Spin barriers (`synch.h`) | count, flag, lock, a sense per thread | `spin_barrier_lsense`, `_cpuhalt`, `_cpuhalt_sendIPI`, `spin_barrier` | nobody leaves a round before all have come; everybody leaves; it can be used again |
| Spin barriers (`spin.c`, `spin.h`) | the same | `spin_barrier_lsense` all under the lock, `spin_barrier`, macros that halt through an ioctl | the same |
| mwait barrier (`mwait_barrier.c`) | lock, gathered, two mapped pointers | `mwait_barrier`, `mwait_barrier2` | the same, and no wake-up lost |
| Sleep system calls (patches) | the monitored byte of each region | `sys_mwmon_mmap_sleep`, `_sleep2`, `sys_mwmon_user_sleep`, `sys_mwmon_kernel_{init,sleep,notify,finalize}`, `sys_cpu_halt` | a notification at any moment wakes the sleeper, once |
| Inequality wait (2.6.13.1 patches) | a long in the page, the byte | `sys_mwmon_mmap_spin_while_greater` | returns when the condition holds |
| kmem_mapper (`kmem_mapper_module`) | the page, the device registration | init, open, mmap, release, exit | the page outlives its users; an open does not disturb them |
| Wake-up interrupts (`cpuctrl.h`; driver not in the repository) | the processor to wake | ioctls | - |
| Test programs (`test_primitives.c`, `thread_test_*.c`, `notify_memory.c`, `kmem_mapper_test.c`) | main and the threads' steps, the mapping, who has the device open | open, map, init, notify, sleep, barrier, finalize | a sleep ends on a notification of its own run; memory is touched while it is there; all threads come to the end |
| Barrier tests (`test_barriers*.c`) | the threads' loops | barrier | as the barriers |
| System call wrappers (`syscall_macros.h`) and topology (`cpu.c`) | the machine's table | trap, bind a thread | an error is told from a result; a thread gets a processor |
| Timers, scripts | none | measuring | not behaviour: left out |

The parts meet in shared memory and traps: the threads share lock words, counts
and flags; the program and the kernel share the mapped byte (the program stores
`MWMON_NOTIFIED_VAL`, the system call puts `MWMON_ORIGINAL_VAL` back); a store
to the monitored line is a message to the other processor; the barriers are
built on the locks, the mwait barrier on lock and system call, the tests on the
barriers. The driver owns the mapped page, and every program that opens its
device puts both regions back; the programs share it without knowing of each
other. The hard behaviours are therefore interleavings of single memory
accesses, the order of arm, look and sleep, interrupts that undo a monitor or
arrive too early, the re-use of a barrier, and a page whose life is governed by
one process and used by others. Nothing persists, so nothing recovers from a
crash, but the kernel does keep what a load of the driver that failed, or a
program that ended, left behind. `PROJECT.json` lists every hazard at its line.

## Modules

| Module | What it is |
|---|---|
| `Mutex` | what a lock promises: requested, acquired by one, released |
| `Barrier` | what a barrier promises: all wait, all are released at once, each leaves by itself; and its two liveness promises |
| `SpinWord` | the five locks as operations on the word: the locked attempt and the unlocked look |
| `SpinLock` | threads that lock and unlock; implements `Mutex` |
| `MwaitBarrier` | `mwait_barrier`, `sys_mwmon_mmap_sleep` and the monitor hardware, step by step; implements `Barrier` |
| `SynchBarrier` | `spin_barrier_lsense` of `synch.h`; implements `Barrier` (its safety) |
| `HaltBarrier` | the two halting barriers of `synch.h` and `sys_cpu_halt`: extends `SynchBarrier`, whose variables and actions up to the wait they share; implements `SynchBarrier` and so `Barrier` |
| `LSenseBarrier` | `spin_barrier_lsense` of `spin.c`, on `Mutex`; implements `Barrier`, with its liveness |
| `CentralBarrier` | `spin_barrier` of both files, on `Mutex`; implements `Barrier` when it is used once |
| `KmemMapper` | the kmem_mapper driver and the scripts that load and unload it, each of its steps with its failure |
| `Cpus` | the tables of the machines, and what a wrapper makes of a system call's result |
| `TestPrograms` | the four notification programs over `KmemMapper` and `Cpus`, with `notify_memory` and `kmem_mapper_test` beside them |
| `CounterWait` | waiting for a counter: the inequality loops and `sys_mwmon_mmap_spin_while_greater` |
| `Primitives` | the heavy and light loops of `test_primitives.c` over its four primitives |
| `MC*` | the instances for TLC |
| `*Proofs` | theorems and proofs of the module they are named for |

One action is one shared-memory access of the code, or one step of the hardware
or the kernel, with the control flow up to the next one; accesses to a thread's
own variables ride along. `++x` of an unlocked variable is a `Load` and a
`Store` through a register; a locked instruction is one action. `pc` names the
next access. A lock loop is `Try` (label 1) and `Spin` (the loop that only
reads, as a step back to label 1 that is enabled when the look succeeds). The
sleep system call is `Monitor`, `Check`, `Mwait`, `Wake`, `Recheck`, `Reset`;
`Recheck` may use the old value of the byte, because it is a plain `char` read
after an asm that clobbers no memory, while `Check` reads afresh, because
`local_irq_enable` before it does. `mwait` stops a processor only while its
monitor is armed; a store by another processor or an interrupt disarms it.
In `LSenseBarrier` a waiting thread may halt (`Halt`) after any look and goes on
at its next tick: that is `SPIN_BARRIER_LSENSE_HLT` and `_HLTCNT` of `spin.h`.

`TestPrograms` runs one program of the four again and again; `main` and `pc` are
the program points of main and of its threads, and the last three variables only
remember (`stored`: which regions this run notified; `wiped`: a notification was
overwritten before its sleeper saw it; `oops`: the kernel touched memory that is
not there). `KmemMapper` is a component without a specification of its own:
`TestPrograms` takes its steps (`DriverNext`) and calls its methods (`Open`,
`Release`, `Store`) in its own. `machine` is the one the program was built for, and `preempts` says whether
its kernel was built to preempt; a thread in its system call keeps its processor if
not.

In `CounterWait` the counter is the one that the second phase of
`thread_test_kmon_unot.c` counts in the page; `loop` is which wait a thread was
built with, and `why` is set by the test that ends a wait. The call and
`mwmon_mmap_sleep2`, which has its number on the other kernel, share their steps
(`Monitor`, `Check`, `Mwait`, `PutBack`), on the region `Area`.

Names that begin with `halt` or `Halt` (`HaltNext`, `haltVars`, `HaltSpec`) are
`HaltBarrier`'s, beside the inherited ones of the spinning barrier.

`sendIPI` in `HaltBarrier` and `kind` in `SpinLock` are which variant the program
calls, chosen once.

Definitions that nothing in `Next` uses and whose comment starts with "A wrong"
are deliberate errors: a run with one of them in the place of the right
definition violates the property `PROJECT.json` pairs it with.

## What is taken for granted

* Memory is sequentially consistent. On x86 stores are seen in order and a
  locked instruction drains the store buffer; where a plain store is followed
  by a read of another location (an unlock, then a spin), an early read only
  sees an older value, which the loop reads again.
* The compiler keeps each function's stores in source order. `current_count` is
  not volatile and `spin.c`'s unlock declares no memory clobber, so the language
  would allow otherwise.
* Each thread is bound to a processor of its own (`my_sched_setaffinity`).
* An mwait barrier has two threads: `mwait_barrier.c:19` says so, and its one
  byte and one reset would not do for more. `TwoThreads` is the assumption.
* A barrier is initialised for exactly its callers, of whom there are fewer
  than 2^31; the spin locks' word then cannot wrap (`WordBounded`).
* One of the notification programs runs at a time, one instance of it. Beside it
  there may be a `notify_memory` or a `kmem_mapper_test`.
* Of the kernel: a module with an open file is not unloaded (its operations name
  their `.owner`), an open of a module that is being unloaded fails, a module
  whose init fails is freed whatever it left registered.
* The kernel may preempt or not, and the run and the proofs take both. The patches
  for two packages have `CONFIG_PREEMPT=y` (`mwmon-2.6.13.1-twopackages.patch:30`,
  `mwmon-2.6.24.2-twopackages.patch:32`); the configuration that the first of them
  starts from had it off, and the patch for one package has no configuration.
  Where sleepers share a processor each keeps its `armed`; the processor has one
  monitor, which any switch undoes (`Interrupt`), so the model allows more.
* `kmalloc` returns memory on a cache line: `CONFIG_DEBUG_SLAB` is not set
  (`mwmon-2.6.13.1-twopackages.patch:47`). The pointer that `my_kmalloc_align`
  rounds up is then the one allocated, which `sys_mwmon_kernel_finalize` frees; with
  slab debugging it would not be.
* The kernel for one package has no `mwmon_mmap_area2`, which `kmem_mapper.c` sets:
  it goes with an older driver. `CounterWait` keeps it, as it is the one whose
  number 263 is the inequality wait; the page and the byte are used in the same way.
* A first byte that `malloc` returns is any byte.
* System call 256 is `cpu_halt`, as on the 2.6.13.1 kernel. On the 2.6.24.2 one
  `cpu_halt` is 286 and 256 is another call: the loop then spins without halting.
* In `LSenseBarrier` and `CentralBarrier` the lock is the abstract `Mutex`.
  `SpinLockImplementsMutex` justifies that for safety; for liveness those modules
  assume less than `SpinLock` has: that the lock, when it stays free, is taken.
* In `Primitives` the condition of the halting loop is the literal
  `NOTIFIED_VALUE`, inlined by `-O2` (`Makefile.xeon`), so it is in no register.

## Runs

| Run | Question | Bounds, and why they are enough |
|---|---|---|
| `spin_lock` | Do all five locks exclude, keep an honest word, implement `Mutex`, and let somebody in? | 3 threads: one leaves, one enters, one still has an old attempt |
| `mwait_barrier` | Is it a barrier, is no wake-up lost or stale, does every round end, under interrupts at any moment? | the 2 threads the code allows; unbounded rounds |
| `synch_barrier` | Does `synch.h`'s barrier ever let a thread out early? | 4 interchangeable threads (symmetry, safety only): two find the count full, one arrives between their stores, one has not left |
| `synch_barrier_loop` | Can it be used in a loop? **No** | 2 threads suffice |
| `halt_barrier` | Does halting change anything? Does a released thread return, also after a lost interrupt? | 3 threads: one sends, one is halted, one is about to halt |
| `halt_barrier_rax` | And if the build keeps the condition in `rax`? **It leaves early** | 2 threads |
| `lsense_barrier` | Is `spin.c`'s barrier safe and live in a loop? | 3 threads: one counts, one is leaving, one is at the lock; unbounded rounds |
| `central_barrier` | Is the barrier without local sense a barrier when used once, and does everybody return? | 4 threads, `Rounds = 1`, both initial flags |
| `central_barrier_twice` | And twice? **It leaves early** | 2 threads, `Rounds = 2` |
| `primitives` | Are notifications lost other than by falling together? | `Syncs = 4`: fall together, be taken, and again |
| `test_programs` | What does each sleep end on, whose memory is touched, is a notification slept through, does every run end, while the driver comes and goes and fails and another program opens the device? | all four programs, run without end, two regions, one other process; two packages of two siblings (`CPU_XEON`), one of two (`CPU_CORE_SINGLE`: the second pair of threads has no processor of its own), two of one (`CPU_P6`: both threads of a pair on one); a kernel that preempts and one that does not |
| `counter_wait` | Does a wait for a counter end when, and only when, it may? | 2 waiters, on any loop or the call, on either 2.6.13.1 kernel; `Final = 2`: the counter can be below, at and past a condition; the page holds any value from -1 to `Final + 1` before, below and beyond every condition |

The type invariants of `CentralBarrier`, `TestPrograms` and `CounterWait` are proved and
not among the runs' properties.

State spaces are finite without constraints; only `Rounds` and `Syncs` bound
anything, as guards on the number of calls (`Final` is the program's own limit, 20
there), and deadlock is checked except where
a program can really stop (`synch_barrier`, `central_barrier*`, `primitives`).

What the runs with a violation show (`findings` in `PROJECT.json`):

* `SuccessiveCallsDoNotBlock`: `spin_barrier_lsense` increments with a locked
  instruction and then reads the count again to see whether it was last. Two
  threads can both find it full; the slower one's reset erases an arrival of
  the next round, and all spin for ever. It never lets a thread out early
  (`ImplementsBarrier`), which is proved.
* `NobodyLeavesEarly`: `spin_barrier` does the same re-read after the unlock; the
  slower thread's `release_flag = 1` lets a thread out of the next round.
* `BackOnlyWhenReleased`: the halting loop overwrites `rax` without saying so.

What the properties of `test_programs` and `counter_wait` have to leave out is as telling:

* `ReturnIsJustified` excuses `garbage`: `thread_test_umon_unot` never sets the memory
  it monitors to the original value, so its sleep may end at once.
* `KernelMemorySafe` excuses `result = -1`: `thread_test_kmon_knot` does not look at
  what `mwmon_kernel_init` returned.
* `PageOutlivesItsUsers` excuses `leftover`: an init that fails after `cdev_add`
  leaves the device registered, and a node from elsewhere then leads an open to
  no page.
* `RunEnds` excuses `wiped`, as any open of the device erases a notification that is
  not yet seen, and, on a kernel that does not preempt, a machine whose table has
  no processor for a thread (`EnoughCpus`): a zero in the table binds the notifier
  beside its sleeper, which does not let the processor go.
* `WaitEnds` asks a loop's counter to go past the condition, or to have stopped before
  the loop is entered (`ComesLate`), since the loop exits on `>=` at its first test
  and on `>` later, and asks the call to be on the kernel for
  one package: on the one for two, number 263 is `mwmon_mmap_sleep2`.
* `ReturnsJustified` says nothing of a notification: the system call takes one for
  its condition, and puts the byte back also when it was somebody else's. Nor does it
  of a return on what the page held before the program set the counter.

More that the models made plain, for which no violation run is kept. Two are
disagreements between a comment and its code. `if ( spin_var >= condition_val )
{ exit; }`, say `synch.h:159` and the comments of its siblings, but a loop that has not
left at its first look goes on while the two are equal (`synch.h:168`), so that a
thread that waits for the last value spins for ever: `WaitEnds` without `ComesLate`
and `cond[w] < Final` fails. The same is said of the system call
(`mwmon-2.6.13.1-onepackageonly.patch:450`), which also returns on a notification
(line 479): `why[w] = "notification"` is reached with the counter short of the
condition. Further, the comment "This time we must succeed" in the exchange lock
(`synch.h:134`) is not true under contention, but nothing depends on it; a
halting thread that misses its interrupt waits for a timer tick; and the light
thread of `test_primitives` may wait for ever once notifications have fallen
together or a signal found nobody (and, says `LightEndsUnlessLost`, only then).

## Fairness

Weak fairness of each thread's own steps while it is inside an operation: it
has its processor. None on calling a lock or barrier (`Call`, `Arrive` from
"work"): no program promises to. None on `Interrupt` and `CvSpurious`: they may
never come. Weak fairness of `Tick`: a halted processor gets the kernel's timer
interrupt. Weak fairness of a thread waiting for a lock says only that it is not
passed over for ever while the lock stays free, which is why `LockProgress`
promises that somebody gets in and no thread in particular. In `Primitives` the
two loops run to their ends, which the program does make them do. In
`TestPrograms` main and each thread run, one that shares its processor too once the
other is out of its call or the kernel preempts it (`Runs`); the driver's steps, the opens and stores
of other processes and the interrupts are left free, so that `RunEnds` holds
without any of them. In `CounterWait` the counting thread counts to the end and a
processor has its timer ticks, on which the halting loops and the system call
depend, since nothing stores to the line it monitors; nobody need notify.

## Proofs

Eight modules are proved about with TLAPS, for every finite set of threads
(`MwaitBarrier` for its two, `Primitives` for every `Syncs`, `TestPrograms` for any
machines, either width and either kind of kernel (`preempts`), `CounterWait` for any waiters
and any `Final`); all are of the form
`Init => IInv`, `IInv /\ [Next]_vars => IInv'`, and consequences of `IInv`, with a
lemma per action or group of actions.

* `SpinLockProofs`: type, exclusion, honest word, bounded word, and that the
  locks implement `Mutex`. Exclusion alone is not inductive: a thread gets in
  because of what the word says, so `IInv` adds that the word looks free exactly
  when nobody is inside, and that it is below 1 by no more than the attempts
  still spinning.
* `MwaitBarrierProofs`: every safety property of the run and the refinement of
  `Barrier`. `IInv` speaks of the pair of threads: where one can be given where
  the other is and what the byte says (`PhaseInv`), the lock word (`LockInv`), the
  exact count (`CountInv`), and that nobody stops armed after the notification
  (`WakeInv`).
* `SynchBarrierProofs`: for the spinning and for the halting barriers of `synch.h`:
  type, the refinement of `Barrier`, and of the spinning ones that the count never
  overstates and a release is justified, of the halting ones
  `BackOnlyWhenReleased` and the refinement of the spinning one. One `IInv` does for
  both, since the program points of the halt are only further ways to wait
  (`Passive`): a thread outside has the sense of the last release, and the count is
  zero when the flag is about to turn. The theorems about halting assume
  `ConditionInRax = FALSE`; the violation run shows that they need to.
* `LSenseBarrierProofs`: exact count, nobody left behind, and the refinement.
  `IInv` adds who holds the lock, that a thread which has not yet done its part
  has the next sense, and that the last arrival has everybody else spinning.
* `CentralBarrierProofs`: for `Rounds = 1` and either initial flag, type,
  `NobodyLeavesEarly`, the refinement of `Barrier`, and that the threads are never all
  waiting for a flag nobody is left to set (`NobodyLeftBehind`, the safe half of
  `EverybodyReturns`). `IInv` speaks of the set `Counted`: while somebody is missing
  from it, the count is its cardinality, the flag is clear from the first count
  on and nobody has found the count full (`GatherInv`); once nobody is missing,
  nothing clears the flag or counts any more, and whoever is to set it is between
  the store of the count and the store of the flag (`ReleaseInv`). `LockInv` is the
  part that the lock gives. The run with two rounds shows where `Rounds = 1` is
  needed: a late `Flip` meets the next round's `Clear`.
* `PrimitivesProofs`: types, the account of the notifications, and that only a lost
  one makes both loops stop before their end (`StopsOnlyIfLost`, the safe half of
  `LightEndsUnlessLost`). `IInv` adds that whatever the light thread is about to reset
  is a notification, and which program points belong to which primitive;
  `WaitInv` that an armed processor stops only on a word with no notification, who
  holds the mutex of the condition variable, and that each signal was lost or
  ended a wait.

* `TestProgramsProofs`: types and the four safety properties of its run. `DriverInv`
  says in which of the driver's steps the node, the device and the page are there;
  every other step is shown to affect the driver only as `Effect` allows. On top
  of it `ProgramInv` adds that a program has the device open from its open to its
  exit, so that the driver stays in (`HoldInv`), that threads are between
  `pthread_create` and `pthread_join` (`ThreadInv`), that memory of the kernel is live
  from init to finalize or init has said -1 (`PointerInv`), and that a notification
  a sleeper could see was stored in this run (`NotifiedInv`). `SleepInv` is the two
  halves of `NoNotificationSleptThrough`: what a notifier has stored stays until its
  sleeper has seen it or `wiped` says otherwise, and a sleeper stops armed only with
  nothing stored. `RunInv` adds what the barrier of the two-region program has
  counted (`BarrierInv`) and who may be where (`PlaceInv`); from these and the tables
  of the machines (`CpusApart`) follows `RunGoesOn`, the safe half of `RunEnds`: there
  is always a thread that is not through and waits for nobody.
* `CounterWaitProofs`: types, the range of the counter once the program has set it,
  and `ReturnsJustified`. `IInv` adds that a wait ended on the
  program's counter only after the program had set it, after which it only grows
  (`CounterGrows`).

The only assumptions on constants are the `ASSUME`s of the modules, which every
run evaluates, and the hypotheses named above, each with the run that breaks the
property without it. Every invariant and every refinement that a passing run
checks is proved. The liveness properties (`LockProgress`, `BarrierLive`,
`EverybodyReturns`, `ReleasedThreadReturns`, `LightEndsUnlessLost`,
`NotificationIsTaken`, `RunEnds`, `WaitEnds`) and the three violations are
model-checked only: liveness and ENABLED are beyond the prover. Of five of them a
safe half is proved, as a predicate on states: `NoSleepThroughNotify` and
`LSenseBarrier`'s `NobodyLeftBehind` for the two `BarrierLive`s, which runs check too,
and `CentralBarrier`'s `NobodyLeftBehind`, `StopsOnlyIfLost` and `RunGoesOn`, which are
stated in the proof modules and follow, in the runs, from the liveness
properties.

## Not modelled, and why

* The timers, the scripts that collect results and the results: they measure.
* The main functions of the barrier tests and of `test_primitives`, which open and
  map the device as the programs in `TestPrograms` do, and the arithmetic that
  passes time in their loops. `test_mwait.c` and `test_hlt.c` are one system call
  each, made by hand.
* The ioctls of `cpuctrl.h`: their driver is not in the repository. The macros of
  `spin.h` that halt through one are `LSenseBarrier`'s `Halt` and `CounterWait`'s.
* `mwait_barrier2` and `sys_mwmon_mmap_sleep2`: `MwaitBarrier` with other variables.
* Of the system call wrappers, errno and the trap; of `cpu.c`, the clock rate in
  `/proc/cpuinfo`.
* The counting phase of `thread_test_kmon_unot_2regions.c`: it is compiled for the
  2.6.13.1 kernel only, where the sleep of the second region that the same program
  takes (line 74) is not declared.
* Two hazards are outside the models: what a compiler may move past `spin.c:82`'s
  unlock, which is below their level, and a halting loop on a kernel where its
  number is another call (`synch.h:186`). Eight more are in the models and have no
  property, because the code is exposed to them as it stands:
  they are what the properties excuse (the list above), and their notes in
  `PROJECT.json` say under which name.
* Memory from `kmalloc` that is not aligned, and an older driver for the kernel for
  one package: see above.

## Plan

Done, in this order: locks, mwait barrier, `synch.h` barrier, `spin.c` barrier,
barrier without local sense, halting barriers, primitives, the driver and the
programs over it, the waits for a counter, and then the proofs of all
invariants and refinements. Next:

1. Two `MwaitBarrier`s over the two regions of one page
   (`test_barriers_2packages.c`), and that neither wakes or resets the other.
2. The safe half of `LockProgress` and of `WaitEnds`, as `RunGoesOn` is that of
   `RunEnds`.
