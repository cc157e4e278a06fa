-------------------------------- MODULE Cpus --------------------------------
(***************************************************************************)
(* cpu.c and the system call wrappers of syscall_macros.h, as the test      *)
(* programs use them: the table of the machine a program was built for,     *)
(* the processor a thread is bound to, and what a program is told of the    *)
(* result of a system call.                                                *)
(***************************************************************************)
EXTENDS Integers

\* cpus.pk[p].sib[s].cpu_number for each machine: the packages, and in each
\* the siblings, that its initializer lists.
cpus ==
    [CPU_XEON        |-> << <<0, 2>>, <<1, 3>> >>,
     CPU_CORE        |-> << <<0, 1>>, <<2, 3>> >>,
     CPU_CORE_SINGLE |-> << <<0, 1>> >>,
     CPU_AMD         |-> << <<0, 1>>, <<2, 3>> >>,
     CPU_P6          |-> << <<0>>, <<1>> >>]

\* Sibling s of package p is in the table of the machine.
Listed(machine, p, s) ==
    /\ p + 1 \in DOMAIN cpus[machine]
    /\ s + 1 \in DOMAIN cpus[machine][p + 1]

\* The arrays of cpus_t have MAX_PACKAGES and MAX_SIBLINGS elements, and what
\* an initializer does not list is 0.
cpu_number(machine, p, s) ==
    IF Listed(machine, p, s) THEN cpus[machine][p + 1][s + 1] ELSE 0

\* The results that __syscall_return takes for errors.
ErrorResults(CPU_BITS) == IF CPU_BITS = 32 THEN -129 .. -1 ELSE -127 .. -1

\* What a _syscallN wrapper returns when the kernel returned res.
Wrapped(CPU_BITS, res) == IF res \in ErrorResults(CPU_BITS) THEN -1 ELSE res

ENOMEM == 12

=============================================================================
