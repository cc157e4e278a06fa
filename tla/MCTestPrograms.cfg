CONSTANTS
    Machine <- MCMachine
    CPU_BITS = 64

SPECIFICATION FairSpec

INVARIANTS
    PageOutlivesItsUsers
    ReturnIsJustified
    KernelMemorySafe
    NoNotificationSleptThrough

PROPERTIES
    RunEnds
