CONSTANTS
    t1 = t1
    t2 = t2
    t3 = t3
    t4 = t4
    Thread <- MCFour
    Rounds = 1

SPECIFICATION FairSpec

INVARIANT
    NobodyLeavesEarly

PROPERTIES
    ImplementsBarrier
    EverybodyReturns

\* The threads have a fixed number of calls to make.
CHECK_DEADLOCK FALSE
