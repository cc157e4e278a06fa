CONSTANTS
    t1 = t1
    t2 = t2
    t3 = t3
    t4 = t4
    Thread <- MCTwo
    Rounds = 2

SPECIFICATION Spec

INVARIANT
    NobodyLeavesEarly

\* The threads have a fixed number of calls to make.
CHECK_DEADLOCK FALSE
