CONSTANTS
    t1 = t1
    t2 = t2
    t3 = t3
    Thread <- MCThree
    ConditionInRax = FALSE

SPECIFICATION HaltFairSpec

INVARIANTS
    HaltTypeOK
    BackOnlyWhenReleased

PROPERTIES
    ImplementsSpinBarrier
    ReleasedThreadReturns
