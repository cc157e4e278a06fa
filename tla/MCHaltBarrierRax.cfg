CONSTANTS
    t1 = t1
    t2 = t2
    t3 = t3
    Thread <- MCTwo
    ConditionInRax = TRUE

SPECIFICATION HaltSpec

INVARIANT
    BackOnlyWhenReleased
