CONSTANTS
    w1 = w1
    w2 = w2
    Waiter <- MCWaiter
    Final = 2

SPECIFICATION FairSpec

INVARIANTS
    ReturnsJustified

PROPERTIES
    WaitEnds
