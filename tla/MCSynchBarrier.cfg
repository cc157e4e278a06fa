CONSTANTS
    t1 = t1
    t2 = t2
    t3 = t3
    t4 = t4
    Thread <- MCFour

SYMMETRY MCSymmetry

SPECIFICATION Spec

INVARIANTS
    TypeOK
    CountNeverOverstates
    ReleaseIsJustified

PROPERTY
    ImplementsBarrier

\* The program can stop: MCSynchBarrierLoop shows where.
CHECK_DEADLOCK FALSE
