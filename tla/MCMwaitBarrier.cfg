CONSTANTS
    worker = worker
    waiter = waiter
    Thread <- MCThread
    init_count = 2

SPECIFICATION FairSpec

INVARIANTS
    TypeOK
    CountExact
    RoundsDoNotOverlap
    NotificationHasReader
    NoSleepThroughNotify

PROPERTIES
    ImplementsBarrier
    BarrierLive
