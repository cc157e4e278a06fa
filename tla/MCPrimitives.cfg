CONSTANT
    Syncs = 4

SPECIFICATION FairSpec

INVARIANTS
    TypeOK
    NotificationsAccountedFor

PROPERTIES
    LightEndsUnlessLost
    NotificationIsTaken

\* Both loops end; and a light thread whose notifications were lost waits.
CHECK_DEADLOCK FALSE
