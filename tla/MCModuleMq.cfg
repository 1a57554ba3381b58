SPECIFICATION Spec
CONSTANTS
    Senders = {s1, s2}
    MaxSends = 2
    NoThread = NoThread
    UnregisterFirst = TRUE
INVARIANTS
    NoLostWakeup
    NoUseAfterFree
PROPERTIES
    ImplementsMailbox
    CleanupEnds
CHECK_DEADLOCK FALSE
