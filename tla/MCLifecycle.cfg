SPECIFICATION Spec
CONSTANT MayFail <- AllButDev
INVARIANTS
    ServicesOutliveUsers
    UsableOutsideWindows
PROPERTY ShutdownEnds
CHECK_DEADLOCK FALSE
