SPECIFICATION Spec
CONSTANTS
    Modules = {m1, m2}
    Keys = {k1}
    Groups = {g1}
    Threads = {t1, t2}
    NoThread = NoThread
    Nobody = Nobody
    MaxRegistrations = 2
    MaxPosts = 3
SYMMETRY Symmetry
INVARIANTS
    NoStaleClone
    DeliveredExactlyOnce
    SameOrder
PROPERTY NoLateDelivery
CHECK_DEADLOCK FALSE
