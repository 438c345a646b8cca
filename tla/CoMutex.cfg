SPECIFICATION FairSpec
CONSTANTS
    Co = {c1, c2, c3}
    Mutexes = {m1, m2}
    Conds = {v1}
    None = None
INVARIANTS
    TypeOK
    MutualExclusion
    OnePlace
    ExitReleasesListed
PROPERTIES
    ImplementsFifoLock
    LockGranted
CHECK_DEADLOCK FALSE
