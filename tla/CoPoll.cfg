SPECIFICATION FairSpec
CONSTANTS
    Co = {c1, c2}
    Fds = {f1, f2}
    None = None
    MinEvents = 1
    MaxEvents = 2
INVARIANTS
    WokenOnce
    ReportsOnlySeen
PROPERTIES
    TimeoutHonest
    PollReturns
