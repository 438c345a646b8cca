SPECIFICATION FairSpec
CONSTANTS
    s1 = s1
    s2 = s2
    u1 = u1
    u2 = u2
    Procs = {p1, p2}
    Names = {s1, s2}
    Uris = {u1, u2}
    Configs <- TwoServices
    MaxGen = 2
    None = None
INVARIANTS
    NoDangling
    CountMatches
    ListenExact
PROPERTIES
    SocketKept
    OldDrain
    StopEnds
    Filled
    ReloadApplied
CHECK_DEADLOCK FALSE
