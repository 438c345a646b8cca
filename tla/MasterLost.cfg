SPECIFICATION FairSpec
CONSTANTS
    s1 = s1
    s2 = s2
    u1 = u1
    u2 = u2
    Procs = {p1, p2}
    Names = {s1}
    Uris = {u1}
    Configs <- OneService
    MaxGen = 2
    None = None
PROPERTIES
    ReloadNeverLost
CHECK_DEADLOCK FALSE
