SPECIFICATION PipeSpec
CONSTANTS
    c1 = c1
    s1 = s1
    c2 = c2
    s2 = s2
    Aios = {c1, s1, c2, s2}
    Clients = {c1, c2}
    Partner <- MCPartner
    Ev = Ev
    None = None
    MaxRx = 1
    Wants <- MCWants
    Timed = {}
INVARIANTS
    Found
CHECK_DEADLOCK FALSE
