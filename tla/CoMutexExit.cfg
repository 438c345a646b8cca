SPECIFICATION Spec
CONSTANTS
    Co = {c1, c2}
    Mutexes = {m1}
    Conds = {v1}
    None = None
INVARIANTS
    ExitReleasesAll
CHECK_DEADLOCK FALSE
