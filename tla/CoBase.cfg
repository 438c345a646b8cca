SPECIFICATION FairSpec
CONSTANTS
    Co = {c1, c2, c3}
    Self = Self
    Threads = {b1}
    Limit = 1
    None = None
INVARIANTS
    NeverForgotten
    NoFreedRuns
    NoLostWakeup
PROPERTIES
    Resumes
CHECK_DEADLOCK FALSE
