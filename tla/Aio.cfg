SPECIFICATION FairSpec
CONSTANTS
    Aios = {a1, a2}
    Main = a1
    Ev = Ev
    None = None
    MaxRx = 1
    Wants <- MCWants
    Timed = {a1}
    Ops <- MCOps
    Careful = TRUE
INVARIANTS
    LinkedOnce
    Found
    NoLostTouch
PROPERTIES
    CompletesOnce
    OpCompletes
    LoopStops
CHECK_DEADLOCK FALSE
