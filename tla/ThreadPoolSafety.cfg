SPECIFICATION Spec
CONSTANTS
    Workers = {w1, w2, w3}
    Jobs = {j1, j2, j3}
    Timers = {t1}
    MinCount = 1
    MaxCount = 2
    IdleTimeout = 1
    MaxDelay = 1
    NoTask = NoTask
SYMMETRY Symmetry
INVARIANTS
    TypeOK
    CurrentMatches
    IdleMatches
    CountBound
    TaskOnce
    AllStopped
PROPERTIES
    ServedUnlessTimerOrLeave
CHECK_DEADLOCK FALSE
