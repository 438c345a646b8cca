SPECIFICATION FairSpec
CONSTANTS
    Workers = {w1, w2}
    Jobs = {j1, j2}
    Timers = {t1}
    MinCount = 0
    MaxCount = 2
    IdleTimeout = 1
    MaxDelay = 1
    NoTask = NoTask
PROPERTIES
    TaskServed
    StopDrains
CHECK_DEADLOCK FALSE
