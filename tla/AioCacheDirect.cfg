SPECIFICATION DirectSpec
CONSTANTS
    Size = 2
    MaxByte = 7
    MaxChunk = 3
    MaxCint = 2
    Final = {3, 5}
PROPERTIES
    FlushSendsAll
CHECK_DEADLOCK FALSE
