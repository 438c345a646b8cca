SPECIFICATION Spec
CONSTANTS
    Size = 3
    MaxByte = 11
    MaxChunk = 7
    MaxCint = 2
    Final = {3, 5, 8, 11}
PROPERTIES
    ImplementsByteFifo
    FlushSendsAll
    ReadsExact
CHECK_DEADLOCK FALSE
