SPECIFICATION Spec
CONSTANTS
    QLen = 4
    Octet = {0, 1}
    ReadAtomic = FALSE
    WriteAtomic = FALSE
    MaxReq = 3
INVARIANTS
    QueueInv
    NoOverlap
PROPERTIES
    FifoRefinement
