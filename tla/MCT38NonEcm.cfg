SPECIFICATION Spec
CONSTANTS
    W = 2
    Z = 3
    Ring = 9
    MinBits = 8
    MaxGiven <- Bursts
    MaxIdle = 1
    MaxBursts = 2
INVARIANTS
    PlaysWhatWasGiven
PROPERTIES
    Drains
CHECK_DEADLOCK FALSE
