SPECIFICATION FairSpec
CONSTANTS
    Calls <- MCCalls
    Preamble = 8
    CrcLen = 2
    Trail = 2
    Gap = 2
    StartLevel = 8
    Bufs = 5
    SeqSpace = 16
    SeqOffset = 5
    FirstSeq = 9
    Jitter = 1
    MaxLost = 1
    MaxRepeated = 1
INVARIANTS
    GoodFrameIsWhole
    InOrderOnce
PROPERTIES
    DamageIsLocal
    FallsSilent
CHECK_DEADLOCK FALSE
