SPECIFICATION FairSpec
CONSTANTS
    S = S
    R = R
    Doc <- ThreeBlocks
    EndSteps = {"EOP", "EOM"}
    EcmFrames = 2
    MaxTries = 3
    PprLimit = 2
    Fallbacks = 1
    Mod = 2
    NotReady = 1
    CommandRepeat = FALSE
    TDropped = 2
    TFlagged = 3
    T4 = 4
    T2 = 8
    T1 = 14
    T0 = 20
    Lossy = {"FCD", "RCP", "PPS", "MCF", "PPR", "RNR", "RR", "CTC", "CTR", "EOR", "ERR", "DCN", "DIS", "carrier"}
    MaxLoss = 3
INVARIANTS
    DeliveredInOrder
    LockStep
    GoodEndMeansWhole
PROPERTIES
    CallEnds
    WholeDocumentArrives
CHECK_DEADLOCK FALSE
