SPECIFICATION FairSpec
CONSTANTS
    S = S
    R = R
    Doc <- ThreePages
    Fallbacks = 1
    Capable = {TRUE, FALSE}
    MaxTries = 3
    CommandRepeat = FALSE
    TDropped = 2
    TFlagged = 3
    T4 = 4
    T2 = 8
    T1 = 14
    T0 = 20
    Lossy = {"DIS", "DCS", "CFR", "FTT", "MPS", "EOM", "EOP", "MCF", "RTP", "RTN", "DCN", "TCF", "IMAGE", "carrier"}
    MaxLoss = 3
INVARIANTS
    InOrderOnce
    CountsAgree
    GoodEndMeansWhole
PROPERTIES
    CallEnds
    WholeDocumentArrives
CHECK_DEADLOCK FALSE
