SPECIFICATION Spec
CONSTANTS
    Caller = c
    Answerer = a
    Detect = FALSE
    Sender = {c}
    Stopper = {}
    BusyApp = {}
    K = 2
    Mod = 5
    N400 = 0
    CtrlFrames = 2
    InfoFrames = 3
    MaxMsgs = 6
    LineCap = 1
    MaxLoss = 1
    MayLose = {"I", "RR", "RNR", "REJ", "SABME", "DISC", "XID", "DM"}
    Prompt = FALSE
INVARIANTS
    NumbersFollowFrames
    NothingSkipped
    AckedWasDelivered
    AlwaysTimed
CHECK_DEADLOCK FALSE
