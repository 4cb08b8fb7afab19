SPECIFICATION LiveSpec
CONSTANTS
    Caller = c
    Answerer = a
    Detect = TRUE
    Sender = {c}
    Stopper = {c}
    BusyApp = {a}
    K = 2
    Mod = 5
    N400 = 1
    CtrlFrames = 3
    InfoFrames = 3
    MaxMsgs = 2
    LineCap = 1
    MaxLoss = 1
    MayLose = {"I", "RR", "RNR", "REJ", "SABME", "DISC", "XID", "DM"}
    Prompt = TRUE
PROPERTIES
    StopEndsLink
    EverythingArrives
    ArrivesOrToldSo
CHECK_DEADLOCK FALSE
