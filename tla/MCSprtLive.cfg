SPECIFICATION LiveSpec
CONSTANTS
    End = {"a", "b"}
    Chan = {1}
    Sender = {"a"}
    Window = 3
    MaxWindow = 3
    SeqSpace = 10
    First = 8
    MaxTries = 3
    MaxMsgs = 5
    NetCap = 3
    Duplicates = FALSE
    BusyApp = TRUE
    GiveUp = FALSE
INVARIANTS
    NothingLost
    NoStrandedMessage
PROPERTIES
    EverythingArrives
CHECK_DEADLOCK FALSE
