SPECIFICATION Spec
CONSTANTS
    End = {"a", "b"}
    Chan = {1}
    Sender = {"a"}
    Window = 3
    MaxWindow = 3
    SeqSpace = 10
    First = 8
    MaxTries = 2
    MaxMsgs = 3
    NetCap = 2
    Duplicates = TRUE
    BusyApp = FALSE
    GiveUp = FALSE
INVARIANTS
    SameNumberAgain
PROPERTIES
    ReliableChannel
CHECK_DEADLOCK FALSE
