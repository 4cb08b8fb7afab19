SPECIFICATION MsgSpec
CONSTANTS
    QLen = 6
    Octet = {0, 1}
    Base = 2
    Messages <- ShortMessages
    ReadAtomic = TRUE
    WriteAtomic = TRUE
    MaxReq = 2
INVARIANTS
    Framing
PROPERTIES
    ReadMsgReturnsOldest
