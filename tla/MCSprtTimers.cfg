SPECIFICATION Spec
CONSTANTS
    Chan = {1}
    Window = 3
    MaxTries = 2
    TA01 = 2
    TA02 = 4
    TR03s = {3}
    MaxLate = 0
    MaxTime = 9
INVARIANTS
    ListOfUnacked
    CallbackCoversTimers
    OnTime
CHECK_DEADLOCK FALSE
