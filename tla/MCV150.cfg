SPECIFICATION Spec
CONSTANTS
    Ends <- E
    Methods = {"REPETITION", "EXPLICIT_ACK"}
    Selects = {"INDETERMINATE", "MIXED"}
    Rfc4733 = TRUE
    Copies = 3
    Interval = 2
    N0 = 2
    T0 = 1
    T1 = 4
    CdTimeout = 5
    SprtDelays = {3}
    Sent <- SentPairs
    Signals = {"CM"}
    MaxSent <- MCMaxSent
    MaxSignals <- MCMaxSignals
    MaxSprt <- MCMaxSprt
    MaxLost = 1
    MaxLate <- MCMaxLate
    Backlog = 1
    Until = 2
INVARIANTS
    RepeatsAreCopies
    AnsweredOnce
    ResendIsTimed
PROPERTIES
    LastWordArrives
CHECK_DEADLOCK FALSE
