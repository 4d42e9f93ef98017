CONSTANTS
    KnownKex <- MCKnownKex
    KnownCiphers <- MCKnownCiphers
    DefaultKex <- MCDefaultKex
    DefaultCiphers <- MCDefaultCiphers
    ChanSize = 1
    MaxPending = 1
    Threshold = 1
    Scenarios <- MCQuit
SPECIFICATION Spec

PROPERTY CloseWakesReader
CHECK_DEADLOCK FALSE
