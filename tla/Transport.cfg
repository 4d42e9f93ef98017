CONSTANTS
    KnownKex <- MCKnownKex
    KnownCiphers <- MCKnownCiphers
    DefaultKex <- MCDefaultKex
    DefaultCiphers <- MCDefaultCiphers
    ChanSize = 1
    MaxPending = 1
    Threshold = 1
    Scenarios <- MCScenarios
SPECIFICATION Spec
INVARIANTS KeysInStep PacketsInOrder RekeyHasCause
PROPERTY Settles
CHECK_DEADLOCK FALSE
