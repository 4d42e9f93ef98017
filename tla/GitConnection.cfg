SPECIFICATION Spec
CONSTANTS
    MaxOffers = 2
    MaxChunks = 1
    MaxFaults = 1
INVARIANT GitSessionNotCut
PROPERTY ConnectionReleased
