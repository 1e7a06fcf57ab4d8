SPECIFICATION Spec
CONSTANTS
    Conns = {c1}
    Patience = 3
    MaxUpdates = 2
INVARIANTS
    TypeOK
    HandshakeUndisturbed
    NoGhosts
PROPERTIES
    OnlySilentEvicted
    SilentEvicted
    StopEnds
CHECK_DEADLOCK FALSE
