SPECIFICATION Spec
CONSTANTS
    Hosts = {h1, h2}
    None = None
    MaxConns = 2
    MaxCalls = 4
    MaxFrames = 1
    OverlappingCalls = FALSE
INVARIANTS
    TypeOK
    StatusTrue
    ServedAreRegistered
PROPERTIES
    SilentWhenStopped
    CallsEnd
CHECK_DEADLOCK FALSE
