SPECIFICATION Spec
CONSTANTS
    Hosts = {h1, h2}
    None = None
    MaxConns = 1
    MaxCalls = 3
    MaxFrames = 0
    OverlappingCalls = TRUE
INVARIANTS
    StatusTrue
CHECK_DEADLOCK FALSE
