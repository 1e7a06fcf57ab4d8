SPECIFICATION Spec
CONSTANTS
    Hosts = {h1, h2}
    None = None
    MaxConns = 2
    MaxCalls = 1
    MaxFrames = 2
    OverlappingCalls = FALSE
INVARIANTS
    SequencePerFrame
CHECK_DEADLOCK FALSE
