SPECIFICATION Spec
CONSTANTS
    Width = 8
    MaxBurst = 2
    MaxFrames = 5
    MaxCalls = 3
    MaxFlips = 3
    MaxDelay = 4
INVARIANTS
    LossesExact
    BroadcastAsReceived
    StateHonest
PROPERTIES
    CallsEnd
    Reconnects
CHECK_DEADLOCK FALSE
