SPECIFICATION Spec
CONSTANTS
    Clients = {c1}
    MaxFrames = 3
    MaxRecordings = 1
    MaxLap = 1
    Idle = Idle
    Gone = Gone
INVARIANTS
    RecorderSeesReader
CHECK_DEADLOCK FALSE
