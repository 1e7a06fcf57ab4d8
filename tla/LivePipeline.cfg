SPECIFICATION Spec
CONSTANTS
    Clients = {c1}
    MaxFrames = 3
    MaxRecordings = 2
    MaxLap = 2
    Idle = Idle
    Gone = Gone
INVARIANTS
    TypeOK
    SavedLapsContiguous
    SavedAsStopped
CHECK_DEADLOCK FALSE
