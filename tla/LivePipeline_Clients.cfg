SPECIFICATION Spec
CONSTANTS
    Clients = {c1, c2}
    MaxFrames = 2
    MaxRecordings = 0
    MaxLap = 1
    Idle = Idle
    Gone = Gone
PROPERTIES
    HealthyClientsStay
    TasksEnd
CHECK_DEADLOCK FALSE
