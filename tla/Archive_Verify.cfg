SPECIFICATION Spec
CONSTANTS
    MaxFrames = 1
    ChunkFrames = 2
    MaxEdits = 0
INVARIANTS
    RecordingsVerify
CHECK_DEADLOCK FALSE
