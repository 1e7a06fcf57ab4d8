SPECIFICATION Spec
CONSTANTS
    MaxFrames = 3
    ChunkFrames = 2
    MaxEdits = 2
INVARIANTS
    ReadsTrue
    VerifiedIsTrue
    RepairSaves
    ConvertedWhole
CHECK_DEADLOCK FALSE
