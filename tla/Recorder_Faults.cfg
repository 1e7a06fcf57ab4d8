SPECIFICATION FairSpec
CONSTANTS
    None = None
    Cap = 2
    MinGap = 2
    Gaps = {1, 2}
    MaxTs = 5
    MaxLap = 2
    LapInfoOnChange = TRUE
    GameRestarts = FALSE
    Faulty = TRUE
INVARIANTS
    EveryFrameAccounted
    LapsContiguous
    PitInLapsTrue
    StopMeansSaved
PROPERTIES
    StopTerminates
    PastIsFixed
