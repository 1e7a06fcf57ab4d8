SPECIFICATION FairSpec
CONSTANTS
    None = None
    Cap = 2
    MinGap = 2
    Gaps = {1, 2}
    MaxTs = 4
    MaxLap = 2
    LapInfoOnChange = FALSE
    GameRestarts = FALSE
    Faulty = TRUE
PROPERTY EveryStopReturns
