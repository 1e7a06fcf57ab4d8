SPECIFICATION Spec
CONSTANTS
    None = None
    Cap = 2
    MinGap = 2
    Gaps = {1, 2}
    MaxTs = 6
    MaxLap = 3
    LapInfoOnChange = FALSE
    GameRestarts = FALSE
    Faulty = FALSE
INVARIANTS
    TypeOK
    LapsExtractable
PROPERTIES
    ImplementsTape
