SPECIFICATION Spec
CONSTANTS
    Words <- SomeWords
    ChannelLists <- SomeLists
    WantedLists <- AllOrOne
    Ports <- TwoPorts
    MaxSaid = 0
    MaxFrames = 1
    MaxStalls = 0
INVARIANTS
    FramesUnderstood
CHECK_DEADLOCK FALSE
