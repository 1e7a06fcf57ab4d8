SPECIFICATION Spec
CONSTANTS
    Words <- SomeWords
    ChannelLists <- SomeLists
    WantedLists <- AllOrOne
    Ports <- TwoPorts
    MaxSaid = 2
    MaxFrames = 0
    MaxStalls = 2
INVARIANTS
    MessagesInOrder
CHECK_DEADLOCK FALSE
