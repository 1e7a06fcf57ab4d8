SPECIFICATION Spec
CONSTANTS
    Words <- SomeWords
    ChannelLists <- SomeLists
    WantedLists <- AllOrOne
    Ports <- TwoPorts
    MaxSaid = 2
    MaxFrames = 2
    MaxStalls = 1
INVARIANTS
    MessagesInOrder
    HandshakeAgreed
    FramesTrue
CONSTRAINT FewAtOnce
CHECK_DEADLOCK FALSE
