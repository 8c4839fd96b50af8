SPECIFICATION WireSpec
CHECK_DEADLOCK FALSE
CONSTANTS
    MaxBuffer = 7
    ReadSize = 3
    Lengths = {0, 2, 3, 4, 9}
    MaxFrames = 4
INVARIANTS OnlyWhatWasSent OnlyLongFramesLost
PROPERTIES ImplementsChannel
