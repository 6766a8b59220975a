\* A frame limit of 2, a message limit of 2: three parts of 1 are too many.
SPECIFICATION SessionSpec
CONSTANTS
    MaxFrames = 3
    ClientFrames <- SomeFrames
    MaxFrameBytes = 2
    MaxMessageBytes = 2
    MaxControlBytes = 2
    MaxReads = 4
CHECK_DEADLOCK FALSE
INVARIANTS WireInOrder NothingLost MessagesExact CallbackOrder
PROPERTIES ChainRespected SendsReturn
