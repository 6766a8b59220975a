CONSTANT MaxFrames = 2
SPECIFICATION FairSpec
CHECK_DEADLOCK FALSE
PROPERTY FireAndForget
