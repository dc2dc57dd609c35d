SPECIFICATION FairSpec
CONSTANTS
    Lengths = {64, 1000}
    MaxFrames = 3
    PoolSize = 1
    BufSize = 1516
    MaxInput = 1
    DropBuf = 64
PROPERTIES
    FrameTaken
CHECK_DEADLOCK FALSE
