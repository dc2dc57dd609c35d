SPECIFICATION FairBurstSpec
CONSTANTS
    Lengths = {66, 68, 1000}
    MaxFrames = 4
    PoolSize = 2
    BufSize = 1516
    MaxInput = 1
    DropBuf = 64
INVARIANTS IInv BurstKept MaskedWhileDraining PoolConserved
PROPERTIES FrameServed
CHECK_DEADLOCK FALSE
