SPECIFICATION FairSpec
CONSTANTS
    Task = {a, b}
    NULL = NULL
    Wrap = 4
    OverflowWrap = 2
    Thousand = 3
    configTICK_RATE_HZ = 3
    Seconds = {1}
    Microseconds = {1}
    BlockTimes = {2, 3}
    MaxPended = 1
    MaxLag = 2
INVARIANTS TypeOK OnTime NeverEarly SwitchesEmpty EventReaches IInv
PROPERTY TimedReturns
