SPECIFICATION Spec
CONSTANTS
    Task = {a, b}
    NULL = NULL
    Wrap = 4
    OverflowWrap = 2
    Thousand = 3
    configTICK_RATE_HZ = 3
    Seconds = {2}
    Microseconds = {1}
    BlockTimes = {2, 3}
    MaxPended = 1
    MaxLag = 2
INVARIANT SleepLasts
