SPECIFICATION Spec
CONSTANTS
    low = low mid = mid high = high top = top inner = inner outer = outer
    Task = {low, mid, high, top}
    Idle = Idle
    Mutex = {inner, outer}
    NULL = NULL
    uxBasePriority <- Priorities
    Uses <- MutexUses
    Nests <- NestsInner
    Careless = {mid}
INVARIANT UnlockReturns
