SPECIFICATION FairSpec
CONSTANTS
    t1 = t1 t2 = t2 t3 = t3
    Task = {t1, t2, t3}
    NoTask = NoTask
    Msg = {token}
    uxLength = 2
    Semaphore = TRUE
    Priority <- SharedPriority
    NumberOfTasks = 3
    Calls <- SemaphoreCalls
    IsrCalls = {"back", "receive"}
    MaxDelay = 3
    MaxPended = 1
INVARIANTS IInv UnlockedForTasks
PROPERTIES Refines CallReturns
