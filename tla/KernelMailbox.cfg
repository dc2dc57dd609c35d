SPECIFICATION Spec
CONSTANTS
    t1 = t1 t2 = t2 t3 = t3
    Task = {t1, t2, t3}
    NoTask = NoTask
    Msg = {a, b}
    uxLength = 2
    Semaphore = FALSE
    Priority <- Priorities
    NumberOfTasks = 3
    Calls <- MailboxCalls
    IsrCalls = {}
    MaxDelay = 2
    MaxPended = 1
SYMMETRY MsgSymmetry
INVARIANTS IInv TypeOK NoLostItem NoLostRoom
PROPERTY Refines
