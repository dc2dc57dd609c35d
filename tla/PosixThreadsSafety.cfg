SPECIFICATION Spec
CONSTANTS
    MainDesc = d0
    MainTcb = k0
    NoDesc = NoDesc
    NoTcb = NoTcb
    NoVal = NoVal
    Desc = {d0, d1, d2}
    Tcb = {k0, k1, k2}
    Value = {v1}
    OnHeapFull = "halt"
    DetachBy = "any"
SYMMETRY Symmetry
INVARIANTS
    NoUseAfterFree
    SelfIdentifies
    RegistryAllocated
    RegistryComplete
CHECK_DEADLOCK FALSE
