SPECIFICATION Spec
CONSTANTS
    MainDesc = d0
    MainTcb = k0
    NoDesc = NoDesc
    NoTcb = NoTcb
    NoVal = NoVal
    Desc = {d0, d1}
    Tcb = {k0, k1}
    Value = {v1}
    OnHeapFull = "never"
    DetachBy = "any"
INVARIANTS
    DetachedReclaimsItself
CHECK_DEADLOCK FALSE
