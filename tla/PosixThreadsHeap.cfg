SPECIFICATION FairSpec
CONSTANTS
    MainDesc = d0
    MainTcb = k0
    NoDesc = NoDesc
    NoTcb = NoTcb
    NoVal = NoVal
    Desc = {d0, d1, d2}
    Tcb = {k0, k1}
    Value = {v1, v2}
    OnHeapFull = "return"
    DetachBy = "self"
INVARIANTS NoLeak IInv JoinedValue
PROPERTIES Refines JoinReturns
CHECK_DEADLOCK FALSE
