SPECIFICATION FairSpec
CONSTANTS
    r1 = r1  r2 = r2  r3 = r3
    Requests <- ThreeRequests
    Limit = 1
    Window = 2
    MaxTime = 3
INVARIANTS
    IndInv
    WindowBound
    QuotaIsForCalls
PROPERTIES
    RefusedOnlyWhenFull
    EveryRequestAnswered
CHECK_DEADLOCK FALSE
