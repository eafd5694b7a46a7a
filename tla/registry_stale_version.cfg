SPECIFICATION Spec
CONSTANTS
    m1 = m1
    t1 = t1
    t2 = t2
    t3 = t3
    Names <- OneName
    Threads <- TwoThreads
    Versions = {"1", "2"}
    MaxCalls = 3
    MayThrow = FALSE
CHECK_DEADLOCK FALSE
INVARIANT
    DefaultRouteServes
