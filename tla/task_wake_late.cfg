SPECIFICATION Spec
CONSTANTS
    e1 = e1
    e2 = e2
    w1 = w1
    w2 = w2
    Executors = {e1, e2}
    Wakers = {w1, w2}
    Targets = {e1}
    MaxRuns = 3
    EpochSpan = 100
    MayReject = FALSE
    HandleKept = FALSE
    Usages <- TwoPosts
INVARIANT NoStrandedWake
CHECK_DEADLOCK FALSE
