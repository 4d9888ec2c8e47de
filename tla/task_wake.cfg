SPECIFICATION Spec
CONSTANTS
    e1 = e1
    e2 = e2
    w1 = w1
    w2 = w2
    Executors = {e1, e2}
    Wakers = {w1, w2}
    Targets = {e1, e2}
    MaxRuns = 2
    EpochSpan = 100
    MayReject = TRUE
    HandleKept = FALSE
    Usages <- Either
INVARIANT QueuedOnce
INVARIANT RunsExclusively
INVARIANT AssertionsHold
INVARIANT AcceptedWakesRun
PROPERTY WakeSeen
CHECK_DEADLOCK FALSE
