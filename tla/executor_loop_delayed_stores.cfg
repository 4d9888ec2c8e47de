SPECIFICATION Spec
CONSTANTS
    Sources = {s1}
    s1 = s1
    Externals = {x1}
    x1 = x1
    MaxLocal = 1
    EpochSpan = 16
    Deployments <- DelayedIoThread
INVARIANT NoSleepOverWork
CHECK_DEADLOCK FALSE
