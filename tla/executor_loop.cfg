SPECIFICATION Spec
CONSTANTS
    Sources = {s1}
    s1 = s1
    Externals = {x1}
    x1 = x1
    MaxLocal = 1
    EpochSpan = 16
    Deployments <- Executors
INVARIANT SleepsWhenIdle
INVARIANT ReadyBitKept
PROPERTY PushedTasksRun
PROPERTY StopEnds
CHECK_DEADLOCK FALSE
