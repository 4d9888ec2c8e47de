SPECIFICATION Spec
CONSTANTS
    k1 = k1
    p1 = p1
    t1 = t1
    t2 = t2
    Controllers = {k1}
    Posters = {p1}
    Tasks = {t1, t2}
    Waiters = {t1}
    Deployments <- SupportedDeployments
    ThreadCount = 2
    Capacity = 1
    MaxInits = 2
INVARIANT PostsSeeLiveQueues
INVARIANT AcceptedSettle
INVARIANT CancelsQuietTasks
PROPERTY ShutdownReturns
CHECK_DEADLOCK FALSE
