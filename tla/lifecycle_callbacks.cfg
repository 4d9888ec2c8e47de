SPECIFICATION Spec
CONSTANTS
    k1 = k1
    p1 = p1
    t1 = t1
    t2 = t2
    Controllers = {k1}
    Posters = {p1}
    Tasks = {t1, t2}
    Waiters = {t1}
    Deployments <- WaitingWithCallbacks
    ThreadCount = 2
    Capacity = 1
    MaxInits = 1
INVARIANT AcceptedSettle
CHECK_DEADLOCK FALSE
