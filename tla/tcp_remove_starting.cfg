SPECIFICATION Spec
CONSTANTS
    Shards = {"a", "b"}
    Control = "a"
    Configs <- OneListener
    MaxAdds = 1
    RefusedAdds = 1
    MaxStarts = 1
    Refusals <- NoRefusals
    Disciplined = FALSE
INVARIANT RemovedListenersStop
CHECK_DEADLOCK FALSE
