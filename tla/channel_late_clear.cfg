SPECIFICATION Spec
CONSTANTS
    Producers = {"p", "q"}
    Capacity = 2
    Scenes <- OneUdpSocket
INVARIANT SendWakesShard
CHECK_DEADLOCK FALSE
