SPECIFICATION NetworkSpec
CONSTANTS
    Producers = {"p", "q"}
    Capacity = 1
    Scenes <- ChannelScenes
INVARIANT WakeFdLive
INVARIANT NoStrandedCommand
INVARIANT FramesLive
INVARIANT HandlesExact
INVARIANT StreamInOrder
 
INVARIANT WaitersArmed
INVARIANT InstalledAsListed
INVARIANT StopReachesAll
INVARIANT ActiveAsOpen
PROPERTY NetworkSettles
CHECK_DEADLOCK FALSE
