SPECIFICATION DispatchSpec
CONSTANTS
    t1 = t1
    t2 = t2
    t3 = t3
    t4 = t4
    ShardCount = 2
    MaxBatch = 2
    MaxSubmits = 3
    MaxRetries = 1
    Setups <- Applications
INVARIANT GroupCountsShards
INVARIANT AppliedInOrder
INVARIANT GuardHolds
INVARIANT SuccessMeansApplied
INVARIANT TaskInOnePlace
INVARIANT SlotsConserved
PROPERTY DispatchSettles
CHECK_DEADLOCK FALSE
