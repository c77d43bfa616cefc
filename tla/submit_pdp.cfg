SPECIFICATION FairSpec
CONSTANTS
    Aggs = {1, 2, 3}
    Undersized = {1}
    Procs = {1}
    MaxInFlight = 2
    TxIds = {1, 2, 3, 4, 5, 6}
    FaultKinds <- AllFaults
    MaxFaults = 2
    MaxStarts = 3
    MaxRearms = 1
CHECK_DEADLOCK FALSE
INVARIANT CommittedIsOnChain
INVARIANT OneAddPerRearm
INVARIANT NoAddAfterLanding
INVARIANT EvictedIsCommitted
PROPERTY AggregateLedger
PROPERTY CleanRunResolves
