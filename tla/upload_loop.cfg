SPECIFICATION FairSpec
CONSTANTS
    Pieces = {1, 2, 3}
    Copies = 2
    BatchCap = 2
    MaxAttempts = 3
    TxIds = {1, 2, 3, 4, 5, 6, 7, 8, 9}
    FaultKinds <- LoopFaults
    MaxFaults = 2
    MaxRuns = 1
CHECK_DEADLOCK FALSE
INVARIANT OneAddPerRun
PROPERTY RunEnds
