SPECIFICATION FairSpec
CONSTANTS
    Pieces = {1, 2}
    Copies = 2
    BatchCap = 2
    MaxAttempts = 3
    TxIds = {1, 2, 3, 4, 5, 6}
    FaultKinds <- ResumeFaults
    MaxFaults = 2
    MaxRuns = 3
CHECK_DEADLOCK FALSE
INVARIANT CommittedIsOnChain
INVARIANT EvictedIsSettled
PROPERTY PrimaryLedger
PROPERTY ResumeHonoursReceipt
PROPERTY CleanRunSettles
