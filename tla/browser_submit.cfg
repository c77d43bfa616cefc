SPECIFICATION FairSpec
CONSTANTS
    Copies = {1, 2}
    NumPieces = 3
    ChunkSize = 2
    MaxTx = 6
    MaxRuns = 3
    FaultKinds <- AllFaults
    MaxFaults = 2
    MaxRequeues = 1
    OldRecords <- SubmittedRecords
CHECK_DEADLOCK FALSE

INVARIANT PiecesConserved
INVARIANT CommittedIsOnChain
 
PROPERTY CleanRunCompletes
