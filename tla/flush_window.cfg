SPECIFICATION Spec
CONSTANTS
    Copies = 2
    BatchCap = 3
    MinWindow = 2
    MinMargin = 4
    AssumedWindows = {1, 6, 8}
    TrueWindows = {2, 6, 8}
    MaxStore = 1
    MaxPull = 1
    MaxCommit = 1
    MaxPieces = 4
    MaxLosses = 2
CHECK_DEADLOCK FALSE
 
PROPERTY WindowNeverRises
