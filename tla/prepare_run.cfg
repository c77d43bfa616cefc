SPECIFICATION RunFairSpec
CONSTANTS
    Cids = {c1, c2}
    Concurrency = 1
    ByteCap = 1
    MaxAttempts = 3
    MaxReloads = 1
CHECK_DEADLOCK FALSE
INVARIANT WorkingRowsAreWorkedOn
PROPERTY RunSettlesItsRows
