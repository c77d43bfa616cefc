SPECIFICATION Spec
CONSTANTS
    Cids = {1, 2}
    Aggregates <- OneAggregate
    Uploads <- OneUpload
    Layouts <- DisjointOrSame
    Foreign = "foreign"
    PageSize = 1
    SampleSizes = {0, 2}
    MaxEpoch = 2
CHECK_DEADLOCK FALSE
 
INVARIANT ZeroExitIsProven
INVARIANT ExhaustiveSweep
