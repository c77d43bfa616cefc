SPECIFICATION FairSpec
CONSTANTS
    Pieces = {1, 2, 3}
    Origins = {"o", "g"}
    Route <- MCRoute
    Cap = 2
    StallTrip = 2
    PoolSize = 1
    HangsIn = {"job"}
    MaxHangs = 1
    Gateways = {"a", "b"}
    NoGateway = "none"
    NoPeers = "none"
    LearnAfter = 2
    MajorityPercent = 70
    RevalidateEvery = 3
    DecayAt = 6
CHECK_DEADLOCK FALSE
INVARIANT SlotsConserved
INVARIANT WorkersConserved
PROPERTY EveryPieceSettles
