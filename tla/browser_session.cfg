SPECIFICATION Spec
CONSTANTS
    Scopes = {a, b}
    Off = Off
    Keys = {k1, k2}
    NoKey = NoKey
    Durations = {2, 3}
    Default = 2
    Margin = 1
    MaxTime = 2
    MaxChanges = 2
SYMMETRY Symmetry
CHECK_DEADLOCK FALSE
INVARIANT ResumeFollowsWallet
INVARIANT PresignsAreBacked
INVARIANT AuthorizationIsHeld
