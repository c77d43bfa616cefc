SPECIFICATION FairSpec
CONSTANTS
    Keys = {k1, k2}
    NoKey = NoKey
    Reqs = {1, 2, 3}
    Margin = 1
    MaxTime = 3
    Presigns = 1
    MaxRestarts = 1
CHECK_DEADLOCK FALSE
 
PROPERTY KeysEnterByValidatedPost
PROPERTY SlotComesFree
