CONSTANTS
    t1 = t1
    t2 = t2
    None = None
    Tags = {t1, t2}
    Lookups = {1, 2, 3}
    MaxRev = 2
    Keyframes = {2}
    MaxBuffered = 1
    Sizes <- SmallSizes
SPECIFICATION FairSpec
INVARIANTS
    TypeOK
    HubMatchesSocket
PROPERTIES
    JoinIsSeamless
    NobodyWaitsForEver
CHECK_DEADLOCK FALSE
