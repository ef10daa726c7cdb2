SPECIFICATION FairSpec
CONSTANTS
    g1 = g1
    g2 = g2
    None = None
    Callers <- TwoCallers
    Sizes = {1, 2}
    BucketRate = 15
    BucketBurst = 2
    WindowLimit = 2
    WindowLength = 2
    AdaptiveRate = 10
    AdaptiveMin = 5
    AdaptiveMax = 12
    Second = 2
    AdjustEvery = 2
    Horizon = 3
    MaxLimiters = 4
    MaxCalls = 5
INVARIANTS BucketKeepsItsRate OneLimiter
PROPERTIES WaitersReturn
