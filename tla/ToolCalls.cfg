SPECIFICATION FairSpec
CONSTANTS
    c1 = c1
    c2 = c2
    k1 = k1
    NoKey = NoKey
    Call = {c1, c2, c3, c4, c5}
    Key = {k1}
    KeyOf <- TwoShareAKey
    MaxConcurrent = 2
    FailureThreshold = 3
INVARIANTS
    TypeOK
    SlotsCounted
    BoundedConcurrency
    WaitersMatch
    BreakerConsistent
PROPERTIES
    EveryCallServed
