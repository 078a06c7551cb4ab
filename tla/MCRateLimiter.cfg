SPECIFICATION FairSpec
CONSTANTS
    Requests = {r1, r2}
    Keys = {k1}
    Buckets = {b1, b2, b3}
    None = None
    NoKey = NoKey
    Burst = 2
    Rate = 1
    CleanupInterval = 3
    MaxRequest = 1
    MaxSweep = 1
INVARIANTS
    RateHeld
PROPERTIES
    NeverStricter
    IdleForgotten
