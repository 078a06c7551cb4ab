SPECIFICATION FairSpec
CONSTANTS
    a1 = a1
    a2 = a2
    Agents = {a1, a2}
    Streams = {s1, s2, s3}
    MaxStreams <- MCMaxStreams
INVARIANTS
    CounterIsHolders
    LimitRespected
    DrainedExceptLate
PROPERTIES
    DrainSettles
    SlotsSpec
