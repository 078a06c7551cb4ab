SPECIFICATION FairSpec
CONSTANTS
    Conns = {c1, c2, c3}
    Calls = {k1}
    MaxConnections = 2
    MaxStreams = 1
INVARIANTS
    TokensExact
    CleanExit
PROPERTIES
    ConnectionsServed
    ShutdownEnds
\* When Start has returned the process ends.
CHECK_DEADLOCK FALSE
