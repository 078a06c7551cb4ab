SPECIFICATION ReloadSpec
CONSTANTS
    c1 = c1
    Loop = Loop
    Broken = Broken
    Missing = Missing
    Callers = {c1}
    Contents <- MCContents
    Readable = {}
    Subscribers = 2
    MaxEdits = 2
    MaxSignals = 1
INVARIANTS
    AgreeUnlessOverlapped
    OnlyUsable
PROPERTIES
    ComparedSettle
