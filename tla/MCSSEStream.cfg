SPECIFICATION FairSpec
CONSTANT MaxLines = 6
INVARIANTS
    LinesInOrder
    SilentEndIsWhole
    SlotCoversBackend
    BoundedReadAhead
    ReaderGoneAfterEnd
PROPERTIES
    HandlerReturns
    RelaySpec
\* A request that is over makes no more steps.
CHECK_DEADLOCK FALSE
