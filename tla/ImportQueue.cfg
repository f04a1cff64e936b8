SPECIFICATION PollingSpec
CONSTANTS
    MaxSize = 2
    BreakOnFailedPop = TRUE
    Optimistic = TRUE
    MaxPackets = 7
    MaxFailedPops = 2
INVARIANTS
    TypeOK
    FifoOrder
    LossAfterFull
PROPERTIES
    ImplementsLossyFifo
CHECK_DEADLOCK FALSE
