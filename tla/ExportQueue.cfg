SPECIFICATION Spec
CONSTANTS
    MaxSize = 1
    BreakOnFailedPop = FALSE
    Optimistic = TRUE
    MaxPackets = 6
    MaxFailedPops = 2
INVARIANTS
    Accounting
    LossReported
    SizeBound
PROPERTIES
    OfferEnds
CHECK_DEADLOCK FALSE
