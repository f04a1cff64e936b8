SPECIFICATION Spec
CONSTANTS
    MaxSize = 3
    BreakOnFailedPop = FALSE
    Optimistic = FALSE
    MaxPackets = 8
    MaxFailedPops = 2
INVARIANTS
    NewestAdmitted
PROPERTIES
    ImplementsLossyFifoSafely
CHECK_DEADLOCK FALSE
