SPECIFICATION Spec
CONSTANTS
    NumWriters = 2
    ImportSize = 1
    ExportSize = 1
    MaxPackets = 3
INVARIANTS
    DeliveredInOrder
    FanOutComplete
    NoUseAfterDestroy
    FuturesStayValid
PROPERTIES
    OnlyDrainsAfterJoin
    InterruptEnds
    FailureEnds
CHECK_DEADLOCK FALSE
