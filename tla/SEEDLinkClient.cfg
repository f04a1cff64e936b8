SPECIFICATION Spec
CONSTANTS
    Interval = 1
    MaxPackets = 4
    MaxLost = 2
    MaxRuns = 2
INVARIANTS
    NoGap
    NoDuplicateWhenSaved
    RedeliveryBound
    NothingSkipped
PROPERTIES
    StopEnds
CHECK_DEADLOCK FALSE
