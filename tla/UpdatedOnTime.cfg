SPECIFICATION Spec
CONSTANTS
    Interval = 2
    MaxPackets = 6
    MaxLost = 2
    MaxRuns = 1
INVARIANT
    UpdatedOnTime
CHECK_DEADLOCK FALSE
