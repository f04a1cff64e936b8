SPECIFICATION Spec
CONSTANTS
    Interval = 1
    MaxPackets = 2
    MaxLost = 2
    MaxRuns = 1
INVARIANT
    AskedMeansOrderly
CHECK_DEADLOCK FALSE
