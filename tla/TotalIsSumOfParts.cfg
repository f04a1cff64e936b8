SPECIFICATION Spec
CONSTANTS
    NumStreams = 1
    ExpireAge = 1
    Watched = "total"
    PrintSummaryInterval = 15
    MaxTime = 3
    MaxUpdates = 2
INVARIANT
    TotalIsSumOfParts
CHECK_DEADLOCK FALSE
