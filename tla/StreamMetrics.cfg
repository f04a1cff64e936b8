SPECIFICATION Spec
CONSTANTS
    NumStreams = 2
    ExpireAge = 1
    Watched = "total"
    PrintSummaryInterval = 15
    MaxTime = 3
    MaxUpdates = 2
INVARIANTS
    CountsConserved
    PartsWithinTotal
    GoodPacketsAreNew
PROPERTIES
    ReportsNeverDecrease
    CountsReported
CHECK_DEADLOCK FALSE
