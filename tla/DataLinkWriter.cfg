SPECIFICATION Spec
CONSTANTS
    MaxQueue = 2
    MaxWriteFailures = 3
    ReconnectAttempts = 2
    MaxPackets = 3
    MaxRecords = 2
INVARIANTS
    TypeOK
    SentInOrder
    ConnectedWhenPopping
    GivesUpExactly
    WritesCounted
    StopIsPrompt
PROPERTIES
    StopEnds
    PacketsLeave
CHECK_DEADLOCK FALSE
