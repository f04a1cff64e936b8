SPECIFICATION Spec
CONSTANTS
    Codes = {"A", "B"}
    Locations = {"01"}
    Second = 20
    Microsecond = 4
    Rates = {3, 8}
    StartTimes = {7}
    MaxSamples = 3
    Header = 1
    MaxDataLink = 4
    DefaultRecord = 6
    LibraryCodes = {"A", "01"}
    LibraryTypes = {"Integer32", "Double"}
    LibrarySizes = {0, 3}
    RawRecords <- Records
    Buffers <- BuffersReceived
    TwoLetters <- PairTokens
    OneLetter <- ShortTokens
    Capital <- Capitals
    Missing = Missing
    Inis <- IniFiles
    WithGrpc = TRUE
    MaxRecordSize = 4
    DefaultInterval = 100
    InfoLevel = 3
INVARIANTS
    DerivedCurrent
    UnpackedIntact
    RecordsFaithful
    RunsAsConfigured
    CleanedUpAtExit
CHECK_DEADLOCK FALSE
