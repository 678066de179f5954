CONSTANTS
    Dir = {"a", "as", "ab"}
    File = {"fa", "ga", "fs"}
    Top = "top"
    NoWatch = "none"
    Par <- MCPar
    LooksLike <- MCLooksLike
    Sorted <- MCSorted
    Requests <- MCRequests
    Starts <- MCStarts
    Indexes <- MCIndexes
    Scarce = {"a"}
    MaxTime = 5
    MaxRequests = 2
    MaxInputs = 3
SPECIFICATION Spec
INVARIANTS TypeOK SeenIsReported OnlyKnownIsWatched
PROPERTIES OnlyKnownIsReported LastRequestWins StopEnds
CHECK_DEADLOCK FALSE
