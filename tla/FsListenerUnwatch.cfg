CONSTANTS
    Dir = {"a", "as", "ast", "b"}
    File = {"fa", "ga", "fs"}
    Top = "top"
    NoWatch = "none"
    Par <- MCPar
    LooksLike <- MCLooksLike2
    Sorted <- MCSorted2
    Requests <- MCRequests2
    Starts <- MCStarts2
    Indexes <- MCIndexes2
    Scarce = {"a", "b"}
    MaxTime = 3
    MaxRequests = 1
    MaxInputs = 2
SPECIFICATION Spec
PROPERTIES OnlyForgottenIsUnwatched
CHECK_DEADLOCK FALSE
