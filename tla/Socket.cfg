SPECIFICATION Spec
CONSTANTS
    Sync = {s1}
    Async = {a1, a2}
    Calls <- MCCalls
    HitLists <- MCHitLists
    Garbage <- MCGarbage
    None = None
    Buffer = 9
    MaxConn = 2
    MaxFd = 2
CHECK_DEADLOCK FALSE
INVARIANTS AnswerArrives ActsOnWhole DescriptorsOwned
PROPERTIES EveryCallReturns
