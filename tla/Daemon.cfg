\* All four threads and three signals.
CONSTANT threads <- AllThreads
SPECIFICATION FairSpec
INVARIANTS
    TypeOK
    NoThreadAbandoned
    UsersGoneFirst
    StatusIsTrue
PROPERTIES
    StopReturns
    MainReturns
CHECK_DEADLOCK FALSE
