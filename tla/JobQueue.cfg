\* Two threads and three addresses; jobs are made in one of two seconds.
CONSTANTS
    Thread = {t1, t2}
    Job = {1, 2, 3}
    Priority = {0}
    MaxClock = 1
SPECIFICATION FairSpec
INVARIANTS
    TypeOK
    OneOwner
    NoLostWakeup
    NobodySleepsAtJoin
PROPERTIES
    ImplementsPool
    Stops
    Served
CHECK_DEADLOCK FALSE
