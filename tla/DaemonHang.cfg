\* Without D-Bus only the scheduler itself and the socket interfere.
CONSTANT threads <- NoDBus
SPECIFICATION FairSpec
PROPERTY SignalStopsAllThreads
CHECK_DEADLOCK FALSE
