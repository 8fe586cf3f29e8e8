SPECIFICATION FairSpec
CONSTANTS
    t1 = t1
    t2 = t2
    t3 = t3
    Threads <- MCThreads
    TICK_PERIOD = 3
    TMAX = 6
    UINT64_MAX = 8
    Sleeps = {0, 2, 3, 8}
INVARIANTS ListSound DueIsPending
PROPERTIES KeepsTime SleeperWakes
CHECK_DEADLOCK FALSE
