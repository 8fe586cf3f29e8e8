SPECIFICATION FairSpec
CONSTANTS
    NTHR = 4
    io = io
    Conds <- MCConds
INVARIANTS TypeOK ListsAgree CpuHandover AssertsHold FamilyTree NoMissedExit
PROPERTIES FifoOrder FreedByParent ReadyRuns
