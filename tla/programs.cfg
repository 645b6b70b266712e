SPECIFICATION MCSpec
CONSTANTS
    x = x
    SHUTDOWN = shutdown
    Values = {x, shutdown}
    Addresses = {a1, a2}
    NULL = NULL
    OfficeCount = 2
    Workloads <- SmallWorkloads
    MAXTHREADS = 4
    MAXELEMS = 2
    NUMITER = 3
    HelloThreads = 3
    Operands <- SmallOperands
    Leftovers = {7}
    FORKS = 2
    TRIES = 2
    SIGNALS = 4
    CAPACITY = 1
    MESSAGES = 2
    Listings <- SmallListings
INVARIANTS
    TypesAreKept
    WellLinked
    ServedInOrder
    LocksInOrder
    WakeUpsAreExplained
    FilledRight
    CountsAddUp
    OverrunIsBounded
    LimitIsUsedUp
    EachIsReported
    EachEndIsTold
    NoZombieIsLeft
    CountsWhatWasSent
    NobodyIsStuck
    WhatIsWrittenArrives
PROPERTIES
    ImplementsFifo
CHECK_DEADLOCK FALSE
