SPECIFICATION ProgramsSpec
CONSTANTS
    Main = Main
    NoThread = NoThread
    w1 = w1
    w2 = w2
    c1 = c1
    c2 = c2
    Workers <- TwoWorkers
    Clients <- TwoClients
    Waiters <- TwoClients
    Timed <- TheOther
    Cancellers <- MainAndClient
    Modes <- BothModes
    AutoDelete = FALSE
    Deletable = TRUE
    MaxRuns = 2
    MaxWaits = 2
    MaxProgress = 1
INVARIANTS
    TypeOK
    WaitTrueMeansEnded
    RunsAreSerialised
    NoEndBeforeStart
PROPERTIES
    SleeperIsWoken
    TimedWaitReturns
    PromiseKept
CHECK_DEADLOCK FALSE
