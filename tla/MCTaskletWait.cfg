SPECIFICATION FairSpec
CONSTANTS
    Main = Main
    NoThread = NoThread
    w1 = w1
    w2 = w2
    c1 = c1
    c2 = c2
    Workers <- OneWorker
    Clients <- OneClient
    Waiters <- OneClient
    Timed = {}
    Cancellers = {}
    Modes <- AsyncMode
    AutoDelete = FALSE
    Deletable = TRUE
    MaxRuns = 1
    MaxWaits = 1
    MaxProgress = 0
PROPERTY
    WaiterReturns
CHECK_DEADLOCK FALSE
