SPECIFICATION FairSpec
CONSTANTS
    Main = Main
    NoThread = NoThread
    w1 = w1
    w2 = w2
    c1 = c1
    c2 = c2
    Workers <- OneWorker
    Clients <- OneClient
    Waiters = {}
    Timed = {}
    Cancellers <- OnMain
    Modes <- BothModes
    AutoDelete = FALSE
    Deletable = TRUE
    MaxRuns = 1
    MaxWaits = 0
    MaxProgress = 0
PROPERTY
    EndIsAnnounced
CHECK_DEADLOCK FALSE
