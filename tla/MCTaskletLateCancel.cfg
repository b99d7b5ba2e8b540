SPECIFICATION Spec
CONSTANTS
    Main = Main
    NoThread = NoThread
    w1 = w1
    w2 = w2
    c1 = c1
    c2 = c2
    Workers <- OneWorker
    Clients <- OneClient
    Waiters = {}
    Timed = {}
    Cancellers <- OneClient
    Modes <- AsyncMode
    AutoDelete = FALSE
    Deletable = TRUE
    MaxRuns = 1
    MaxWaits = 0
    MaxProgress = 0
INVARIANT
    EndedTellsTheOutcome
CHECK_DEADLOCK FALSE
