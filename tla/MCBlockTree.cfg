SPECIFICATION FairSpec
CONSTANTS
    L1 = L1
    L2 = L2
    b1 = b1
    b2 = b2
    NoLibrary = NoLibrary
    Blocks <- MCBlocks
    Classes <- MCClasses
    ClassOf <- MCClassOf
    SuperClass <- MCSuperClass
    Libraries <- MCLibraries
    Deletable <- MCDeletable
    Reparent <- ByInsert
INVARIANTS
    TypeOK
    TreeIsConsistent
    WatchersAreAccurate
    MirrorIsAccurate
    QueriesAreExact
    InsertionIsAnnounced
    DeletedIsForgotten
PROPERTY
    DestructionEnds
CHECK_DEADLOCK FALSE
