SPECIFICATION UtilitiesSpec
CONSTANTS
    u1 = u1
    u2 = u2
    Users <- TwoUsers
    Sizes <- SmallSizes
    Alignments <- SmallAlignments
    PtrSize = 2
    MallocAlign = 2
    HeapSize = 16
    Width = 4
    NoBlock = NoBlock
    LongWidth = 32
    Strings <- ShortStrings
    NoHash = NoHash
    main = main
    worker = worker
    Reporters <- TwoThreads
    Main = main
    MaxErrors = 3
    Files <- FiveFiles
    Kind <- KindOf
    Target <- TargetOf
    MaxLoads = 2
SYMMETRY Swap
INVARIANTS
    BlocksAreApart
    ChunksAreFound
    DataIsKept
    HashIsCrc
    FeaturesAreHonest
    ErrorsAreHeard
    
