SPECIFICATION FileSpec
CONSTANTS
    Size = 4
    Owning <- EvenBlocks
    NoBlock = NoBlock
INVARIANTS
    SuccessMeansWhole
    CompleteDumpLoads
    NothingIsLost
    HeaderIsAsMeant
CHECK_DEADLOCK FALSE
