SPECIFICATION FairSpec
CONSTANTS
    L1 = L1
    L2 = L2
    b1 = b1
    b2 = b2
    NoLibrary = NoLibrary
    Blocks <- MCBlocks
    Classes <- MCClasses
    ClassOf <- MCClassOf
    SuperClass <- MCSuperClass
    Libraries <- MCLibraries
    Deletable <- MCDeletable
    Reparent <- ByAnyCall
INVARIANT
    IndexIsPosition
CHECK_DEADLOCK FALSE
