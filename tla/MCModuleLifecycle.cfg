SPECIFICATION Spec
CONSTANTS
    m1 = m1
    m2 = m2
    m3 = m3
    t1 = t1
    t2 = t2
    Loadables <- MCLoadables
    Type <- FirstOfType
    MayFail <- AllMayFail
    Instances <- MCInstances
    Permanent <- OnePermanent
    Threads <- TwoThreads
    MaxDrift = 3
INVARIANTS
    TypeOK
    InstancesKeepTheirMetaBlock
    CountIsExact
    LoadsAllOrNothing
