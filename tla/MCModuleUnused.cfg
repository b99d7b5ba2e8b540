SPECIFICATION Spec
CONSTANTS
    m1 = m1
    m2 = m2
    m3 = m3
    t1 = t1
    t2 = t2
    Loadables <- MCLoadables
    Type <- FirstOfType
    MayFail = {}
    Instances <- MCInstances
    Permanent = {}
    Threads <- OneThread
    MaxDrift = 3
INVARIANT
    UnusedMetaBlockCanUnload
