\* Every public operation, one key more than the cache holds.
SPECIFICATION FairSpec
CONSTANTS
    d1 = d1
    d2 = d2
    m1 = m1
    m2 = m2
    m3 = m3
    i1 = i1
    Null = Null
    Keys = {m1, m2, m3, i1}
    Devices = {d1, d2}
    ModuleKeys <- MCModuleKeys
    MaxSize = 3
    TTL = 1
INVARIANTS
    SizeIsCount
    ListIsRecency
PROPERTIES
    ImplementsRecency
    LiveEntriesStay
    ExpiredIsReclaimed
