SPECIFICATION LockUserFairSpec
CONSTANTS
    t1 = t1
    t2 = t2
    t3 = t3
    t4 = t4
    Thread = {t1, t2, t3, t4}
    Start <- FourThreads
    NoThread = NoThread
    lock = lock
    LockId = {lock}
    Sem = {lock}
    InitialValue <- OneUnit
CHECK_DEADLOCK FALSE
INVARIANTS
    MutualExclusion
    HolderIsInside
PROPERTIES
    LockPassedOn
