SPECIFICATION SemUserFairSpec
CONSTANTS
    t1 = t1
    t2 = t2
    t3 = t3
    t4 = t4
    Thread = {t1, t2, t3, t4}
    Start <- FourThreads
    NoThread = NoThread
    sem = sem
    Sem = {sem}
    InitialValue <- OneUnit
    MaxValue = 3
INVARIANTS
    QueueExact
    NoLostWakeup
PROPERTIES
    ImplementsSemaphore
