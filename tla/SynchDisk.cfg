SPECIFICATION FairSpec
CONSTANTS
    t1 = t1
    t2 = t2
    t3 = t3
    Thread = {t1, t2, t3}
    Start <- ThreeThreads
    NoThread = NoThread
    lock = lock
    semaphore = semaphore
    LockId = {lock}
    Sem = {lock, semaphore}
    InitialValue <- DiskValues
CHECK_DEADLOCK FALSE
INVARIANTS
    DiskInv
PROPERTIES
    DiskKeepsServing
