SPECIFICATION FairSpec
CONSTANTS
    t1 = t1
    t2 = t2
    t3 = t3
    Thread = {t1, t2, t3}
    Start <- ThreeThreads
    NoThread = NoThread
    rdlock = rdlock
    wrlock = wrlock
    LockId = {rdlock}
    Sem = {rdlock, wrlock}
    InitialValue <- OneUnit
CHECK_DEADLOCK FALSE
INVARIANTS
    WriterAlone
    RWLockInv
PROPERTIES
    AccessGranted
