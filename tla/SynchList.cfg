SPECIFICATION FairSpec
CONSTANTS
    t1 = t1
    t2 = t2
    t3 = t3
    Thread = {t1, t2, t3}
    Start <- ThreeThreads
    NoThread = NoThread
    lock = lock
    listEmpty = listEmpty
    LockId = {lock}
    Cond = {listEmpty}
    Sem = {lock}
    InitialValue <- OneUnit
    MaxItems = 2
CHECK_DEADLOCK FALSE
INVARIANTS
    SynchListInv
PROPERTIES
    CountsItems
    ItemsTaken
