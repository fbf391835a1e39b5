SPECIFICATION FairSpec
CONSTANTS
    Thread = {t0, t1, t2, t3}
    main = t0
    NoThread = NoThread
    MaxTid = 3
INVARIANTS
    SchedulerInv
    NoDanglingThread
    TidExact
PROPERTIES
    
    ReadyEventuallyRuns
