SPECIFICATION Spec
CONSTANTS
    t1 = t1
    t2 = t2
    t3 = t3
    Thread = {t1, t2}
    Start <- TwoThreads
    NoThread = NoThread
    Device = {disk, console}
    Timer = Timer
    DeviceDelays = {2, 3}
    TimerDelays = {1, 3}
    UserTick = 1
    SystemTick = 2
    MaxTicks = 10
CHECK_DEADLOCK FALSE
INVARIANTS
    InterruptInv
    NoDeviceOverdue
PROPERTIES
    ServedInOrder
