SPECIFICATION Spec
CONSTANTS
    Client = {c}
    Inputs <- TypedInputs
    EOF = EOF
    Quit = "q"
    n1 = n1
    n2 = n2
    m1 = m1
    m2 = m2
    m3 = m3
    m4 = m4
    Node = {n1, n2}
    Mailer = {m1, m2, m3, m4}
    Home <- HomeOf
    Box = {0, 1}
    Scripts <- AllScripts
    Nobody = Nobody
    NumElevators = 2
    NumFloors = 3
    DelayPerFloor = 2
    MaxEvents = 1
    MaxInts = 1
    MaxWakeups = 1
    RedirectBack = FALSE
    SectorsPerTrack = 3
    NumTracks = 2
    RotationTime = 3
    SeekTime = 2
    MaxTicks = 30
    ByteBits = 3
    NumGPRegs = 6
    PageSize = 16
    UserStackSize = 32
    NumPhysPages = 2
    Unset = Unset
    Executables <- AllExecutables
CHECK_DEADLOCK FALSE
INVARIANTS
    EchoExact
    MailExact
    OneSendAtATime
    HaltLeavesNothing
    
    LatencyExact
PROPERTIES
    
    ArithmeticExact
    ImplementsFlat
    EvictsOldest
    
    
