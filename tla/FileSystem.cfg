SPECIFICATION Spec
CONSTANTS
    nameA = nameA
    nameD = nameD
    NumSectors = 15
    SectorSize = 2
    IndexSize = 2
    NumDirEntries = 2
    Thread = {t1, t2}
    NoThread = NoThread
    ClientRequest <- Requests
    Extending = FALSE
    Garbage = Garbage
    FilePath <- File_da
    DirPath <- Dir_d
    FileSize = {3}
    NoName = NoName
    Lost = Lost
    NewVisits = {0}
    MaxVisits = 2
CHECK_DEADLOCK FALSE
INVARIANTS
    SectorsExact
    
    ReadsSerialised
PROPERTIES
    TransfersEnd
