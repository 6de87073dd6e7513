CONSTANTS
    Clients = {p1, p2}
    Names = {a, b}
    OpenFlags <- MCOpenFlags
    CreateFlags <- MCCreateFlags
    Faults = {"object", "directory"}
    Retry = FALSE
    EnumAlone = TRUE
    MaxFile = 2
    MaxHash = 3
    MaxBad = 2
    Null = Null
SPECIFICATION Spec
SYMMETRY Symmetry
INVARIANTS
    TypeOK
    
    DirectoryExact
    
    RefsExact
    NoOrphanFile
CHECK_DEADLOCK FALSE
