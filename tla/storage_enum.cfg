CONSTANTS
    Clients = {p1, p2}
    Names = {a, b}
    OpenFlags <- MCOpenFlags
    CreateFlags <- MCCreateFlags
    Faults = {}
    Retry = FALSE
    EnumAlone = FALSE
    MaxFile = 2
    MaxHash = 3
    MaxBad = 0
    Null = Null
SPECIFICATION Spec
INVARIANTS
    DirhIsCurrent
CHECK_DEADLOCK FALSE
