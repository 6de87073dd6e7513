CONSTANTS
    Names = {a, b}
    Values = {zero, x, y}
    Zero = zero
    NoName = NoName
    Blocks = 8
    MaxLen = 3
    TmpBlocks = 2
    MaxRetries = 2
    MaxCnt = 15
    MaxFaults = 2
    MaxCuts = 1
    Cases = {}
SPECIFICATION Spec
SYMMETRY Symmetry
INVARIANTS
    TypeOK
    
    
CHECK_DEADLOCK FALSE
