CONSTANTS
    Names = {a, b}
    Values = {zero, x, y}
    Zero = zero
    NoName = NoName
    Blocks = 8
    MaxLen = 3
    TmpBlocks = 2
    MaxRetries = 2
    MaxCnt = 14
    MaxFaults = 0
    MaxCuts = 0
    Cases = {"rename_use"}
SPECIFICATION Spec
SYMMETRY Symmetry
INVARIANTS
    MatchingEntry
CHECK_DEADLOCK FALSE
