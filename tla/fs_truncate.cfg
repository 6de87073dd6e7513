CONSTANTS
    MaxBlocks = 4
    MaxStamp = 5
    MaxCounter = 4
    Modes = {"hash"}
    NvStart = 0
    Callers = {"truncate"}
SPECIFICATION SpecCallers
INVARIANT Recoverable
