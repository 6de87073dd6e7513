CONSTANTS
    MaxBlocks = 4
    MaxStamp = 4
    MaxCounter = 4
    Modes = {"hash", "counter"}
    NvStart = 0
    Callers = {}
SPECIFICATION Spec
INVARIANTS TypeOK Recoverable CleanNodesStored
PROPERTIES ImplementsAtomicFile
