CONSTANTS
    Threads = {t1, t2, t3}
    Condvars = {cv1}
    NoCv = NoCv
    MaxCalls = 5
SPECIFICATION FairSpec
INVARIANTS
    TypeOK
    Exclusion
    StateCounts
    NoLostWakeup
    
    NoDanglingElement
PROPERTIES
    WaiterGetsLock
    ImplementsRWLock
CHECK_DEADLOCK FALSE
